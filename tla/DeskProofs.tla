---------------------------- MODULE DeskProofs ----------------------------
(***************************************************************************)
(* What the parts of the desk keep, for any number of calls, requests,     *)
(* cards, documents and parties: first the session, then the page of       *)
(* payments, the bank accounts, the cards of the settings, the form of a   *)
(* party, the lists of documents, the printed document and the entry of a  *)
(* document with the calculator it goes by, each with the invariant its    *)
(* steps preserve; at the end, that a step of the desk is one of its part. *)
(***************************************************************************)
EXTENDS Desk, SumLemmas, SequenceTheorems, TLAPS

Pairs == [login : Nat \ {0}, fy : FYs, live : BOOLEAN, stale : BOOLEAN, after : BOOLEAN]

(* The pairs form a sequence, each tied to a sign-in no later than itself, and
   every call refers to pairs that were issued. *)
Issued ==
  /\ tokens \in Seq(Pairs)
  /\ \A t \in 1..Len(tokens) : tokens[t].login <= t

CallsTyped ==
  /\ DOMAIN call = Calls
  /\ \A c \in Calls : CallType(call[c])

ClientTyped ==
  /\ store \in {0} \cup DOMAIN tokens
  /\ chosen \in FYs \cup {None}
  /\ reset \in BOOLEAN /\ native \in BOOLEAN /\ flag \in BOOLEAN
  /\ out \in BOOLEAN /\ failed \in BOOLEAN /\ calm \in BOOLEAN

IInv == Issued /\ CallsTyped /\ ClientTyped /\ SessionKeepsYear

(* A pair of the sequence, as a record.                                      *)
LEMMA PairOf ==
  ASSUME Issued, NEW t \in DOMAIN tokens
  PROVE  /\ t \in Nat \ {0} /\ t \in 1..Len(tokens)
         /\ tokens[t] \in Pairs
         /\ tokens[t].login \in DOMAIN tokens
         /\ tokens[t].login \in 1..t
         /\ tokens[t].fy \in FYs
         /\ tokens[t].after \in BOOLEAN
<1>1. tokens \in Seq(Pairs) /\ DOMAIN tokens = 1..Len(tokens) /\ Len(tokens) \in Nat
  BY DEF Issued
<1>2. t \in Nat \ {0} /\ t \in 1..Len(tokens) /\ tokens[t] \in Pairs
  BY <1>1
<1>3. /\ tokens[t].login \in Nat \ {0} /\ tokens[t].fy \in FYs
      /\ tokens[t].after \in BOOLEAN
  BY <1>2 DEF Pairs
<1>4. tokens[t].login <= t
  BY <1>2 DEF Issued
<1>5. tokens[t].login \in 1..t /\ tokens[t].login \in DOMAIN tokens
  BY <1>1, <1>2, <1>3, <1>4
<1>. QED  BY <1>2, <1>3, <1>5

(* Rows that lose their life, or whose access token runs out, keep the rest. *)
LEMMA Marked ==
  ASSUME IInv, tokens' \in Seq(Pairs), Len(tokens') = Len(tokens),
         \A t \in DOMAIN tokens : /\ tokens'[t].login = tokens[t].login
                                  /\ tokens'[t].fy = tokens[t].fy
  PROVE  Issued' /\ SessionKeepsYear' /\ DOMAIN tokens' = DOMAIN tokens
<1>1. DOMAIN tokens' = DOMAIN tokens
  BY DEF IInv, Issued
<1>2. Issued'
  BY <1>1 DEF IInv, Issued
<1>3. SessionKeepsYear'
  BY <1>1, PairOf DEF IInv, SessionKeepsYear
<1>. QED  BY <1>1, <1>2, <1>3

LEMMA Revoked ==
  ASSUME IInv, NEW s, Revoke(s)
  PROVE  Issued' /\ SessionKeepsYear' /\ DOMAIN tokens' = DOMAIN tokens
<1>. DEFINE n == Len(tokens)
<1>1. n \in Nat /\ DOMAIN tokens = 1..n
  BY DEF IInv, Issued
<1>2. \A t \in 1..n :
        /\ tokens'[t] = IF t \in s THEN [tokens[t] EXCEPT !.live = FALSE] ELSE tokens[t]
        /\ tokens[t] \in Pairs
  BY <1>1, PairOf DEF Revoke, IInv
<1>3. \A t \in 1..n : /\ tokens'[t] \in Pairs
                      /\ tokens'[t].login = tokens[t].login
                      /\ tokens'[t].fy = tokens[t].fy
  BY <1>2 DEF Pairs
<1>4. tokens' \in [1..n -> Pairs]
  BY <1>1, <1>3 DEF Revoke
<1>5. tokens' \in Seq(Pairs) /\ Len(tokens') = n
  BY <1>1, <1>4
<1>. QED  BY <1>1, <1>3, <1>5, Marked

(* A pair is appended: of a session there is, in its year, or of a new one.  *)
LEMMA Appended ==
  ASSUME IInv, NEW p \in Pairs, tokens' = Append(tokens, p),
         \/ p.login = Len(tokens) + 1
         \/ p.login \in DOMAIN tokens /\ p.fy = tokens[p.login].fy
  PROVE  /\ Issued' /\ SessionKeepsYear'
         /\ DOMAIN tokens \subseteq DOMAIN tokens'
         /\ Len(tokens') \in DOMAIN tokens'
<1>. DEFINE n == Len(tokens)
<1>1. /\ n \in Nat /\ DOMAIN tokens = 1..n
      /\ tokens' \in Seq(Pairs) /\ Len(tokens') = n + 1 /\ DOMAIN tokens' = 1..(n + 1)
      /\ tokens'[n + 1] = p
      /\ \A t \in 1..n : tokens'[t] = tokens[t]
  BY DEF IInv, Issued
<1>2. Issued'
  BY <1>1 DEF IInv, Issued, Pairs
<1>3. SessionKeepsYear'
  <2>1. ASSUME NEW t \in 1..n
        PROVE  tokens'[t].fy = tokens'[tokens'[t].login].fy
    BY <1>1, PairOf DEF IInv, SessionKeepsYear
  <2>2. tokens'[n + 1].fy = tokens'[tokens'[n + 1].login].fy
    BY <1>1
  <2>3. \A t \in 1..(n + 1) : t \in 1..n \/ t = n + 1
    BY <1>1
  <2>4. \A t \in DOMAIN tokens' : tokens'[t].fy = tokens'[tokens'[t].login].fy
    BY <1>1, <2>1, <2>2, <2>3
  <2>. QED  BY <2>4 DEF SessionKeepsYear
<1>. QED  BY <1>1, <1>2, <1>3

(* Calls stay typed as pairs are added and one call takes a step.            *)
LEMMA CallSteps ==
  ASSUME IInv, NEW c \in Calls, NEW r, Step(c, r), CallType(r)',
         DOMAIN tokens \subseteq DOMAIN tokens'
  PROVE  CallsTyped'
<1>1. DOMAIN call' = Calls /\ call'[c] = r /\ \A d \in Calls \ {c} : call'[d] = call[d]
  BY DEF Step, IInv, CallsTyped
<1>2. \A d \in Calls \ {c} : CallType(call[d])'
  BY <1>1 DEF IInv, CallsTyped, CallType
<1>. QED  BY <1>1, <1>2 DEF CallsTyped

(* A call that is where it was, while the pairs stay as many, stays typed.    *)
LEMMA CallsStay ==
  ASSUME IInv, call' = call, DOMAIN tokens \subseteq DOMAIN tokens'
  PROVE  CallsTyped'
BY DEF IInv, CallsTyped, CallType

(* The first state has no pair and every call idle.                          *)
LEMMA Initially ==
  ASSUME Init
  PROVE  IInv
<1>1. Issued
  BY DEF Init, Issued
<1>2. CallsTyped
  BY DEF Init, CallsTyped, CallType, Idle
<1>3. ClientTyped
  BY DEF Init, ClientTyped
<1>4. SessionKeepsYear
  BY DEF Init, SessionKeepsYear
<1>. QED  BY <1>1, <1>2, <1>3, <1>4 DEF IInv

(* A step that leaves the pairs alone, and moves one call.                   *)
LEMMA PairsKept ==
  ASSUME IInv, NEW c \in Calls, NEW r, UNCHANGED tokens, Step(c, r), CallType(r), ClientTyped'
  PROVE  IInv'
<1>1. Issued' /\ SessionKeepsYear'
  BY DEF IInv, Issued, SessionKeepsYear
<1>2. CallType(r)'
  BY DEF CallType
<1>3. CallsTyped'
  BY <1>2, CallSteps
<1>. QED  BY <1>1, <1>3 DEF IInv

(* What a call may hold where it is.                                         *)
LEMMA CallAt ==
  ASSUME IInv, NEW c \in Calls
  PROVE  CallType(call[c])
BY DEF IInv, CallsTyped

(* Every step of the specification keeps the invariant.                      *)
LEMMA Inductive ==
  ASSUME IInv, [Next]_vars
  PROVE  IInv'
<1>. USE DEF Pair
<1>1. ASSUME NEW c \in Calls, Send(c)  PROVE IInv'
  <2>1. PICK r : r = [at |-> "sent", access |-> store, again |-> FALSE]
    OBVIOUS
  <2>2. Step(c, r) /\ CallType(r)
    BY <1>1, <2>1 DEF Send, Step, CallType, IInv, ClientTyped
  <2>3. UNCHANGED tokens /\ ClientTyped'
    BY <1>1 DEF Send, IInv, ClientTyped
  <2>. QED  BY <2>2, <2>3, PairsKept
<1>2. ASSUME NEW c \in Calls, Serve(c)  PROVE IInv'
  <2>1. PICK r : r \in {Idle, [at |-> "denied"]} /\ Step(c, r)
    BY <1>2 DEF Serve
  <2>2. CallType(r)
    BY <2>1 DEF CallType, Idle
  <2>3. UNCHANGED tokens /\ ClientTyped'
    BY <1>2 DEF Serve, IInv, ClientTyped
  <2>. QED  BY <2>1, <2>2, <2>3, PairsKept
<1>3. ASSUME NEW c \in Calls, Lose(c)  PROVE IInv'
  <2>1. Step(c, Idle) /\ CallType(Idle)
    BY <1>3 DEF Lose, Ended, CallType, Idle
  <2>2. UNCHANGED tokens /\ ClientTyped'
    BY <1>3 DEF Lose, IInv, ClientTyped
  <2>. QED  BY <2>1, <2>2, PairsKept
<1>4. ASSUME NEW c \in Calls, Refresh(c)  PROVE IInv'
  <2>1. PICK r : r = [at |-> "asked", token |-> store]
    OBVIOUS
  <2>2. Step(c, r) /\ CallType(r)
    BY <1>4, <2>1 DEF Refresh, Step, CallType, IInv, ClientTyped
  <2>3. UNCHANGED tokens /\ ClientTyped'
    BY <1>4 DEF Refresh, Touch, IInv, ClientTyped
  <2>. QED  BY <2>2, <2>3, PairsKept
<1>5. ASSUME NEW c \in Calls, RefreshRead(c)  PROVE IInv'
  <2>1. call[c].at = "asked" /\ CallType(call[c])
    BY <1>5, CallAt DEF RefreshRead, At
  <2>2. call[c].token \in {0} \cup DOMAIN tokens
    BY <2>1 DEF CallType
  <2>3. PICK r : r = [call[c] EXCEPT !.at = IF Live(call[c].token) THEN "found" ELSE "refused"]
    OBVIOUS
  <2>4. Step(c, r)
    BY <1>5, <2>3 DEF RefreshRead, Step
  <2>5. CallType(r)
    BY <2>1, <2>2, <2>3 DEF CallType, Live
  <2>6. UNCHANGED tokens /\ ClientTyped'
    BY <1>5 DEF RefreshRead, IInv, ClientTyped
  <2>. QED  BY <2>4, <2>5, <2>6, PairsKept
<1>6. ASSUME NEW c \in Calls, RefreshRevoke(c)  PROVE IInv'
  <2>1. call[c].at = "found" /\ CallType(call[c])
    BY <1>6, CallAt DEF RefreshRevoke, At
  <2>2. Issued' /\ SessionKeepsYear' /\ DOMAIN tokens' = DOMAIN tokens
    BY <1>6, Revoked DEF RefreshRevoke
  <2>3. PICK r : r = [call[c] EXCEPT !.at = "revoked"]
    OBVIOUS
  <2>4. Step(c, r)
    BY <1>6, <2>3 DEF RefreshRevoke, Step
  <2>5. CallType(r)
    BY <2>1, <2>3 DEF CallType
  <2>6. CallType(r)'
    BY <2>2, <2>5 DEF CallType
  <2>7. CallsTyped'
    BY <2>4, <2>2, <2>6, CallSteps
  <2>8. ClientTyped'
    BY <1>6, <2>2 DEF RefreshRevoke, IInv, ClientTyped
  <2>. QED  BY <2>2, <2>7, <2>8 DEF IInv
<1>7. ASSUME NEW c \in Calls, RefreshIssue(c)  PROVE IInv'
  <2>. DEFINE old == tokens[call[c].token]
              p == Pair(old.login, old.fy, old.after)
  <2>1. call[c].at = "revoked" /\ CallType(call[c])
    BY <1>7, CallAt DEF RefreshIssue, At
  <2>2. call[c].token \in DOMAIN tokens
    BY <2>1 DEF CallType
  <2>3. /\ old.login \in DOMAIN tokens /\ old.login \in Nat \ {0}
        /\ old.fy \in FYs /\ old.after \in BOOLEAN
        /\ old.fy = tokens[old.login].fy
    BY <2>2, PairOf DEF IInv, SessionKeepsYear, Issued
  <2>4. p \in Pairs /\ p.login \in DOMAIN tokens /\ p.fy = tokens[p.login].fy
    BY <2>3 DEF Pairs
  <2>5. tokens' = Append(tokens, p)
    BY <1>7 DEF RefreshIssue
  <2>6. /\ Issued' /\ SessionKeepsYear'
        /\ DOMAIN tokens \subseteq DOMAIN tokens'
        /\ Len(tokens') \in DOMAIN tokens'
    BY <2>4, <2>5, Appended
  <2>7. PICK r : r = [at |-> "issued", new |-> Len(tokens')]
    OBVIOUS
  <2>8. Step(c, r)
    BY <1>7, <2>7 DEF RefreshIssue, Step
  <2>9. CallType(r)'
    BY <2>6, <2>7 DEF CallType
  <2>10. CallsTyped'
    BY <2>6, <2>8, <2>9, CallSteps
  <2>11. ClientTyped'
    BY <1>7, <2>6 DEF RefreshIssue, IInv, ClientTyped
  <2>. QED  BY <2>6, <2>10, <2>11 DEF IInv
<1>8. ASSUME NEW c \in Calls, RefreshAnswer(c)  PROVE IInv'
  <2>1. call[c].at = "issued" /\ CallType(call[c])
    BY <1>8, CallAt DEF RefreshAnswer, At
  <2>2. call[c].new \in DOMAIN tokens
    BY <2>1 DEF CallType
  <2>3. PICK r : r = [at |-> "sent", access |-> call[c].new, again |-> TRUE]
    OBVIOUS
  <2>4. Step(c, r) /\ CallType(r)
    BY <1>8, <2>2, <2>3 DEF RefreshAnswer, Step, CallType
  <2>5. UNCHANGED tokens /\ ClientTyped'
    BY <1>8, <2>2 DEF RefreshAnswer, IInv, ClientTyped
  <2>. QED  BY <2>4, <2>5, PairsKept
<1>9. ASSUME NEW c \in Calls, RefreshRefused(c)  PROVE IInv'
  <2>1. Step(c, Idle) /\ CallType(Idle)
    BY <1>9 DEF RefreshRefused, Dropped, Ended, CallType, Idle
  <2>2. UNCHANGED tokens /\ ClientTyped'
    BY <1>9 DEF RefreshRefused, Dropped, IInv, ClientTyped
  <2>. QED  BY <2>1, <2>2, PairsKept
<1>19. ASSUME NEW c \in Calls, RefreshFailed(c)  PROVE IInv'
  <2>1. Step(c, Idle) /\ CallType(Idle)
    BY <1>19 DEF RefreshFailed, Dropped, Ended, CallType, Idle
  <2>2. UNCHANGED tokens /\ ClientTyped'
    BY <1>19 DEF RefreshFailed, Dropped, IInv, ClientTyped
  <2>. QED  BY <2>1, <2>2, PairsKept
<1>10. ASSUME NEW c \in Calls, NEW fy \in FYs, SignIn(c, fy)  PROVE IInv'
  <2>1. Step(c, [at |-> "signing", fy |-> fy]) /\ CallType([at |-> "signing", fy |-> fy])
    BY <1>10 DEF SignIn, CallType
  <2>2. UNCHANGED tokens /\ ClientTyped'
    BY <1>10 DEF SignIn, Touch, IInv, ClientTyped
  <2>. QED  BY <2>1, <2>2, PairsKept
<1>11. ASSUME NEW c \in Calls, SignInIssue(c)  PROVE IInv'
  <2>. DEFINE p == Pair(Len(tokens) + 1, call[c].fy, reset)
  <2>1. call[c].at = "signing" /\ CallType(call[c])
    BY <1>11, CallAt DEF SignInIssue, At
  <2>2. call[c].fy \in FYs /\ reset \in BOOLEAN /\ Len(tokens) \in Nat
    BY <2>1 DEF CallType, IInv, ClientTyped, Issued
  <2>3. p \in Pairs /\ p.login = Len(tokens) + 1
    BY <2>2 DEF Pairs
  <2>4. tokens' = Append(tokens, p)
    BY <1>11 DEF SignInIssue
  <2>5. /\ Issued' /\ SessionKeepsYear'
        /\ DOMAIN tokens \subseteq DOMAIN tokens'
        /\ Len(tokens') \in DOMAIN tokens'
    BY <2>3, <2>4, Appended
  <2>6. PICK r : r = [at |-> "signed", new |-> Len(tokens')]
    OBVIOUS
  <2>7. Step(c, r)
    BY <1>11, <2>6 DEF SignInIssue, Step
  <2>8. CallType(r)'
    BY <2>5, <2>6 DEF CallType
  <2>9. CallsTyped'
    BY <2>5, <2>7, <2>8, CallSteps
  <2>10. ClientTyped'
    BY <1>11, <2>5 DEF SignInIssue, IInv, ClientTyped
  <2>. QED  BY <2>5, <2>9, <2>10 DEF IInv
<1>12. ASSUME NEW c \in Calls, SignInAnswer(c)  PROVE IInv'
  <2>1. call[c].at = "signed" /\ CallType(call[c])
    BY <1>12, CallAt DEF SignInAnswer, At
  <2>2. call[c].new \in DOMAIN tokens
    BY <2>1 DEF CallType
  <2>3. tokens[call[c].new].fy \in FYs
    BY <2>2, PairOf DEF IInv
  <2>4. Step(c, Idle) /\ CallType(Idle)
    BY <1>12 DEF SignInAnswer, Ended, CallType, Idle
  <2>5. UNCHANGED tokens /\ ClientTyped'
    BY <1>12, <2>2, <2>3 DEF SignInAnswer, IInv, ClientTyped
  <2>. QED  BY <2>4, <2>5, PairsKept
<1>13. ASSUME NEW c \in Calls, SignOut(c)  PROVE IInv'
  <2>1. PICK r : r = [at |-> "leaving", token |-> store]
    OBVIOUS
  <2>2. Step(c, r) /\ CallType(r)
    BY <1>13, <2>1 DEF SignOut, Step, CallType, IInv, ClientTyped
  <2>3. UNCHANGED tokens /\ ClientTyped'
    BY <1>13 DEF SignOut, Touch, IInv, ClientTyped
  <2>. QED  BY <2>2, <2>3, PairsKept
<1>14. ASSUME NEW c \in Calls, SignOutServe(c)  PROVE IInv'
  <2>1. Issued' /\ SessionKeepsYear' /\ DOMAIN tokens' = DOMAIN tokens
    BY <1>14, Revoked DEF SignOutServe
  <2>2. Step(c, [at |-> "left"]) /\ CallType([at |-> "left"])'
    BY <1>14 DEF SignOutServe, CallType
  <2>3. CallsTyped'
    BY <2>1, <2>2, CallSteps
  <2>4. ClientTyped'
    BY <1>14, <2>1 DEF SignOutServe, IInv, ClientTyped
  <2>. QED  BY <2>1, <2>3, <2>4 DEF IInv
<1>15. ASSUME NEW c \in Calls, SignOutEnd(c)  PROVE IInv'
  <2>1. Step(c, Idle) /\ CallType(Idle)
    BY <1>15 DEF SignOutEnd, Ended, CallType, Idle
  <2>2. UNCHANGED tokens /\ ClientTyped'
    BY <1>15 DEF SignOutEnd, IInv, ClientTyped
  <2>. QED  BY <2>1, <2>2, PairsKept
<1>16. ASSUME NEW t \in DOMAIN tokens, Expire(t)  PROVE IInv'
  <2>1. tokens \in Seq(Pairs) /\ tokens[t] \in Pairs
    BY PairOf DEF IInv, Issued
  <2>2. tokens' = [tokens EXCEPT ![t].stale = TRUE]
    BY <1>16 DEF Expire
  <2>3. PICK p : p = [tokens[t] EXCEPT !.stale = TRUE]
    OBVIOUS
  <2>4. p \in Pairs /\ p.login = tokens[t].login /\ p.fy = tokens[t].fy
    BY <2>1, <2>3 DEF Pairs
  <2>5. tokens' = [tokens EXCEPT ![t] = p]
    BY <2>2, <2>3
  <2>6. /\ tokens' \in Seq(Pairs) /\ Len(tokens') = Len(tokens)
        /\ \A s \in DOMAIN tokens : /\ tokens'[s].login = tokens[s].login
                                    /\ tokens'[s].fy = tokens[s].fy
    BY <2>1, <2>4, <2>5
  <2>7. Issued' /\ SessionKeepsYear' /\ DOMAIN tokens' = DOMAIN tokens
    BY <2>6, Marked
  <2>8. CallsTyped'
    BY <1>16, <2>7, CallsStay DEF Expire
  <2>9. ClientTyped'
    BY <1>16, <2>7 DEF Expire, IInv, ClientTyped
  <2>. QED  BY <2>7, <2>8, <2>9 DEF IInv
<1>17. ASSUME ResetPassword  PROVE IInv'
  <2>1. Issued' /\ SessionKeepsYear' /\ DOMAIN tokens' = DOMAIN tokens
    BY <1>17, Revoked DEF ResetPassword
  <2>2. CallsTyped'
    BY <1>17, <2>1, CallsStay DEF ResetPassword
  <2>3. ClientTyped'
    BY <1>17, <2>1 DEF ResetPassword, IInv, ClientTyped
  <2>. QED  BY <2>1, <2>2, <2>3 DEF IInv
<1>18. ASSUME UNCHANGED vars  PROVE IInv'
  BY <1>18 DEF vars, IInv, Issued, CallsTyped, CallType, ClientTyped, SessionKeepsYear
<1>. QED
  BY <1>1, <1>2, <1>3, <1>4, <1>5, <1>6, <1>7, <1>8, <1>9, <1>10, <1>11, <1>12, <1>13,
     <1>14, <1>15, <1>16, <1>17, <1>18, <1>19 DEF Next

(* The invariant says what the variables hold.                                *)
LEMMA SessionTyped == IInv => TypeOK
<1>. SUFFICES ASSUME IInv  PROVE TypeOK
  OBVIOUS
<1>1. \A t \in DOMAIN tokens :
        tokens[t] \in [login : 1..t, fy : FYs, live : BOOLEAN, stale : BOOLEAN, after : BOOLEAN]
  BY PairOf DEF IInv, Pairs
<1>. QED  BY <1>1 DEF IInv, ClientTyped, CallsTyped, TypeOK

(* The pairs, the client and its calls have their types, and a call refers only
   to pairs that were issued. *)
THEOREM TypeCorrect == Spec => []TypeOK
<1>1. Init => IInv
  BY Initially
<1>2. IInv /\ [Next]_vars => IInv'
  BY Inductive
<1>3. IInv => TypeOK
  BY SessionTyped
<1>. QED  BY <1>1, <1>2, <1>3, PTL DEF Spec

(* Whatever calls, exchanges, sign-ins and losses there are, every pair of a
   session is in the year it was opened in (auth.refresh carries the year of the
   row it has read). *)
THEOREM SessionStaysInYear == Spec => []SessionKeepsYear
<1>1. Init => IInv
  BY Initially
<1>2. IInv /\ [Next]_vars => IInv'
  BY Inductive
<1>3. IInv => SessionKeepsYear
  BY DEF IInv
<1>. QED  BY <1>1, <1>2, <1>3, PTL DEF Spec

-----------------------------------------------------------------------------
(* While exchanges, sign-ins, sign-outs and resets take turns: one call at most
   is at it, and what it has read of the store is still there. *)
CallSound(r) ==
  /\ r.at \in {"asked", "found", "revoked", "refused"} => r.token = store
  /\ r.at = "found" => Live(store)
  /\ r.at = "refused" => ~ Live(store)
  /\ r.at = "revoked" =>
       /\ \A t \in DOMAIN tokens : tokens[t].login = tokens[store].login => ~ tokens[t].live
       /\ reset => tokens[store].after
  /\ r.at = "issued" => store # 0 /\ tokens[r.new].fy = tokens[store].fy
  /\ r.at \in {"found", "revoked", "issued"} => out \/ failed \/ flag
  /\ r.at \in {"leaving", "left"} => out

OneAtATime == \A c, d \in InExchange : c = d
CallsSound == \A c \in Calls : CallSound(call[c])
CalmInv == calm => OneAtATime /\ CallsSound /\ CalmSession

(* The call that steps is the one there is, or the first; or it is done.      *)
LEMMA OwnTurn ==
  ASSUME IInv, NEW c \in Calls, NEW r, InExchange \ {c} = {}, Step(c, r), CallSound(r)'
  PROVE  OneAtATime' /\ CallsSound'
<1>1. call'[c] = r /\ \A d \in Calls \ {c} : call'[d] = call[d]
  BY DEF Step, IInv, CallsTyped
<1>2. \A d \in Calls \ {c} : call[d].at \in {"idle", "sent", "denied"}
  BY DEF InExchange
<1>3. OneAtATime'
  BY <1>1, <1>2 DEF OneAtATime, InExchange
<1>4. \A d \in Calls \ {c} : CallSound(call[d])'
  BY <1>1, <1>2 DEF CallSound
<1>5. CallSound(call[c])'
  BY <1>1
<1>. QED  BY <1>3, <1>4, <1>5 DEF CallsSound

(* A call that is not at an exchange steps, and touches nothing shared.       *)
LEMMA Aside ==
  ASSUME IInv, NEW c \in Calls, NEW r, r.at \in {"idle", "sent", "denied"}, Step(c, r),
         calm, OneAtATime, CallsSound, CalmSession,
         UNCHANGED <<tokens, reset, store, flag, chosen, out, failed>>
  PROVE  OneAtATime' /\ CallsSound' /\ CalmSession'
<1>1. call'[c] = r /\ \A d \in Calls \ {c} : call'[d] = call[d]
  BY DEF Step, IInv, CallsTyped
<1>2. OneAtATime'
  BY <1>1 DEF OneAtATime, InExchange
<1>3. \A o : CallSound(o) => CallSound(o)'
  BY DEF CallSound, Live
<1>4. CallsSound'
  <2>. SUFFICES ASSUME NEW d \in Calls  PROVE CallSound(call[d])'
    BY DEF CallsSound
  <2>1. CASE d = c
    BY <2>1, <1>1 DEF CallSound
  <2>2. CASE d # c
    <3>1. PICK o : o = call[d]
      OBVIOUS
    <3>2. call'[d] = o /\ CallSound(o)'
      BY <3>1, <2>2, <1>1, <1>3 DEF CallsSound
    <3>. QED  BY <3>2
  <2>. QED  BY <2>1, <2>2
<1>5. CalmSession'
  BY DEF CalmSession, HeldInChosenYear, OneLivePair, ResetEndsSessions, SessionIsKnown, Live
<1>. QED  BY <1>2, <1>4, <1>5

(* What the pairs keep when some are revoked, and when one is added.          *)
LEMMA RevokedPairs ==
  ASSUME IInv, NEW s, Revoke(s)
  PROVE  /\ DOMAIN tokens' = DOMAIN tokens
         /\ \A t \in DOMAIN tokens :
              /\ tokens'[t].login = tokens[t].login
              /\ tokens'[t].fy = tokens[t].fy
              /\ tokens'[t].after = tokens[t].after
              /\ tokens'[t].live <=> tokens[t].live /\ t \notin s
<1>1. /\ DOMAIN tokens' = DOMAIN tokens
      /\ \A t \in DOMAIN tokens :
            tokens'[t] = IF t \in s THEN [tokens[t] EXCEPT !.live = FALSE] ELSE tokens[t]
  BY DEF Revoke
<1>. SUFFICES ASSUME NEW t \in DOMAIN tokens
              PROVE  /\ tokens'[t].login = tokens[t].login
                     /\ tokens'[t].fy = tokens[t].fy
                     /\ tokens'[t].after = tokens[t].after
                     /\ tokens'[t].live <=> tokens[t].live /\ t \notin s
  BY <1>1
<1>2. PICK p \in Pairs : p = tokens[t]
  BY PairOf DEF IInv
<1>3. CASE t \in s
  <2>1. tokens'[t] = [p EXCEPT !.live = FALSE]
    BY <1>1, <1>2, <1>3
  <2>. QED  BY <2>1, <1>2, <1>3 DEF Pairs
<1>4. CASE t \notin s
  BY <1>1, <1>4
<1>. QED  BY <1>3, <1>4

LEMMA AddedPair ==
  ASSUME IInv, NEW p \in Pairs, tokens' = Append(tokens, p)
  PROVE  /\ Len(tokens') = Len(tokens) + 1
         /\ DOMAIN tokens' = DOMAIN tokens \cup {Len(tokens) + 1}
         /\ Len(tokens) + 1 \notin DOMAIN tokens /\ Len(tokens) + 1 # 0
         /\ tokens'[Len(tokens) + 1] = p
         /\ \A t \in DOMAIN tokens : tokens'[t] = tokens[t]
BY DEF IInv, Issued

LEMMA CalmInductive ==
  ASSUME IInv, CalmInv, [Next]_vars
  PROVE  CalmInv'
<1>. SUFFICES ASSUME calm'  PROVE OneAtATime' /\ CallsSound' /\ CalmSession'
  BY DEF CalmInv
<1>0. calm
  BY DEF Next, vars, Send, Serve, Lose, Refresh, RefreshRead, RefreshRevoke, RefreshIssue, RefreshAnswer,
     RefreshRefused, RefreshFailed, Dropped, SignIn, SignInIssue, SignInAnswer, SignOut, SignOutServe, SignOutEnd, Expire,
     ResetPassword, Touch
<1>a. OneAtATime /\ CallsSound /\ CalmSession
  BY <1>0 DEF CalmInv
<1>b. \A c \in InExchange : InExchange \ {c} = {}
  BY <1>a DEF OneAtATime
<1>c. /\ store # 0 => store \in DOMAIN tokens /\ tokens[store].fy = chosen
      /\ 0 \notin DOMAIN tokens /\ store \in {0} \cup DOMAIN tokens
  BY <1>0, <1>a DEF CalmSession, HeldInChosenYear, IInv, ClientTyped, Issued
<1>d. \A s, t \in DOMAIN tokens :
        tokens[s].live /\ tokens[t].live /\ tokens[s].login = tokens[t].login => s = t
  BY <1>0, <1>a DEF CalmSession, OneLivePair
<1>e. reset => \A t \in DOMAIN tokens : tokens[t].live => tokens[t].after
  BY <1>0, <1>a DEF CalmSession, ResetEndsSessions
<1>f. ~ out /\ ~ failed /\ Live(store) => flag
  BY <1>0, <1>a DEF CalmSession, SessionIsKnown
<1>1. ASSUME NEW c \in Calls, Send(c)  PROVE OneAtATime' /\ CallsSound' /\ CalmSession'
  <2>1. PICK r : r = [at |-> "sent", access |-> store, again |-> FALSE]
    OBVIOUS
  <2>2. Step(c, r) /\ r.at \in {"idle", "sent", "denied"}
    BY <1>1, <2>1 DEF Send, Step
  <2>3. UNCHANGED <<tokens, reset, store, flag, chosen, out, failed>>
    BY <1>1 DEF Send
  <2>. QED  BY <1>0, <1>a, <2>2, <2>3, Aside
<1>2. ASSUME NEW c \in Calls, Serve(c)  PROVE OneAtATime' /\ CallsSound' /\ CalmSession'
  <2>1. PICK r : r \in {Idle, [at |-> "denied"]} /\ Step(c, r)
    BY <1>2 DEF Serve
  <2>2. r.at \in {"idle", "sent", "denied"}
    BY <2>1 DEF Idle
  <2>3. UNCHANGED <<tokens, reset, store, flag, chosen, out, failed>>
    BY <1>2 DEF Serve
  <2>. QED  BY <1>0, <1>a, <2>1, <2>2, <2>3, Aside
<1>3. ASSUME NEW c \in Calls, Lose(c)  PROVE OneAtATime' /\ CallsSound' /\ CalmSession'
  <2>1. Step(c, Idle) /\ Idle.at \in {"idle", "sent", "denied"}
    BY <1>3 DEF Lose, Ended, Idle
  <2>2. UNCHANGED <<tokens, reset, store, flag, chosen, out, failed>>
    BY <1>3 DEF Lose
  <2>. QED  BY <1>0, <1>a, <2>1, <2>2, Aside
<1>4. ASSUME NEW c \in Calls, Refresh(c)  PROVE OneAtATime' /\ CallsSound' /\ CalmSession'
  <2>1. PICK r : r = [at |-> "asked", token |-> store]
    OBVIOUS
  <2>2. Step(c, r) /\ InExchange \ {c} = {}
    BY <1>4, <2>1 DEF Refresh, Step, Touch
  <2>3. UNCHANGED <<tokens, reset, store, flag, chosen, out, failed>>
    BY <1>4 DEF Refresh
  <2>4. CallSound(r)'
    BY <2>1, <2>3 DEF CallSound
  <2>5. CalmSession'
    BY <1>0, <1>a, <2>3 DEF CalmSession, HeldInChosenYear, OneLivePair, ResetEndsSessions, SessionIsKnown,
       Live
  <2>. QED  BY <2>2, <2>4, <2>5, OwnTurn
<1>5. ASSUME NEW c \in Calls, RefreshRead(c)  PROVE OneAtATime' /\ CallsSound' /\ CalmSession'
  <2>1. call[c].at = "asked" /\ CallType(call[c]) /\ CallSound(call[c]) /\ c \in InExchange
    BY <1>5, <1>a, CallAt DEF RefreshRead, At, CallsSound, InExchange
  <2>2. PICK r : r = [call[c] EXCEPT !.at = IF Live(call[c].token) THEN "found" ELSE "refused"]
    OBVIOUS
  <2>3. Step(c, r) /\ UNCHANGED <<tokens, reset, store, flag, chosen, out, failed>>
    BY <1>5, <2>2 DEF RefreshRead, Step
  <2>4. call[c].token = store
    BY <2>1 DEF CallSound
  <2>5. r.token = store /\ r.at = IF Live(store) THEN "found" ELSE "refused"
    BY <2>1, <2>2, <2>4 DEF CallType
  <2>6. Live(store)' <=> Live(store)
    BY <2>3 DEF Live
  <2>8. CallSound(r)'
    BY <1>f, <2>3, <2>5, <2>6 DEF CallSound
  <2>9. CalmSession'
    BY <1>0, <1>a, <2>3 DEF CalmSession, HeldInChosenYear, OneLivePair, ResetEndsSessions, SessionIsKnown,
       Live
  <2>. QED  BY <1>b, <2>1, <2>3, <2>8, <2>9, OwnTurn
<1>6. ASSUME NEW c \in Calls, RefreshRevoke(c)  PROVE OneAtATime' /\ CallsSound' /\ CalmSession'
  <2>1. call[c].at = "found" /\ CallType(call[c]) /\ CallSound(call[c]) /\ c \in InExchange
    BY <1>6, <1>a, CallAt DEF RefreshRevoke, At, CallsSound, InExchange
  <2>2. call[c].token = store /\ Live(store) /\ (out \/ failed \/ flag)
    BY <2>1 DEF CallSound
  <2>3. PICK r : r = [call[c] EXCEPT !.at = "revoked"]
    OBVIOUS
  <2>4. Step(c, r) /\ UNCHANGED <<reset, store, flag, chosen, out, failed, calm>> /\ Revoke({store})
    BY <1>6, <2>2, <2>3 DEF RefreshRevoke, Step
  <2>5. r.token = store /\ r.at = "revoked"
    BY <2>1, <2>2, <2>3 DEF CallType
  <2>6. /\ DOMAIN tokens' = DOMAIN tokens
        /\ \A t \in DOMAIN tokens :
             /\ tokens'[t].login = tokens[t].login
             /\ tokens'[t].fy = tokens[t].fy
             /\ tokens'[t].after = tokens[t].after
             /\ tokens'[t].live <=> tokens[t].live /\ t # store
    BY <2>4, RevokedPairs
  <2>7. store \in DOMAIN tokens /\ tokens[store].live
    BY <2>2 DEF Live
  <2>8. \A t \in DOMAIN tokens' : tokens'[t].login = tokens'[store].login => ~ tokens'[t].live
    BY <1>d, <2>6, <2>7
  <2>9. reset' => tokens'[store].after
    BY <1>e, <2>4, <2>6, <2>7
  <2>10. CallSound(r)'
    BY <2>2, <2>4, <2>5, <2>8, <2>9 DEF CallSound
  <2>11. CalmSession'
    BY <1>c, <1>d, <1>e, <2>4, <2>6, <2>7
    DEF CalmSession, HeldInChosenYear, OneLivePair, ResetEndsSessions, SessionIsKnown, Live
  <2>. QED  BY <1>b, <2>1, <2>4, <2>10, <2>11, OwnTurn
<1>7. ASSUME NEW c \in Calls, RefreshIssue(c)  PROVE OneAtATime' /\ CallsSound' /\ CalmSession'
  <2>1. call[c].at = "revoked" /\ CallType(call[c]) /\ CallSound(call[c]) /\ c \in InExchange
    BY <1>7, <1>a, CallAt DEF RefreshIssue, At, CallsSound, InExchange
  <2>2. /\ call[c].token = store /\ store \in DOMAIN tokens /\ (out \/ failed \/ flag)
        /\ \A t \in DOMAIN tokens : tokens[t].login = tokens[store].login => ~ tokens[t].live
        /\ reset => tokens[store].after
    BY <2>1 DEF CallSound, CallType
  <2>3. PICK old \in Pairs : old = tokens[store]
    BY <2>2, PairOf DEF IInv
  <2>. DEFINE p == Pair(old.login, old.fy, old.after)
              n == Len(tokens) + 1
  <2>4. tokens' = Append(tokens, p) /\ UNCHANGED <<reset, store, flag, chosen, out, failed, calm>>
    BY <1>7, <2>2, <2>3 DEF RefreshIssue
  <2>5. /\ p \in Pairs /\ p.login = old.login /\ p.fy = old.fy /\ p.after = old.after /\ p.live
    BY DEF Pair, Pairs
  <2>. HIDE DEF p
  <2>6. /\ Len(tokens') = n /\ DOMAIN tokens' = DOMAIN tokens \cup {n} /\ n \notin DOMAIN tokens /\ n # 0
        /\ tokens'[n] = p /\ \A t \in DOMAIN tokens : tokens'[t] = tokens[t]
    BY <2>4, <2>5, AddedPair
  <2>7. PICK r : r = [at |-> "issued", new |-> Len(tokens')]
    OBVIOUS
  <2>8. Step(c, r)
    BY <1>7, <2>7 DEF RefreshIssue, Step
  <2>. HIDE DEF n
  <2>9. store # 0 /\ ~ tokens[store].live
    BY <1>c, <2>2
  <2>10. r.at = "issued" /\ r.new = n
    BY <2>6, <2>7
  <2>11. CallSound(r)'
    BY <2>2, <2>3, <2>4, <2>5, <2>6, <2>9, <2>10 DEF CallSound
  <2>12. OneLivePair'
    <3>. SUFFICES ASSUME NEW s \in DOMAIN tokens', NEW t \in DOMAIN tokens', tokens'[s].live, tokens'[t].live,
                         tokens'[s].login = tokens'[t].login
                  PROVE  s = t
      BY DEF OneLivePair
    <3>. QED  BY <1>d, <2>2, <2>3, <2>5, <2>6
  <2>13. HeldInChosenYear' /\ ResetEndsSessions' /\ SessionIsKnown'
    BY <1>c, <1>e, <2>2, <2>3, <2>4, <2>5, <2>6, <2>9
    DEF HeldInChosenYear, ResetEndsSessions, SessionIsKnown, Live
  <2>. QED  BY <1>b, <2>1, <2>8, <2>11, <2>12, <2>13, OwnTurn DEF CalmSession
<1>8. ASSUME NEW c \in Calls, RefreshAnswer(c)  PROVE OneAtATime' /\ CallsSound' /\ CalmSession'
  <2>1. call[c].at = "issued" /\ CallType(call[c]) /\ CallSound(call[c]) /\ c \in InExchange
    BY <1>8, <1>a, CallAt DEF RefreshAnswer, At, CallsSound, InExchange
  <2>2. /\ store # 0 /\ tokens[call[c].new].fy = tokens[store].fy /\ (out \/ failed \/ flag)
        /\ call[c].new \in DOMAIN tokens
    BY <2>1 DEF CallSound, CallType
  <2>3. PICK r : r = [at |-> "sent", access |-> call[c].new, again |-> TRUE]
    OBVIOUS
  <2>4. Step(c, r) /\ r.at = "sent" /\ store' = call[c].new /\ UNCHANGED <<tokens, reset, flag, chosen, out, failed, calm>>
    BY <1>8, <2>3 DEF RefreshAnswer, Step
  <2>5. CallSound(r)'
    BY <2>4 DEF CallSound
  <2>6. CalmSession'
    BY <1>a, <1>c, <2>2, <2>4
    DEF CalmSession, HeldInChosenYear, OneLivePair, ResetEndsSessions, SessionIsKnown, Live
  <2>. QED  BY <1>b, <2>1, <2>4, <2>5, <2>6, OwnTurn
<1>9. ASSUME NEW c \in Calls, RefreshRefused(c)  PROVE OneAtATime' /\ CallsSound' /\ CalmSession'
  <2>1. call[c].at = "refused" /\ CallSound(call[c]) /\ c \in InExchange
    BY <1>9, <1>a DEF RefreshRefused, At, CallsSound, InExchange
  <2>2. ~ Live(store)
    BY <2>1 DEF CallSound
  <2>3. /\ Step(c, Idle) /\ store' \in {0, store} /\ UNCHANGED <<tokens, reset, chosen, out, failed, calm>>
        /\ Idle.at = "idle"
    BY <1>9 DEF RefreshRefused, Dropped, Ended, Idle
  <2>4. CallSound(Idle)'
    BY <2>3 DEF CallSound
  <2>5. ~ Live(store)'
    BY <1>c, <2>2, <2>3 DEF Live
  <2>6. CalmSession'
    BY <1>a, <2>3, <2>5 DEF CalmSession, HeldInChosenYear, OneLivePair, ResetEndsSessions, SessionIsKnown
  <2>. QED  BY <1>b, <2>1, <2>3, <2>4, <2>6, OwnTurn
<1>19. ASSUME NEW c \in Calls, RefreshFailed(c)  PROVE OneAtATime' /\ CallsSound' /\ CalmSession'
  <2>1. c \in InExchange
    BY <1>19 DEF RefreshFailed, InExchange
  <2>2. /\ Step(c, Idle) /\ store' \in {0, store} /\ UNCHANGED <<tokens, reset, chosen, out, calm>>
        /\ Idle.at = "idle" /\ failed'
    BY <1>19 DEF RefreshFailed, Dropped, Ended, Idle
  <2>3. CallSound(Idle)'
    BY <2>2 DEF CallSound
  <2>4. CalmSession'
    BY <1>a, <2>2 DEF CalmSession, HeldInChosenYear, OneLivePair, ResetEndsSessions, SessionIsKnown
  <2>. QED  BY <1>b, <2>1, <2>2, <2>3, <2>4, OwnTurn
<1>10. ASSUME NEW c \in Calls, NEW fy \in FYs, SignIn(c, fy)
       PROVE  OneAtATime' /\ CallsSound' /\ CalmSession'
  <2>1. PICK r : r = [at |-> "signing", fy |-> fy]
    OBVIOUS
  <2>2. Step(c, r) /\ r.at = "signing" /\ InExchange \ {c} = {}
    BY <1>10, <2>1 DEF SignIn, Step, Touch
  <2>3. UNCHANGED <<tokens, reset, store, flag, chosen, out, failed>>
    BY <1>10 DEF SignIn
  <2>4. CallSound(r)'
    BY <2>2 DEF CallSound
  <2>5. CalmSession'
    BY <1>0, <1>a, <2>3 DEF CalmSession, HeldInChosenYear, OneLivePair, ResetEndsSessions, SessionIsKnown,
       Live
  <2>. QED  BY <2>2, <2>4, <2>5, OwnTurn
<1>11. ASSUME NEW c \in Calls, SignInIssue(c)  PROVE OneAtATime' /\ CallsSound' /\ CalmSession'
  <2>. DEFINE p == Pair(Len(tokens) + 1, call[c].fy, reset)
              n == Len(tokens) + 1
  <2>1. call[c].at = "signing" /\ CallType(call[c]) /\ c \in InExchange
    BY <1>11, CallAt DEF SignInIssue, At, InExchange
  <2>2. call[c].fy \in FYs /\ reset \in BOOLEAN /\ Len(tokens) \in Nat
    BY <2>1 DEF CallType, IInv, ClientTyped, Issued
  <2>3. p \in Pairs /\ p.login = n /\ p.after = reset /\ p.live
    BY <2>2 DEF Pair, Pairs
  <2>4. tokens' = Append(tokens, p) /\ UNCHANGED <<reset, store, flag, chosen, out, failed, calm>>
    BY <1>11 DEF SignInIssue
  <2>. HIDE DEF p
  <2>5. /\ Len(tokens') = n /\ DOMAIN tokens' = DOMAIN tokens \cup {n} /\ n \notin DOMAIN tokens /\ n # 0
        /\ tokens'[n] = p /\ \A t \in DOMAIN tokens : tokens'[t] = tokens[t]
    BY <2>3, <2>4, AddedPair
  <2>6. \A t \in DOMAIN tokens : tokens[t].login # n
    BY <2>5, PairOf DEF IInv
  <2>7. PICK r : r = [at |-> "signed", new |-> Len(tokens')]
    OBVIOUS
  <2>8. Step(c, r) /\ r.at = "signed"
    BY <1>11, <2>7 DEF SignInIssue, Step
  <2>. HIDE DEF n
  <2>9. CallSound(r)'
    BY <2>8 DEF CallSound
  <2>10. CalmSession'
    BY <1>a, <1>c, <1>d, <1>e, <2>3, <2>4, <2>5, <2>6
    DEF CalmSession, HeldInChosenYear, OneLivePair, ResetEndsSessions, SessionIsKnown, Live
  <2>. QED  BY <1>b, <2>1, <2>8, <2>9, <2>10, OwnTurn
<1>12. ASSUME NEW c \in Calls, SignInAnswer(c)  PROVE OneAtATime' /\ CallsSound' /\ CalmSession'
  <2>1. call[c].at = "signed" /\ CallType(call[c]) /\ c \in InExchange
    BY <1>12, CallAt DEF SignInAnswer, At, InExchange
  <2>2. call[c].new \in DOMAIN tokens
    BY <2>1 DEF CallType
  <2>3. /\ Step(c, Idle) /\ UNCHANGED <<tokens, reset, calm>> /\ Idle.at = "idle"
        /\ store' = call[c].new /\ flag' = TRUE /\ chosen' = tokens[call[c].new].fy
    BY <1>12 DEF SignInAnswer, Ended, Idle
  <2>4. CallSound(Idle)'
    BY <2>3 DEF CallSound
  <2>5. CalmSession'
    BY <1>a, <1>c, <2>2, <2>3 DEF CalmSession, HeldInChosenYear, OneLivePair, ResetEndsSessions,
       SessionIsKnown
  <2>. QED  BY <1>b, <2>1, <2>3, <2>4, <2>5, OwnTurn
<1>13. ASSUME NEW c \in Calls, SignOut(c)  PROVE OneAtATime' /\ CallsSound' /\ CalmSession'
  <2>1. PICK r : r = [at |-> "leaving", token |-> store]
    OBVIOUS
  <2>2. Step(c, r) /\ r.at = "leaving" /\ InExchange \ {c} = {}
    BY <1>13, <2>1 DEF SignOut, Step, Touch
  <2>3. out' = TRUE /\ UNCHANGED <<tokens, reset, store, flag, chosen>>
    BY <1>13 DEF SignOut
  <2>4. CallSound(r)'
    BY <2>2, <2>3 DEF CallSound
  <2>5. CalmSession'
    BY <1>0, <1>a, <2>3 DEF CalmSession, HeldInChosenYear, OneLivePair, ResetEndsSessions, SessionIsKnown
  <2>. QED  BY <2>2, <2>4, <2>5, OwnTurn
<1>14. ASSUME NEW c \in Calls, SignOutServe(c)  PROVE OneAtATime' /\ CallsSound' /\ CalmSession'
  <2>1. call[c].at = "leaving" /\ CallSound(call[c]) /\ c \in InExchange
    BY <1>14, <1>a DEF SignOutServe, At, CallsSound, InExchange
  <2>2. PICK r : r = [at |-> "left"]
    OBVIOUS
  <2>3. /\ Step(c, r) /\ r.at = "left" /\ out /\ Revoke({call[c].token})
        /\ UNCHANGED <<reset, store, flag, chosen, out, failed, calm>>
    BY <1>14, <2>1, <2>2 DEF SignOutServe, CallSound
  <2>4. CallSound(r)'
    BY <2>3 DEF CallSound
  <2>5. /\ DOMAIN tokens' = DOMAIN tokens
        /\ \A t \in DOMAIN tokens :
             /\ tokens'[t].login = tokens[t].login
             /\ tokens'[t].fy = tokens[t].fy
             /\ tokens'[t].after = tokens[t].after
             /\ tokens'[t].live => tokens[t].live
    BY <2>3, RevokedPairs
  <2>6. CalmSession'
    BY <1>c, <1>d, <1>e, <2>3, <2>5
    DEF CalmSession, HeldInChosenYear, OneLivePair, ResetEndsSessions, SessionIsKnown
  <2>. QED  BY <1>b, <2>1, <2>3, <2>4, <2>6, OwnTurn
<1>15. ASSUME NEW c \in Calls, SignOutEnd(c)  PROVE OneAtATime' /\ CallsSound' /\ CalmSession'
  <2>1. call[c].at \in {"leaving", "left"} /\ CallSound(call[c]) /\ c \in InExchange
    BY <1>15, <1>a DEF SignOutEnd, CallsSound, InExchange
  <2>2. /\ Step(c, Idle) /\ store' \in {0, store} /\ UNCHANGED <<tokens, reset, chosen, out, failed, calm>>
        /\ Idle.at = "idle" /\ out
    BY <1>15, <2>1 DEF SignOutEnd, Ended, Idle, CallSound
  <2>3. CallSound(Idle)'
    BY <2>2 DEF CallSound
  <2>4. CalmSession'
    BY <1>a, <2>2 DEF CalmSession, HeldInChosenYear, OneLivePair, ResetEndsSessions, SessionIsKnown
  <2>. QED  BY <1>b, <2>1, <2>2, <2>3, <2>4, OwnTurn
<1>16. ASSUME NEW t \in DOMAIN tokens, Expire(t)  PROVE OneAtATime' /\ CallsSound' /\ CalmSession'
  <2>1. PICK p \in Pairs : p = tokens[t]
    BY PairOf DEF IInv
  <2>2. PICK q : q = [p EXCEPT !.stale = TRUE]
    OBVIOUS
  <2>3. q.login = p.login /\ q.fy = p.fy /\ q.live = p.live /\ q.after = p.after
    BY <2>2 DEF Pairs
  <2>4. tokens' = [tokens EXCEPT ![t] = q] /\ UNCHANGED <<reset, store, flag, chosen, out, failed, calm, call>>
    BY <1>16, <2>1, <2>2 DEF Expire
  <2>5. /\ DOMAIN tokens' = DOMAIN tokens
        /\ \A s \in DOMAIN tokens :
             /\ tokens'[s].login = tokens[s].login
             /\ tokens'[s].fy = tokens[s].fy
             /\ tokens'[s].after = tokens[s].after
             /\ tokens'[s].live <=> tokens[s].live
    BY <2>1, <2>3, <2>4
  <2>6. OneAtATime'
    BY <1>a, <2>4 DEF OneAtATime, InExchange
  <2>7. CallsSound'
    <3>. SUFFICES ASSUME NEW c \in Calls  PROVE CallSound(call[c])'
      BY DEF CallsSound
    <3>1. CallSound(call[c]) /\ CallType(call[c]) /\ call'[c] = call[c]
      BY <1>a, <2>4, CallAt DEF CallsSound
    <3>2. call[c].at = "revoked" => store \in DOMAIN tokens
      BY <3>1 DEF CallSound, CallType
    <3>3. call[c].at = "issued" => call[c].new \in DOMAIN tokens /\ store \in DOMAIN tokens
      BY <1>c, <3>1 DEF CallSound, CallType
    <3>. QED  BY <2>4, <2>5, <3>1, <3>2, <3>3 DEF CallSound, Live
  <2>8. CalmSession'
    BY <1>0, <1>a, <1>c, <2>4, <2>5
    DEF CalmSession, HeldInChosenYear, OneLivePair, ResetEndsSessions, SessionIsKnown, Live
  <2>. QED  BY <2>6, <2>7, <2>8
<1>17. ASSUME ResetPassword  PROVE OneAtATime' /\ CallsSound' /\ CalmSession'
  <2>1. /\ InExchange = {} /\ out' = TRUE /\ Revoke(DOMAIN tokens) /\ UNCHANGED <<store, chosen, call>>
    BY <1>17 DEF ResetPassword
  <2>2. /\ DOMAIN tokens' = DOMAIN tokens
        /\ \A t \in DOMAIN tokens : tokens'[t].fy = tokens[t].fy /\ ~ tokens'[t].live
    BY <2>1, RevokedPairs
  <2>3. OneAtATime' /\ CallsSound'
    BY <2>1 DEF OneAtATime, CallsSound, CallSound, InExchange
  <2>4. CalmSession'
    BY <1>c, <2>1, <2>2 DEF CalmSession, HeldInChosenYear, OneLivePair, ResetEndsSessions, SessionIsKnown
  <2>. QED  BY <2>3, <2>4
<1>18. ASSUME UNCHANGED vars  PROVE OneAtATime' /\ CallsSound' /\ CalmSession'
  BY <1>18, <1>a DEF vars, OneAtATime, CallsSound, CallSound, InExchange, CalmSession, HeldInChosenYear,
     OneLivePair, ResetEndsSessions, SessionIsKnown, Live
<1>. QED
  BY <1>1, <1>2, <1>3, <1>4, <1>5, <1>6, <1>7, <1>8, <1>9, <1>10, <1>11, <1>12, <1>13,
     <1>14, <1>15, <1>16, <1>17, <1>18, <1>19 DEF Next

(* As long as exchanges, sign-ins, sign-outs and resets take turns, whatever is
   lost, and however many calls are sent meanwhile with old tokens: the client
   holds a pair of the year picked and knows of it, a sign-in has one live pair, and
   a reset of the password has ended those before it. *)
THEOREM CalmSessionHolds == Spec => []CalmSession
<1>1. Init => IInv /\ CalmInv
  <2>1. Init => CalmInv
    BY DEF Init, CalmInv, OneAtATime, CallsSound, CallSound, InExchange, Idle, CalmSession,
       HeldInChosenYear,
       OneLivePair, ResetEndsSessions, SessionIsKnown, Live
  <2>. QED  BY <2>1, Initially
<1>2. IInv /\ CalmInv /\ [Next]_vars => (IInv /\ CalmInv)'
  BY Inductive, CalmInductive
<1>3. CalmInv => CalmSession
  BY DEF CalmInv, CalmSession, HeldInChosenYear, OneLivePair, ResetEndsSessions, SessionIsKnown
<1>. QED  BY <1>1, <1>2, <1>3, PTL DEF Spec

-----------------------------------------------------------------------------
(* The page of payments: what a submission has posted, what it may still post, and what the page shows. *)
PageRow ==
  [party : Parties \cup {None}, loading : BOOLEAN, shown : Parties \cup {None}, open : Payments!Money,
   due : Nat, received : Nat, alloc : Payments!Money, advance : Nat, failed : BOOLEAN]
LoadRow == [party : Parties, pays : Payments!Money \cup {None}]

PageTyped ==
  /\ mode \in {"estimate", "invoice"} /\ total \in Payments!Money /\ total \in Totals /\ paid \in Payments!Money
  /\ acc \in [Parties -> Nat] /\ page \in PageRow
  /\ load \in [Loads -> LoadRow \cup {None}]
  /\ job # None => job \in PageJobs
  /\ sums \in [entered : Nat, posted : Nat]
  /\ odd \subseteq {"retried", "stale"} /\ fresh \in Parties \cup {None}

(* A submission has posted what its documents were open for, oldest first, and none
   of it is more than the server has left unless another user was paying. *)
PostsInOrder ==
  /\ Payments!NotOverpaid /\ Payments!OldestFirst
  /\ job # None =>
       /\ \A d \in job.todo : job.got[d] = 0
       /\ mode = "estimate" /\ job.left > 0 => \A d \in Payments!Docs \ job.todo : job.got[d] = job.open[d]
       /\ job.spare > 0 => job.left = 0
       /\ mode = "estimate" /\ "stale" \notin odd => \A d \in job.todo : job.open[d] <= Payments!Left(d)

(* What a submission may still post.                                          *)
Asked(j) == [d \in Payments!Docs |-> IF j.open[d] = 0 THEN 0 ELSE j.alloc[d]]
Pending(j) == j.left + (IF mode = "estimate" THEN 0 ELSE Payments!Sum(Asked(j), j.todo))

(* What is entered in the form, or may still be posted, was not posted before,
   unless a failed submission was sent again. *)
OwedOnce ==
  /\ mode = "estimate" => page.alloc = Payments!Zero
  /\ job # None => page.party = job.party \/ (page.alloc = Payments!Zero /\ page.advance = 0)
  /\ "retried" \notin odd =>
       /\ sums.posted <= sums.entered
       /\ job = None /\ ~ page.failed => sums.posted + Payments!Entered <= sums.entered
       /\ job # None => sums.posted + Pending(job) <= sums.entered

(* The figures of the page are those of the books.                            *)
ShownTrue ==
  /\ fresh # None => page.received = Payments!Received(fresh)
  /\ page.shown # None => page.due = Payments!Sum(total, Payments!DocsOf(page.shown))

PageInv == PageTyped /\ PostsInOrder /\ OwedOnce /\ ShownTrue

(* Documents are numbered from 1.                                            *)
LEMMA PageDocs ==
  /\ IsFiniteSet(Payments!Docs) /\ Payments!Docs \subseteq Nat /\ Payments!Zero \in Payments!Money
  /\ \A p : Payments!DocsOf(p) \subseteq Payments!Docs /\ IsFiniteSet(Payments!DocsOf(p))
<1>1. Payments!Docs = 1..Len(Owner) /\ Len(Owner) \in Nat
  BY PageAssumption DEF Payments!Docs
<1>2. IsFiniteSet(Payments!Docs)
  BY <1>1, FS_Interval
<1>3. \A p : Payments!DocsOf(p) \subseteq Payments!Docs
  BY DEF Payments!DocsOf
<1>4. \A p : IsFiniteSet(Payments!DocsOf(p))
  BY <1>2, <1>3, FS_Subset
<1>. QED  BY <1>1, <1>2, <1>3, <1>4 DEF Payments!Zero, Payments!Money

(* The sum of the page is that of the lemmas.                                 *)
LEMMA PagesSum == ASSUME NEW f, NEW S PROVE Payments!Sum(f, S) = SumFunctionOnSet(f, S)
BY DEF Payments!Sum, Payments!SumFunctionOnSet, Payments!FoldFunctionOnSet, Payments!MapThenFoldSet,
       SumFunctionOnSet, FoldFunctionOnSet, MapThenFoldSet

(* The sums of the page are sums of naturals.                                 *)
LEMMA PageSum ==
  ASSUME NEW f \in Payments!Money, NEW S \in SUBSET Payments!Docs
  PROVE  Payments!Sum(f, S) \in Nat /\ (f = Payments!Zero => Payments!Sum(f, S) = 0) /\ IsFiniteSet(S)
<1>1. IsFiniteSet(S)
  BY PageDocs, FS_Subset
<1>2. \A d \in S : f[d] \in Nat
  BY DEF Payments!Money
<1>3. f = Payments!Zero => \A d \in S : f[d] = 0
  BY DEF Payments!Zero
<1>4. Payments!Sum(f, S) = SumFunctionOnSet(f, S)
  BY PagesSum
<1>. QED  BY <1>1, <1>2, <1>3, <1>4, SumNat, SumZero

(* What is left of an amount that may be negative.                           *)
LEMMA PageMax == ASSUME NEW n \in Int PROVE Payments!Max({0, n}) = IF n >= 0 THEN n ELSE 0
<1>1. PICK m : m = (IF n >= 0 THEN n ELSE 0)
  OBVIOUS
<1>2. m \in {0, n} /\ \A y \in {0, n} : m >= y
  BY <1>1
<1>3. \A x \in {0, n} : (\A y \in {0, n} : x >= y) => x = m
  BY <1>1
<1>. QED  BY <1>1, <1>2, <1>3 DEF Payments!Max

(* The smaller of two amounts.                                               *)
LEMMA PageMin == ASSUME NEW a \in Int, NEW b \in Int PROVE Payments!Min({a, b}) = IF a <= b THEN a ELSE b
<1>1. PICK m : m = (IF a <= b THEN a ELSE b)
  OBVIOUS
<1>2. m \in {a, b} /\ \A y \in {a, b} : m <= y
  BY <1>1
<1>3. \A x \in {a, b} : (\A y \in {a, b} : x <= y) => x = m
  BY <1>1
<1>. QED  BY <1>1, <1>2, <1>3 DEF Payments!Min

(* The oldest of the documents.                                              *)
LEMMA PageLeast == ASSUME NEW S \in SUBSET Payments!Docs, S # {} PROVE Payments!Min(S) \in S /\ \A d \in S : Payments!Min(S) <= d
<1>1. S \subseteq Nat
  BY PageDocs
<1>2. PICK n \in S : \A m \in S : n <= m
  BY <1>1, NatLeast
<1>. QED  BY <1>2, Zenon DEF Payments!Min

(* Nothing asked is more than what was filled in.                            *)
LEMMA AskedLess ==
  ASSUME NEW f \in Payments!Money, NEW g \in Payments!Money, \A d \in Payments!Docs : f[d] <= g[d]
  PROVE  Payments!Sum(f, Payments!Docs) <= Payments!Sum(g, Payments!Docs)
<1>. DEFINE h == [d \in Payments!Docs |-> g[d] - f[d]]
<1>1. \A d \in Payments!Docs : f[d] \in Int /\ g[d] \in Int /\ h[d] = g[d] - f[d] /\ h[d] \in Nat
  BY DEF Payments!Money
<1>. HIDE DEF h
<1>2. SumFunctionOnSet(h, Payments!Docs) = SumFunctionOnSet(g, Payments!Docs) - SumFunctionOnSet(f, Payments!Docs)
  BY <1>1, PageDocs, SumMinus
<1>3. SumFunctionOnSet(h, Payments!Docs) \in Nat
  BY <1>1, PageDocs, SumNat
<1>4. Payments!Sum(f, Payments!Docs) \in Nat /\ Payments!Sum(g, Payments!Docs) \in Nat
  BY PageSum
<1>. QED  BY <1>2, <1>3, <1>4, PagesSum

(* One document more or less asked for.                                      *)
LEMMA AskedRest ==
  ASSUME NEW f \in Payments!Money, NEW S \in SUBSET Payments!Docs, NEW d \in S
  PROVE  Payments!Sum(f, S) = f[d] + Payments!Sum(f, S \ {d})
<1>1. \A x \in S : f[x] \in Int
  BY DEF Payments!Money
<1>. QED  BY <1>1, PageSum, SumRemove, PagesSum

(* What a submission asks for, document by document.                         *)
LEMMA AskedTyped == ASSUME NEW j \in PageJobs
                    PROVE  Asked(j) \in Payments!Money /\ (\A d \in Payments!Docs : Asked(j)[d] = IF j.open[d] = 0 THEN 0 ELSE j.alloc[d])
BY DEF Asked, PageJobs, Payments!Money

(* What is left of the sum is part of what may still be posted.              *)
LEMMA PendingNat ==
  ASSUME NEW j \in PageJobs, mode \in {"estimate", "invoice"} PROVE Pending(j) \in Nat /\ j.left <= Pending(j)
<1>1. Payments!Sum(Asked(j), j.todo) \in Nat
  BY AskedTyped, PageSum DEF PageJobs
<1>2. j.left \in Nat
  BY DEF PageJobs
<1>. QED  BY <1>1, <1>2 DEF Pending

(* Nothing is entered at first.                                              *)
LEMMA PageInit == Payments!Init => PageInv
<1>. SUFFICES ASSUME Payments!Init PROVE PageInv
  OBVIOUS
<1>1. PageTyped
  BY PageDocs, PageAssumption DEF Payments!Init, PageTyped, PageRow, Payments!Money
<1>2. PostsInOrder
  BY PageDocs, PageAssumption DEF Payments!Init, PostsInOrder, Payments!NotOverpaid, Payments!OldestFirst,
     Payments!Zero, Payments!Money
<1>3. OwedOnce
  <2>1. Payments!Entered = 0
    BY PageDocs, PageSum DEF Payments!Init, Payments!Entered
  <2>. QED  BY <2>1 DEF Payments!Init, OwedOnce
<1>4. ShownTrue
  BY DEF Payments!Init, ShownTrue
<1>. QED  BY <1>1, <1>2, <1>3, <1>4 DEF PageInv

(* What a step leaves alone.                                                 *)
LEMMA OrderStays ==
  ASSUME PostsInOrder, UNCHANGED <<mode, total, paid, job>>, odd \subseteq odd' PROVE PostsInOrder'
BY DEF PostsInOrder, Payments!NotOverpaid, Payments!OldestFirst, Payments!Left

(* What is owed is, as long as the form, the submission and the sums are.    *)
LEMMA OwedStays ==
  ASSUME OwedOnce, UNCHANGED <<mode, job, sums>>, odd \subseteq odd', page'.party = page.party,
         page'.alloc = page.alloc, page'.advance = page.advance, page'.failed = page.failed
  PROVE  OwedOnce'
<1>1. Payments!Entered' = Payments!Entered
  BY DEF Payments!Entered
<1>2. Pending(job)' = Pending(job)
  BY DEF Pending, Asked
<1>. QED  BY <1>1, <1>2 DEF OwedOnce

(* The figures shown stay true while neither they nor the books change.      *)
LEMMA ShownStays ==
  ASSUME ShownTrue, UNCHANGED <<mode, total, paid, acc>>, fresh' = fresh \/ fresh' = None,
         page'.received = page.received, page'.shown = page.shown, page'.due = page.due
  PROVE  ShownTrue'
<1>1. Payments!Received(fresh)' = IF fresh' = fresh THEN Payments!Received(fresh) ELSE Payments!Received(fresh)'
  BY DEF Payments!Received
<1>2. fresh' # None => fresh' = fresh /\ fresh # None
  OBVIOUS
<1>3. fresh' = fresh => Payments!Received(fresh)' = Payments!Received(fresh)
  BY DEF Payments!Received
<1>. QED  BY <1>2, <1>3 DEF ShownTrue

(* A party picked clears the form.                                           *)
LEMMA PageSelect ==
  ASSUME PageInv, NEW l \in Loads, NEW p \in Parties, Payments!SelectParty(l, p) PROVE PageInv'
<1>1. PICK new : new = [page EXCEPT !.party = p, !.loading = TRUE, !.alloc = Payments!Zero, !.advance = 0, !.failed = FALSE]
  OBVIOUS
<1>2. page \in PageRow /\ PostsInOrder /\ OwedOnce /\ ShownTrue
  BY DEF PageInv, PageTyped
<1>3. /\ new \in PageRow /\ new.alloc = Payments!Zero /\ new.advance = 0 /\ new.failed = FALSE
      /\ new.received = page.received /\ new.shown = page.shown /\ new.due = page.due
  BY <1>1, <1>2, PageDocs DEF PageRow
<1>4. page' = new /\ UNCHANGED <<mode, total, paid, acc, job, sums, odd, fresh>>
  BY <1>1 DEF Payments!SelectParty, Payments!server
<1>5. load' \in [Loads -> LoadRow \cup {None}]
  BY DEF Payments!SelectParty, Payments!Start, LoadRow, PageInv, PageTyped
<1>6. PageTyped'
  BY <1>3, <1>4, <1>5 DEF PageInv, PageTyped
<1>7. PostsInOrder' /\ ShownTrue'
  BY <1>2, <1>3, <1>4, OrderStays, ShownStays
<1>8. OwedOnce'
  <2>1. Payments!Entered' = 0
    BY <1>3, <1>4, PageDocs, PageSum DEF Payments!Entered
  <2>2. Pending(job)' = Pending(job)
    BY <1>4 DEF Pending, Asked
  <2>3. "retried" \notin odd => sums.posted + 0 <= sums.entered
    BY <1>2 DEF OwedOnce, PageInv, PageTyped
  <2>. QED  BY <1>2, <1>3, <1>4, <2>1, <2>2, <2>3 DEF OwedOnce
<1>. QED  BY <1>6, <1>7, <1>8 DEF PageInv

(* What was received is a sum of money.                                      *)
LEMMA PageReceived ==
  ASSUME PageInv, NEW p \in Parties PROVE Payments!Received(p) \in Nat
<1>1. Payments!Sum(paid, Payments!DocsOf(p)) \in Nat /\ acc[p] \in Nat
  BY PageDocs, PageSum DEF PageInv, PageTyped
<1>. QED  BY <1>1 DEF Payments!Received

(* The payments come as they are by then.                                    *)
LEMMA PageLoadPays ==
  ASSUME PageInv, NEW l \in Loads, Payments!LoadPays(l) PROVE PageInv'
<1>1. PICK fails \in BOOLEAN :
        /\ load' = [load EXCEPT ![l].pays = IF fails THEN Payments!Zero ELSE paid]
        /\ page' = [page EXCEPT !.received = IF fails THEN 0 ELSE Payments!Received(load[l].party)]
        /\ fresh' = IF fails THEN None ELSE load[l].party
  BY DEF Payments!LoadPays
<1>2. /\ page \in PageRow /\ PostsInOrder /\ OwedOnce /\ ShownTrue /\ load[l] \in LoadRow
      /\ UNCHANGED <<mode, total, paid, acc, job, sums, odd>>
  BY DEF PageInv, PageTyped, Payments!LoadPays, Payments!Free, Payments!server
<1>3. PICK p \in Parties : p = load[l].party
  BY <1>2 DEF LoadRow
<1>4. Payments!Received(p) \in Nat /\ Payments!Received(p)' = Payments!Received(p)
  BY <1>2, PageReceived DEF Payments!Received
<1>5. PICK n \in Nat : n = IF fails THEN 0 ELSE Payments!Received(p)
  BY <1>4
<1>6. page' = [page EXCEPT !.received = n]
  BY <1>1, <1>3, <1>5
<1>7. /\ page' \in PageRow /\ page'.party = page.party /\ page'.alloc = page.alloc
      /\ page'.advance = page.advance /\ page'.failed = page.failed
      /\ page'.shown = page.shown /\ page'.due = page.due /\ page'.received = n
  BY <1>2, <1>6 DEF PageRow
<1>8. load' \in [Loads -> LoadRow \cup {None}]
  <2>1. PICK m \in Payments!Money : m = IF fails THEN Payments!Zero ELSE paid
    BY PageDocs DEF PageInv, PageTyped
  <2>2. [load[l] EXCEPT !.pays = m] \in LoadRow
    BY <1>2 DEF LoadRow
  <2>. QED  BY <1>1, <2>1, <2>2 DEF PageInv, PageTyped
<1>9. PageTyped'
  BY <1>1, <1>2, <1>3, <1>7, <1>8 DEF PageInv, PageTyped
<1>10. PostsInOrder' /\ OwedOnce'
  BY <1>2, <1>7, OrderStays, OwedStays
<1>11. ShownTrue'
  <2>1. fresh' # None => fresh' = p /\ page'.received = Payments!Received(p)'
    BY <1>1, <1>3, <1>4, <1>5, <1>7
  <2>2. fresh' = p => Payments!Received(fresh)' = Payments!Received(p)'
    BY DEF Payments!Received
  <2>. QED  BY <1>2, <1>7, <2>1, <2>2 DEF ShownTrue
<1>. QED  BY <1>9, <1>10, <1>11 DEF PageInv

(* ... and the documents, with what is open on them.                         *)
LEMMA PageLoadDocs ==
  ASSUME PageInv, NEW l \in Loads, Payments!LoadDocs(l) PROVE PageInv'
<1>1. /\ page \in PageRow /\ PostsInOrder /\ OwedOnce /\ ShownTrue /\ load[l] \in LoadRow /\ load[l].pays # None
      /\ UNCHANGED <<mode, total, paid, acc, job, sums, odd, fresh>> /\ load' = [load EXCEPT ![l] = None]
      /\ total \in Payments!Money /\ paid \in Payments!Money
  BY DEF PageInv, PageTyped, Payments!LoadDocs, Payments!Free, Payments!server
<1>2. PICK p \in Parties : p = load[l].party
  BY <1>1 DEF LoadRow
<1>3. PICK net \in Payments!Money : net = IF mode = "estimate" THEN load[l].pays ELSE paid
  BY <1>1 DEF LoadRow
<1>4. Payments!Sum(total, Payments!DocsOf(p)) \in Nat
  BY <1>1, PageDocs, PageSum
<1>. DEFINE shownOpen == [d \in Payments!Docs |-> IF d \in Payments!DocsOf(p) THEN Payments!Max({0, total[d] - net[d]}) ELSE 0]
<1>5. shownOpen \in Payments!Money
  <2>1. ASSUME NEW d \in Payments!Docs PROVE Payments!Max({0, total[d] - net[d]}) \in Nat
    <3>1. total[d] - net[d] \in Int
      BY <1>1 DEF Payments!Money
    <3>. QED  BY <3>1, PageMax
  <2>. QED  BY <2>1 DEF Payments!Money
<1>6. \/ page' = [page EXCEPT !.loading = FALSE, !.shown = p, !.open = shownOpen, !.due = Payments!Sum(total, Payments!DocsOf(p))]
      \/ page' = [page EXCEPT !.loading = FALSE, !.shown = None, !.open = Payments!Zero, !.due = 0]
      \/ page' = [page EXCEPT !.loading = FALSE]
  BY <1>2, <1>3, Zenon DEF Payments!LoadDocs
<1>. HIDE DEF shownOpen
<1>7. /\ page' \in PageRow /\ page'.party = page.party /\ page'.alloc = page.alloc
      /\ page'.advance = page.advance /\ page'.failed = page.failed /\ page'.received = page.received
      /\ \/ page'.shown = p /\ page'.due = Payments!Sum(total, Payments!DocsOf(p))
         \/ page'.shown = None
         \/ page'.shown = page.shown /\ page'.due = page.due
  <2>1. CASE page' = [page EXCEPT !.loading = FALSE, !.shown = p, !.open = shownOpen, !.due = Payments!Sum(total, Payments!DocsOf(p))]
    BY <1>1, <1>4, <1>5, <2>1 DEF PageRow
  <2>2. CASE page' = [page EXCEPT !.loading = FALSE, !.shown = None, !.open = Payments!Zero, !.due = 0]
    BY <1>1, <2>2, PageDocs DEF PageRow
  <2>3. CASE page' = [page EXCEPT !.loading = FALSE]
    BY <1>1, <2>3 DEF PageRow
  <2>. QED  BY <1>6, <2>1, <2>2, <2>3
<1>8. PageTyped'
  BY <1>1, <1>7 DEF PageInv, PageTyped
<1>9. PostsInOrder' /\ OwedOnce'
  BY <1>1, <1>7, OrderStays, OwedStays
<1>10. ShownTrue'
  <2>1. Payments!Received(fresh)' = Payments!Received(fresh)
    BY <1>1 DEF Payments!Received
  <2>2. \A q : q = page'.shown => (Payments!Sum(total, Payments!DocsOf(page.shown))' = Payments!Sum(total, Payments!DocsOf(q)))
    BY <1>1
  <2>. QED  BY <1>1, <1>7, <2>1, <2>2 DEF ShownTrue
<1>. QED  BY <1>8, <1>9, <1>10 DEF PageInv

(* What is entered is counted once.                                          *)
LEMMA PageFill ==
  ASSUME PageInv, NEW alloc \in [Payments!Docs -> 0..MaxAmount], NEW advance \in 0..MaxAmount, Payments!Fill(alloc, advance)
  PROVE  PageInv'
<1>1. /\ page \in PageRow /\ PostsInOrder /\ OwedOnce /\ ShownTrue /\ sums \in [entered : Nat, posted : Nat]
      /\ alloc \in Payments!Money /\ advance \in Nat
  BY DEF PageInv, PageTyped, Payments!Money
<1>2. PICK n \in Nat : n = Payments!Sum(alloc, Payments!Docs)
  BY <1>1, PageSum
<1>3. PICK new : new = [page EXCEPT !.alloc = alloc, !.advance = advance, !.failed = FALSE]
  OBVIOUS
<1>4. /\ new \in PageRow /\ new.party = page.party /\ new.alloc = alloc /\ new.advance = advance
      /\ new.received = page.received /\ new.shown = page.shown /\ new.due = page.due
  BY <1>1, <1>3 DEF PageRow
<1>5. /\ page' = new /\ UNCHANGED <<mode, total, paid, acc, load, job, odd, fresh>> /\ job = None
      /\ sums' = [sums EXCEPT !.entered = @ + (n + advance)] /\ (mode = "estimate" => alloc = Payments!Zero)
  BY <1>2, <1>3 DEF Payments!Fill, Payments!server
<1>6. /\ sums'.posted = sums.posted /\ sums'.entered = sums.entered + n + advance
      /\ sums' \in [entered : Nat, posted : Nat] /\ sums.entered \in Nat /\ sums.posted \in Nat
  BY <1>1, <1>5
<1>7. PageTyped'
  BY <1>4, <1>5, <1>6 DEF PageInv, PageTyped
<1>8. PostsInOrder' /\ ShownTrue'
  BY <1>1, <1>4, <1>5, OrderStays, ShownStays
<1>9. OwedOnce'
  <2>1. Payments!Entered' = n + advance
    BY <1>2, <1>4, <1>5 DEF Payments!Entered
  <2>2. "retried" \notin odd => sums.posted <= sums.entered
    BY <1>1 DEF OwedOnce
  <2>. QED  BY <1>1, <1>4, <1>5, <1>6, <2>1, <2>2 DEF OwedOnce
<1>. QED  BY <1>7, <1>8, <1>9 DEF PageInv

(* A submission has all of its documents to do.                              *)
LEMMA PageSubmit == ASSUME PageInv, Payments!Submit PROVE PageInv'
<1>1. /\ page \in PageRow /\ PostsInOrder /\ OwedOnce /\ ShownTrue /\ sums.posted \in Nat /\ sums.entered \in Nat
      /\ mode \in {"estimate", "invoice"}
      /\ page.alloc \in Payments!Money /\ page.open \in Payments!Money /\ page.advance \in Nat /\ page.failed \in BOOLEAN
  BY DEF PageInv, PageTyped, PageRow
<1>2. PICK new : new = [party |-> page.party, open |-> page.open, todo |-> Payments!Docs,
                        alloc |-> page.alloc, left |-> page.advance, got |-> Payments!Zero, spare |-> 0]
  OBVIOUS
<1>3. /\ job' = new /\ UNCHANGED <<mode, total, paid, acc, page, load, sums, fresh>> /\ page.party # None
      /\ odd' = odd \cup (IF page.failed THEN {"retried"} ELSE {})
                    \cup (IF \E d \in Payments!Docs : page.open[d] > Payments!Left(d) THEN {"stale"} ELSE {})
      /\ job = None
  BY <1>2 DEF Payments!Submit, Payments!server
<1>4. /\ new \in PageJobs /\ new # None /\ new.party = page.party /\ new.open = page.open /\ new.todo = Payments!Docs
      /\ new.alloc = page.alloc /\ new.left = page.advance /\ new.got = Payments!Zero /\ new.spare = 0
  BY <1>1, <1>2, <1>3, PageDocs, PageAssumption DEF PageJobs, PageRow
<1>5. PageTyped'
  BY <1>3, <1>4 DEF PageInv, PageTyped
<1>6. PostsInOrder'
  <2>1. Payments!NotOverpaid'
    BY <1>1, <1>3 DEF PostsInOrder, Payments!NotOverpaid
  <2>2. \A d \in Payments!Docs : Payments!Zero[d] = 0
    BY DEF Payments!Zero
  <2>3. Payments!OldestFirst'
    BY <1>3, <1>4, <2>2 DEF Payments!OldestFirst
  <2>4. "stale" \notin odd' => \A d \in Payments!Docs : page.open[d] <= Payments!Left(d)'
    <3>1. \A d \in Payments!Docs : Payments!Left(d)' = Payments!Left(d) /\ Payments!Left(d) \in Int /\ page.open[d] \in Int
      <4>1. ASSUME NEW d \in Payments!Docs PROVE Payments!Left(d) \in Int
        <5>1. total[d] - paid[d] \in Int
          BY DEF PageInv, PageTyped, Payments!Money
        <5>. QED  BY <5>1, PageMax DEF Payments!Left
      <4>. QED  BY <1>1, <1>3, <4>1 DEF Payments!Left, Payments!Money
    <3>. QED  BY <1>3, <3>1
  <2>. QED  BY <1>3, <1>4, <2>1, <2>2, <2>3, <2>4 DEF PostsInOrder
<1>7. OwedOnce'
  <2>1. Pending(new) <= Payments!Entered
    <3>1. Asked(new) \in Payments!Money /\ \A d \in Payments!Docs : Asked(new)[d] <= page.alloc[d]
      BY <1>1, <1>4, AskedTyped DEF Payments!Money
    <3>2. Payments!Sum(Asked(new), Payments!Docs) <= Payments!Sum(page.alloc, Payments!Docs) /\ Payments!Sum(Asked(new), Payments!Docs) \in Nat
          /\ Payments!Sum(page.alloc, Payments!Docs) \in Nat
      BY <1>1, <3>1, AskedLess, PageSum
    <3>. QED  BY <1>1, <1>4, <3>2 DEF Pending, Payments!Entered
  <2>2. Pending(new) \in Nat /\ Payments!Entered \in Nat
    <3>1. Payments!Sum(page.alloc, Payments!Docs) \in Nat
      BY <1>1, PageSum
    <3>. QED  BY <1>1, <1>4, <3>1, PendingNat DEF Payments!Entered
  <2>3. Pending(job)' = Pending(new)
    BY <1>3 DEF Pending, Asked
  <2>4. "retried" \notin odd' => "retried" \notin odd /\ ~ page.failed
    BY <1>1, <1>3
  <2>5. "retried" \notin odd' => sums.posted + Pending(new) <= sums.entered /\ sums.posted <= sums.entered
    <3>1. "retried" \notin odd' => sums.posted + Payments!Entered <= sums.entered
      BY <1>1, <1>3, <2>4 DEF OwedOnce
    <3>. QED  BY <1>1, <2>1, <2>2, <3>1
  <2>6. (mode = "estimate" => page.alloc = Payments!Zero)'
    BY <1>1, <1>3 DEF OwedOnce
  <2>. QED  BY <1>3, <1>4, <2>3, <2>5, <2>6 DEF OwedOnce
<1>8. ShownTrue'
  BY <1>1, <1>3, ShownStays
<1>. QED  BY <1>5, <1>6, <1>7, <1>8 DEF PageInv

(* The next document is the first of those that have a share.                 *)
LEMMA NextShare ==
  ASSUME PageInv, job # None, Payments!More
  PROVE  /\ Payments!NextDoc \in job.todo /\ Payments!Share(Payments!NextDoc) \in Nat /\ Payments!Share(Payments!NextDoc) > 0 /\ job.open[Payments!NextDoc] > 0
         /\ \A d \in job.todo : d < Payments!NextDoc => Payments!Share(d) = 0
         /\ mode = "estimate" => /\ Payments!Share(Payments!NextDoc) <= job.left /\ Payments!Share(Payments!NextDoc) <= job.open[Payments!NextDoc]
                                 /\ Payments!Share(Payments!NextDoc) = job.left \/ Payments!Share(Payments!NextDoc) = job.open[Payments!NextDoc]
         /\ mode # "estimate" => Payments!Share(Payments!NextDoc) = Asked(job)[Payments!NextDoc]
<1>. DEFINE S == {d \in job.todo : Payments!Share(d) > 0}
<1>1. job \in PageJobs /\ job.todo \subseteq Payments!Docs
  BY DEF PageInv, PageTyped, PageJobs
<1>2. S \in SUBSET Payments!Docs /\ S # {}
  BY <1>1 DEF Payments!More
<1>3. Payments!NextDoc \in S /\ \A d \in S : Payments!NextDoc <= d
  BY <1>2, PageLeast DEF Payments!NextDoc
<1>4. ASSUME NEW d \in job.todo
      PROVE  /\ Payments!Share(d) \in Nat /\ (Payments!Share(d) > 0 => job.open[d] > 0)
             /\ Payments!Share(d) > 0 /\ mode = "estimate" => /\ Payments!Share(d) <= job.left /\ Payments!Share(d) <= job.open[d]
                                                              /\ Payments!Share(d) = job.left \/ Payments!Share(d) = job.open[d]
             /\ mode # "estimate" => Payments!Share(d) = Asked(job)[d]
  <2>1. job.left \in Nat /\ job.open[d] \in Nat /\ job.alloc[d] \in Nat /\ d \in Payments!Docs
    BY <1>1 DEF PageJobs, Payments!Money
  <2>2. PICK m : m = Payments!Min({job.left, job.open[d]})
    OBVIOUS
  <2>3. m = IF job.left <= job.open[d] THEN job.left ELSE job.open[d]
    BY <2>1, <2>2, PageMin
  <2>4. Payments!Share(d) = IF job.open[d] = 0 THEN 0 ELSE IF mode = "estimate" THEN m ELSE job.alloc[d]
    BY <2>2 DEF Payments!Share
  <2>5. Asked(job)[d] = IF job.open[d] = 0 THEN 0 ELSE job.alloc[d]
    BY <1>1, <2>1, AskedTyped
  <2>. QED  BY <2>1, <2>3, <2>4, <2>5
<1>5. Payments!NextDoc \in Nat /\ \A d \in job.todo : d \in Nat
  BY <1>1, <1>2, <1>3, PageDocs
<1>6. ASSUME NEW d \in job.todo, d < Payments!NextDoc PROVE Payments!Share(d) = 0
  <2>1. d \notin S
    BY <1>3, <1>5, <1>6
  <2>. QED  BY <1>4, <2>1
<1>. QED  BY <1>3, <1>4, <1>6

(* A submission that fails is over; the form says so if it is still its own.   *)
LEMMA PageFails ==
  ASSUME PageInv, job # None, Payments!Fails, UNCHANGED <<mode, total, load, odd>>,
         acc' \in [Parties -> Nat], paid' \in Payments!Money, Payments!NotOverpaid',
         sums' \in [entered : Nat, posted : Nat], sums'.entered = sums.entered,
         "retried" \notin odd => sums'.posted <= sums.entered,
         fresh' = None \/ UNCHANGED <<paid, acc, fresh>>
  PROVE  PageInv'
<1>1. /\ page \in PageRow /\ PostsInOrder /\ OwedOnce /\ ShownTrue
  BY DEF PageInv, PageTyped
<1>2. PICK b \in BOOLEAN : b = (page.party = job.party)
  OBVIOUS
<1>3. PICK new : new = [page EXCEPT !.failed = b]
  OBVIOUS
<1>4. job' = None /\ page' = new
  BY <1>2, <1>3 DEF Payments!Fails
<1>5. /\ new \in PageRow /\ new.party = page.party /\ new.alloc = page.alloc /\ new.advance = page.advance
      /\ new.received = page.received /\ new.shown = page.shown /\ new.due = page.due /\ new.failed = b
  BY <1>1, <1>3 DEF PageRow
<1>6. fresh' \in Parties \cup {None}
  BY DEF PageInv, PageTyped
<1>7. PageTyped'
  BY <1>4, <1>5, <1>6 DEF PageInv, PageTyped
<1>8. PostsInOrder'
  BY <1>4 DEF PostsInOrder, Payments!OldestFirst
<1>9. OwedOnce'
  <2>1. ~ b => Payments!Entered' = 0
    <3>1. ~ b => page'.alloc = Payments!Zero /\ page'.advance = 0
      BY <1>1, <1>2, <1>4, <1>5 DEF OwedOnce
    <3>2. Payments!Sum(Payments!Zero, Payments!Docs) = 0
      BY PageDocs, PageSum
    <3>. QED  BY <3>1, <3>2 DEF Payments!Entered
  <2>2. sums'.posted \in Nat /\ sums.entered \in Nat
    BY DEF PageInv, PageTyped
  <2>3. (mode = "estimate" => page.alloc = Payments!Zero)'
    BY <1>1, <1>4, <1>5 DEF OwedOnce
  <2>. QED  BY <1>4, <1>5, <2>1, <2>2, <2>3 DEF OwedOnce
<1>10. ShownTrue'
  <2>1. (page.shown # None => page.due = Payments!Sum(total, Payments!DocsOf(page.shown)))'
    BY <1>1, <1>4, <1>5 DEF ShownTrue
  <2>2. CASE fresh' = None
    BY <2>1, <2>2 DEF ShownTrue
  <2>3. CASE UNCHANGED <<paid, acc, fresh>>
    <3>1. Payments!Received(fresh)' = Payments!Received(fresh)
      BY <2>3 DEF Payments!Received
    <3>. QED  BY <1>1, <1>4, <1>5, <2>1, <2>3, <3>1 DEF ShownTrue
  <2>. QED  BY <2>2, <2>3
<1>. QED  BY <1>7, <1>8, <1>9, <1>10 DEF PageInv

(* The oldest document gets what it is open for, or what is left.            *)
LEMMA PagePostDoc == ASSUME PageInv, Payments!PostDoc PROVE PageInv'
<1>1. PICK d : d = Payments!NextDoc
  OBVIOUS
<1>2. PICK a : a = Payments!Share(d)
  OBVIOUS
<1>3. /\ job # None /\ Payments!More /\ UNCHANGED <<mode, total, acc, load, odd>>
      /\ \/ /\ Payments!Accepts(d, a)
            /\ paid' = [paid EXCEPT ![d] = @ + a]
            /\ fresh' = None
            /\ sums' = [sums EXCEPT !.posted = @ + a]
            /\ \/ /\ job' = [job EXCEPT !.todo = @ \ {d}, !.got[d] = a,
                               !.left = IF mode = "estimate" THEN @ - a ELSE @]
                  /\ UNCHANGED page
               \/ Payments!Fails
         \/ Payments!Fails /\ UNCHANGED <<paid, sums, fresh>>
  BY <1>1, <1>2 DEF Payments!PostDoc
<1>4. /\ d \in job.todo /\ a \in Nat /\ a > 0 /\ job.open[d] > 0
      /\ \A e \in job.todo : e < d => Payments!Share(e) = 0
      /\ mode = "estimate" => a <= job.left /\ a <= job.open[d] /\ (a = job.left \/ a = job.open[d])
      /\ mode # "estimate" => a = Asked(job)[d]
  BY <1>1, <1>2, <1>3, NextShare
<1>5. /\ page \in PageRow /\ PostsInOrder /\ OwedOnce /\ ShownTrue /\ job \in PageJobs
      /\ sums \in [entered : Nat, posted : Nat] /\ total \in Payments!Money /\ paid \in Payments!Money
      /\ mode \in {"estimate", "invoice"} /\ acc \in [Parties -> Nat]
  BY <1>3 DEF PageInv, PageTyped
<1>6. /\ job.todo \subseteq Payments!Docs /\ d \in Payments!Docs /\ job.left \in Nat /\ job.open \in Payments!Money /\ job.got \in Payments!Money
      /\ total[d] \in Nat /\ paid[d] \in Nat /\ job.open[d] \in Nat /\ job.alloc \in Payments!Money
  BY <1>4, <1>5 DEF PageJobs, Payments!Money
<1>7. a <= Pending(job) /\ Pending(job) \in Nat
  <2>1. mode # "estimate" => Payments!Sum(Asked(job), job.todo) = a + Payments!Sum(Asked(job), job.todo \ {d})
    BY <1>4, <1>5, <1>6, AskedTyped, AskedRest
  <2>2. Payments!Sum(Asked(job), job.todo \ {d}) \in Nat
    BY <1>5, <1>6, AskedTyped, PageSum
  <2>. QED  BY <1>4, <1>5, <1>6, <2>1, <2>2, PendingNat DEF Pending
<1>8. "retried" \notin odd => sums.posted + Pending(job) <= sums.entered
  BY <1>3, <1>5 DEF OwedOnce
<1>9. CASE Payments!Fails /\ UNCHANGED <<paid, sums, fresh>>
  <2>1. Payments!NotOverpaid'
    BY <1>3, <1>5, <1>9 DEF PostsInOrder, Payments!NotOverpaid
  <2>2. "retried" \notin odd => sums.posted <= sums.entered
    BY <1>5 DEF OwedOnce
  <2>. QED  BY <1>3, <1>5, <1>9, <2>1, <2>2, PageFails
<1>10. CASE /\ Payments!Accepts(d, a)
            /\ paid' = [paid EXCEPT ![d] = @ + a]
            /\ fresh' = None
            /\ sums' = [sums EXCEPT !.posted = @ + a]
  <2>1. /\ paid' \in Payments!Money /\ paid'[d] = paid[d] + a
        /\ \A e \in Payments!Docs : e # d => paid'[e] = paid[e]
    BY <1>4, <1>5, <1>6, <1>10 DEF Payments!Money
  <2>2. /\ sums' \in [entered : Nat, posted : Nat] /\ sums'.entered = sums.entered
        /\ sums'.posted = sums.posted + a /\ sums.posted \in Nat /\ sums.entered \in Nat
    BY <1>4, <1>5, <1>10
  <2>3. mode = "invoice" \/ "stale" \notin odd => paid[d] + a <= total[d]
    <3>1. CASE mode = "invoice"
      BY <1>4, <1>6, <1>10, <3>1 DEF Payments!Accepts
    <3>2. CASE mode = "estimate" /\ "stale" \notin odd
      <4>1. job.open[d] <= Payments!Left(d)
        BY <1>3, <1>4, <1>5, <3>2 DEF PostsInOrder
      <4>2. Payments!Left(d) = IF total[d] - paid[d] >= 0 THEN total[d] - paid[d] ELSE 0
        BY <1>6, PageMax DEF Payments!Left
      <4>. QED  BY <1>4, <1>6, <3>2, <4>1, <4>2
    <3>. QED  BY <1>5, <3>1, <3>2
  <2>4. Payments!NotOverpaid'
    BY <1>3, <1>5, <2>1, <2>3 DEF PostsInOrder, Payments!NotOverpaid
  <2>5. "retried" \notin odd => sums'.posted <= sums.entered
    BY <1>4, <1>7, <1>8, <2>2
  <2>6. CASE Payments!Fails
    BY <1>3, <1>5, <1>10, <2>1, <2>2, <2>4, <2>5, <2>6, PageFails
  <2>7. CASE /\ job' = [job EXCEPT !.todo = @ \ {d}, !.got[d] = a,
                          !.left = IF mode = "estimate" THEN @ - a ELSE @]
             /\ UNCHANGED page
    <3>1. PICK left \in Nat : left = IF mode = "estimate" THEN job.left - a ELSE job.left
      BY <1>4, <1>6
    <3>2. PICK got \in Payments!Money : got = [job.got EXCEPT ![d] = a]
      BY <1>4, <1>6 DEF Payments!Money
    <3>3. got[d] = a /\ \A e \in Payments!Docs : e # d => got[e] = job.got[e]
      BY <1>6, <3>2 DEF Payments!Money
    <3>4. PICK j1 : j1 = [job EXCEPT !.todo = job.todo \ {d}]
      OBVIOUS
    <3>5. PICK j2 : j2 = [j1 EXCEPT !.got = got]
      OBVIOUS
    <3>6. PICK new : new = [j2 EXCEPT !.left = left]
      OBVIOUS
    <3>7. job' = new
      BY <1>5, <2>7, <3>1, <3>2, <3>4, <3>5, <3>6 DEF PageJobs
    <3>8. /\ j1 \in PageJobs /\ j1.party = job.party /\ j1.open = job.open /\ j1.alloc = job.alloc
          /\ j1.spare = job.spare /\ j1.todo = job.todo \ {d}
      BY <1>5, <3>4 DEF PageJobs
    <3>9. /\ j2 \in PageJobs /\ j2.party = job.party /\ j2.open = job.open /\ j2.alloc = job.alloc
          /\ j2.spare = job.spare /\ j2.todo = job.todo \ {d} /\ j2.got = got
      BY <3>5, <3>8 DEF PageJobs
    <3>10. /\ new \in PageJobs /\ new.party = job.party /\ new.open = job.open /\ new.alloc = job.alloc
           /\ new.spare = job.spare /\ new.todo = job.todo \ {d} /\ new.got = got /\ new.left = left
      BY <3>6, <3>9 DEF PageJobs
    <3>11. new # None
      BY <3>10, PageAssumption
    <3>12. PageTyped'
      BY <1>3, <1>10, <2>1, <2>2, <2>7, <3>7, <3>10 DEF PageInv, PageTyped
    <3>13. /\ \A e \in job.todo : job.got[e] = 0
           /\ mode = "estimate" /\ job.left > 0 => \A e \in Payments!Docs \ job.todo : job.got[e] = job.open[e]
           /\ job.spare > 0 => job.left = 0
           /\ mode = "estimate" /\ "stale" \notin odd => \A e \in job.todo : job.open[e] <= Payments!Left(e)
           /\ mode = "estimate" => /\ \A e, f \in Payments!Docs : e < f /\ job.got[f] > 0 => job.got[e] = job.open[e]
                                   /\ job.spare > 0 => job.got = job.open
      BY <1>3, <1>5 DEF PostsInOrder, Payments!OldestFirst
    <3>14. ASSUME mode = "estimate"
           PROVE  /\ \A e, f \in Payments!Docs : e < f /\ got[f] > 0 => got[e] = job.open[e]
                  /\ job.spare = 0
                  /\ left > 0 => \A e \in Payments!Docs \ (job.todo \ {d}) : got[e] = job.open[e]
                  /\ "stale" \notin odd => \A e \in job.todo \ {d} : job.open[e] <= Payments!Left(e)'
      <4>1. job.left > 0 /\ job.spare \in Nat
        BY <1>4, <1>5, <1>6, <3>14 DEF PageJobs
      <4>2. job.spare = 0
        BY <3>13, <4>1
      <4>3. \A e \in Payments!Docs : e \in Nat
        BY PageDocs
      <4>4. \A e \in Payments!Docs : e < d => job.got[e] = job.open[e]
        <5>1. ASSUME NEW e \in job.todo, e < d PROVE job.open[e] = 0
          <6>1. Payments!Share(e) = 0 /\ job.open[e] \in Nat
            BY <1>4, <1>6, <5>1 DEF Payments!Money
          <6>2. PICK m : m = Payments!Min({job.left, job.open[e]})
            OBVIOUS
          <6>3. m = IF job.left <= job.open[e] THEN job.left ELSE job.open[e]
            BY <1>6, <6>1, <6>2, PageMin
          <6>4. Payments!Share(e) = IF job.open[e] = 0 THEN 0 ELSE m
            BY <3>14, <6>2 DEF Payments!Share
          <6>. QED  BY <1>6, <4>1, <6>1, <6>3, <6>4
        <5>2. \A e \in job.todo : e < d => job.got[e] = job.open[e]
          BY <3>13, <5>1
        <5>3. \A e \in Payments!Docs \ job.todo : job.got[e] = job.open[e]
          BY <3>13, <3>14, <4>1
        <5>. QED  BY <5>2, <5>3
      <4>5. ASSUME NEW e \in Payments!Docs, NEW f \in Payments!Docs, e < f, got[f] > 0 PROVE got[e] = job.open[e]
        <5>1. CASE f = d
          BY <3>3, <4>3, <4>4, <4>5, <5>1
        <5>2. CASE f # d /\ e # d
          BY <3>3, <3>13, <3>14, <4>5, <5>2
        <5>3. CASE f # d /\ e = d
          BY <1>4, <1>6, <3>3, <3>13, <3>14, <4>5, <5>3
        <5>. QED  BY <5>1, <5>2, <5>3
      <4>6. left > 0 => a = job.open[d]
        BY <1>4, <1>6, <3>1, <3>14
      <4>7. left > 0 => \A e \in Payments!Docs \ (job.todo \ {d}) : got[e] = job.open[e]
        BY <3>3, <3>13, <3>14, <4>1, <4>6
      <4>8. "stale" \notin odd => \A e \in job.todo \ {d} : job.open[e] <= Payments!Left(e)'
        <5>1. \A e \in job.todo \ {d} : Payments!Left(e)' = Payments!Left(e)
          BY <1>3, <1>6, <2>1 DEF Payments!Left
        <5>. QED  BY <3>13, <3>14, <5>1
      <4>. QED  BY <4>2, <4>5, <4>7, <4>8
    <3>15. PostsInOrder'
      <4>1. \A e \in job.todo \ {d} : got[e] = 0
        BY <1>6, <3>3, <3>13
      <4>2. Payments!OldestFirst'
        BY <1>3, <3>7, <3>10, <3>14 DEF Payments!OldestFirst
      <4>3. job.spare > 0 => left = 0
        <5>1. CASE mode = "estimate"
          BY <3>14, <5>1
        <5>2. CASE mode # "estimate"
          BY <3>1, <3>13, <5>2
        <5>. QED  BY <5>1, <5>2
      <4>. QED  BY <1>3, <2>4, <3>7, <3>10, <3>14, <4>1, <4>2, <4>3 DEF PostsInOrder
    <3>16. OwedOnce'
      <4>1. Pending(new) = Pending(job) - a
        <5>1. CASE mode = "estimate"
          BY <1>4, <1>6, <3>1, <3>10, <5>1 DEF Pending
        <5>2. CASE mode # "estimate"
          <6>1. Asked(new) = Asked(job)
            BY <3>10 DEF Asked
          <6>2. Payments!Sum(Asked(job), job.todo) = a + Payments!Sum(Asked(job), job.todo \ {d})
            BY <1>4, <1>5, <1>6, <5>2, AskedTyped, AskedRest
          <6>3. Payments!Sum(Asked(job), job.todo \ {d}) \in Nat
            BY <1>5, <1>6, AskedTyped, PageSum
          <6>. QED  BY <1>4, <1>6, <3>1, <3>10, <5>2, <6>1, <6>2, <6>3 DEF Pending
        <5>. QED  BY <5>1, <5>2
      <4>2. Pending(job)' = Pending(new)
        BY <1>3, <3>7 DEF Pending, Asked
      <4>3. "retried" \notin odd => sums'.posted + Pending(new) <= sums.entered
        BY <1>4, <1>7, <1>8, <2>2, <4>1
      <4>4. /\ mode = "estimate" => page.alloc = Payments!Zero
            /\ page.party = job.party \/ (page.alloc = Payments!Zero /\ page.advance = 0)
        BY <1>3, <1>5 DEF OwedOnce
      <4>. QED  BY <1>3, <2>2, <2>5, <2>7, <3>7, <3>10, <3>11, <4>2, <4>3, <4>4 DEF OwedOnce
    <3>17. ShownTrue'
      BY <1>3, <1>5, <1>10, <2>7 DEF ShownTrue
    <3>. QED  BY <3>12, <3>15, <3>16, <3>17 DEF PageInv
  <2>. QED  BY <1>3, <1>9, <1>10, <2>6, <2>7
<1>. QED  BY <1>3, <1>9, <1>10

(* When no document has a share and something is left, all are settled.       *)
LEMMA AllShared ==
  ASSUME PageInv, job # None, ~ Payments!More, job.left > 0, mode = "estimate"
  PROVE  job.got = job.open
<1>1. /\ job \in PageJobs /\ job.todo \subseteq Payments!Docs /\ job.left \in Nat /\ job.open \in Payments!Money /\ job.got \in Payments!Money
  BY DEF PageInv, PageTyped, PageJobs
<1>2. ASSUME NEW e \in job.todo PROVE job.got[e] = job.open[e]
  <2>1. job.open[e] \in Nat /\ ~ (Payments!Share(e) > 0) /\ job.got[e] = 0
    BY <1>1 DEF Payments!More, PageInv, PostsInOrder, Payments!Money
  <2>2. PICK m : m = Payments!Min({job.left, job.open[e]})
    OBVIOUS
  <2>3. m = IF job.left <= job.open[e] THEN job.left ELSE job.open[e]
    BY <1>1, <2>1, <2>2, PageMin
  <2>4. Payments!Share(e) = IF job.open[e] = 0 THEN 0 ELSE m
    BY <2>2 DEF Payments!Share
  <2>. QED  BY <1>1, <2>1, <2>3, <2>4
<1>3. \A e \in Payments!Docs \ job.todo : job.got[e] = job.open[e]
  BY DEF PageInv, PostsInOrder
<1>. QED  BY <1>1, <1>2, <1>3 DEF Payments!Money

(* What is left over is posted on account.                                   *)
LEMMA PagePostAdvance == ASSUME PageInv, Payments!PostAdvance PROVE PageInv'
<1>1. PICK a : a = job.left
  OBVIOUS
<1>2. /\ job # None /\ ~ Payments!More /\ a > 0 /\ UNCHANGED <<mode, total, paid, load, odd>>
      /\ \/ /\ acc' = [acc EXCEPT ![job.party] = @ + a]
            /\ fresh' = None
            /\ sums' = [sums EXCEPT !.posted = @ + a]
            /\ \/ /\ job' = [job EXCEPT !.left = 0, !.spare = a]
                  /\ UNCHANGED page
               \/ Payments!Fails
         \/ Payments!Fails /\ UNCHANGED <<acc, sums, fresh>>
  BY <1>1 DEF Payments!PostAdvance
<1>3. /\ page \in PageRow /\ PostsInOrder /\ OwedOnce /\ ShownTrue /\ job \in PageJobs /\ a \in Nat
      /\ sums \in [entered : Nat, posted : Nat] /\ acc \in [Parties -> Nat] /\ paid \in Payments!Money
      /\ job.party \in Parties /\ mode \in {"estimate", "invoice"} /\ job.todo \subseteq Payments!Docs
  BY <1>1, <1>2 DEF PageInv, PageTyped, PageJobs
<1>4. a <= Pending(job) /\ Pending(job) \in Nat
  BY <1>1, <1>3, PendingNat
<1>5. "retried" \notin odd => sums.posted + Pending(job) <= sums.entered
  BY <1>2, <1>3 DEF OwedOnce
<1>6. Payments!NotOverpaid'
  BY <1>2, <1>3 DEF PostsInOrder, Payments!NotOverpaid
<1>7. CASE Payments!Fails /\ UNCHANGED <<acc, sums, fresh>>
  <2>1. "retried" \notin odd => sums.posted <= sums.entered
    BY <1>3 DEF OwedOnce
  <2>. QED  BY <1>2, <1>3, <1>6, <1>7, <2>1, PageFails
<1>8. CASE /\ acc' = [acc EXCEPT ![job.party] = @ + a]
           /\ fresh' = None
           /\ sums' = [sums EXCEPT !.posted = @ + a]
  <2>1. acc' \in [Parties -> Nat]
    BY <1>3, <1>8
  <2>2. /\ sums' \in [entered : Nat, posted : Nat] /\ sums'.entered = sums.entered
        /\ sums'.posted = sums.posted + a /\ sums.posted \in Nat /\ sums.entered \in Nat
    BY <1>3, <1>8
  <2>3. "retried" \notin odd => sums'.posted <= sums.entered
    BY <1>3, <1>4, <1>5, <2>2
  <2>4. CASE Payments!Fails
    BY <1>2, <1>3, <1>6, <1>8, <2>1, <2>2, <2>3, <2>4, PageFails
  <2>5. CASE job' = [job EXCEPT !.left = 0, !.spare = a] /\ UNCHANGED page
    <3>1. PICK new : new = [job EXCEPT !.left = 0, !.spare = a]
      OBVIOUS
    <3>2. /\ job' = new /\ new \in PageJobs /\ new.party = job.party /\ new.open = job.open
          /\ new.alloc = job.alloc /\ new.todo = job.todo /\ new.got = job.got /\ new.left = 0 /\ new.spare = a
      BY <1>3, <2>5, <3>1 DEF PageJobs
    <3>3. new # None
      BY <3>2, PageAssumption
    <3>4. PageTyped'
      BY <1>2, <1>8, <2>1, <2>2, <2>5, <3>2 DEF PageInv, PageTyped
    <3>5. PostsInOrder'
      <4>1. mode = "estimate" => job.got = job.open
        BY <1>1, <1>2, AllShared
      <4>2. /\ \A e \in job.todo : job.got[e] = 0
            /\ mode = "estimate" /\ "stale" \notin odd => \A e \in job.todo : job.open[e] <= Payments!Left(e)
            /\ mode = "estimate" => \A e, f \in Payments!Docs : e < f /\ job.got[f] > 0 => job.got[e] = job.open[e]
        BY <1>2, <1>3 DEF PostsInOrder, Payments!OldestFirst
      <4>3. \A e : Payments!Left(e)' = Payments!Left(e)
        BY <1>2 DEF Payments!Left
      <4>4. Payments!OldestFirst'
        BY <1>2, <3>2, <4>1, <4>2 DEF Payments!OldestFirst
      <4>. QED  BY <1>2, <1>6, <3>2, <4>2, <4>3, <4>4 DEF PostsInOrder
    <3>6. OwedOnce'
      <4>1. Pending(new) = Pending(job) - a
        <5>1. Asked(new) = Asked(job)
          BY <3>2 DEF Asked
        <5>2. Payments!Sum(Asked(job), job.todo) \in Nat
          BY <1>3, AskedTyped, PageSum
        <5>. QED  BY <1>1, <1>3, <3>2, <5>1, <5>2 DEF Pending
      <4>2. Pending(job)' = Pending(new)
        BY <1>2, <3>2 DEF Pending, Asked
      <4>3. "retried" \notin odd => sums'.posted + Pending(new) <= sums.entered
        BY <1>3, <1>4, <1>5, <2>2, <4>1
      <4>4. /\ mode = "estimate" => page.alloc = Payments!Zero
            /\ page.party = job.party \/ (page.alloc = Payments!Zero /\ page.advance = 0)
        BY <1>2, <1>3 DEF OwedOnce
      <4>. QED  BY <1>2, <2>2, <2>3, <2>5, <3>2, <3>3, <4>2, <4>3, <4>4 DEF OwedOnce
    <3>7. ShownTrue'
      BY <1>2, <1>3, <1>8, <2>5 DEF ShownTrue
    <3>. QED  BY <3>4, <3>5, <3>6, <3>7 DEF PageInv
  <2>. QED  BY <1>2, <1>7, <1>8, <2>4, <2>5
<1>. QED  BY <1>2, <1>7, <1>8

(* A submission that is over clears the form.                                *)
LEMMA PageRecorded ==
  ASSUME PageInv, NEW l \in Loads, Payments!Recorded(l) PROVE PageInv'
<1>1. PICK new : new = [page EXCEPT !.loading = TRUE, !.alloc = Payments!Zero, !.advance = 0, !.failed = FALSE]
  OBVIOUS
<1>2. /\ page \in PageRow /\ PostsInOrder /\ OwedOnce /\ ShownTrue /\ job # None /\ job.party \in Parties
      /\ sums.posted \in Nat /\ sums.entered \in Nat
  BY DEF PageInv, PageTyped, Payments!Recorded, PageJobs
<1>3. /\ new \in PageRow /\ new.party = page.party /\ new.alloc = Payments!Zero /\ new.advance = 0 /\ new.failed = FALSE
      /\ new.received = page.received /\ new.shown = page.shown /\ new.due = page.due
  BY <1>1, <1>2, PageDocs DEF PageRow
<1>4. page' = new /\ job' = None /\ UNCHANGED <<mode, total, paid, acc, sums, odd, fresh>>
  BY <1>1 DEF Payments!Recorded, Payments!server
<1>5. load' \in [Loads -> LoadRow \cup {None}]
  BY <1>2 DEF Payments!Recorded, Payments!Start, LoadRow, PageInv, PageTyped
<1>6. PageTyped'
  BY <1>3, <1>4, <1>5 DEF PageInv, PageTyped
<1>7. PostsInOrder'
  BY <1>2, <1>4 DEF PostsInOrder, Payments!NotOverpaid, Payments!OldestFirst
<1>8. ShownTrue'
  BY <1>2, <1>3, <1>4, ShownStays
<1>9. OwedOnce'
  <2>1. Payments!Entered' = 0
    BY <1>3, <1>4, PageDocs, PageSum DEF Payments!Entered
  <2>2. "retried" \notin odd => sums.posted <= sums.entered
    BY <1>2 DEF OwedOnce
  <2>. QED  BY <1>2, <1>3, <1>4, <2>1, <2>2 DEF OwedOnce
<1>. QED  BY <1>6, <1>7, <1>8, <1>9 DEF PageInv

(* Another user's payment, or a deletion, leaves the order of a submission and makes
   its figures stale. *)
LEMMA OrderStale ==
  ASSUME PostsInOrder, UNCHANGED <<mode, total, job>>, Payments!NotOverpaid', odd \subseteq odd',
         job # None => "stale" \in odd' \/ paid' = paid
  PROVE  PostsInOrder'
BY DEF PostsInOrder, Payments!OldestFirst, Payments!Left

(* A submission that fails leaves the form, and may be sent again.           *)
LEMMA PageRemove ==
  ASSUME PageInv, NEW l \in Loads, NEW p \in Parties, NEW a \in Payments!Amounts, Payments!RemovePayment(l, p, a)
  PROVE  PageInv'
<1>1. /\ page \in PageRow /\ PostsInOrder /\ OwedOnce /\ ShownTrue /\ acc \in [Parties -> Nat] /\ a \in Nat
  BY DEF PageInv, PageTyped, Payments!Amounts
<1>2. /\ page' = [page EXCEPT !.loading = TRUE] /\ fresh' = None /\ UNCHANGED <<mode, total, paid, job, sums>>
      /\ odd' = (IF job = None THEN odd ELSE odd \cup {"stale"}) /\ a <= acc[p]
      /\ acc' = [acc EXCEPT ![p] = @ - a]
  BY DEF Payments!RemovePayment
<1>3. /\ page' \in PageRow /\ page'.party = page.party /\ page'.alloc = page.alloc
      /\ page'.advance = page.advance /\ page'.failed = page.failed
      /\ page'.received = page.received /\ page'.shown = page.shown /\ page'.due = page.due
  BY <1>1, <1>2 DEF PageRow
<1>4. acc' \in [Parties -> Nat]
  <2>1. acc[p] - a \in Nat
    BY <1>1, <1>2
  <2>. QED  BY <1>1, <1>2, <2>1
<1>5. load' \in [Loads -> LoadRow \cup {None}]
  BY DEF Payments!RemovePayment, Payments!Start, LoadRow, PageInv, PageTyped
<1>6. odd \subseteq odd' /\ odd' \subseteq {"retried", "stale"}
  BY <1>2 DEF PageInv, PageTyped
<1>7. PageTyped'
  BY <1>2, <1>3, <1>4, <1>5, <1>6 DEF PageInv, PageTyped
<1>8. Payments!NotOverpaid'
  BY <1>1, <1>2, <1>6 DEF PostsInOrder, Payments!NotOverpaid
<1>9. PostsInOrder' /\ OwedOnce'
  BY <1>1, <1>2, <1>3, <1>6, <1>8, OrderStale, OwedStays
<1>10. ShownTrue'
  BY <1>1, <1>2, <1>3 DEF ShownTrue
<1>. QED  BY <1>7, <1>9, <1>10 DEF PageInv

(* Somebody else pays a document: what the page shows of it is stale.        *)
LEMMA PageOthersPay ==
  ASSUME PageInv, NEW d \in Payments!Docs, NEW a \in Payments!Amounts, Payments!OthersPay(d, a) PROVE PageInv'
<1>1. /\ page \in PageRow /\ PostsInOrder /\ OwedOnce /\ ShownTrue /\ paid \in Payments!Money /\ total \in Payments!Money /\ a \in Nat
  BY DEF PageInv, PageTyped, Payments!Amounts
<1>2. /\ paid' = [paid EXCEPT ![d] = @ + a] /\ fresh' = None /\ UNCHANGED <<mode, total, acc, page, load, job, sums>>
      /\ odd' = (IF job = None THEN odd ELSE odd \cup {"stale"}) /\ a <= total[d] - paid[d]
  BY DEF Payments!OthersPay
<1>3. /\ paid' \in Payments!Money /\ paid'[d] = paid[d] + a /\ paid[d] \in Nat /\ total[d] \in Nat
      /\ \A e \in Payments!Docs : e # d => paid'[e] = paid[e]
  BY <1>1, <1>2 DEF Payments!Money
<1>4. odd \subseteq odd' /\ odd' \subseteq {"retried", "stale"}
  BY <1>2 DEF PageInv, PageTyped
<1>5. PageTyped'
  BY <1>2, <1>3, <1>4 DEF PageInv, PageTyped
<1>6. Payments!NotOverpaid'
  BY <1>1, <1>2, <1>3, <1>4 DEF PostsInOrder, Payments!NotOverpaid
<1>7. PostsInOrder' /\ OwedOnce'
  BY <1>1, <1>2, <1>4, <1>6, OrderStale, OwedStays
<1>8. ShownTrue'
  BY <1>1, <1>2 DEF ShownTrue
<1>. QED  BY <1>5, <1>7, <1>8 DEF PageInv

(* Every step keeps the page.                                                *)
LEMMA PageNext == PageInv /\ [Payments!Next]_(Payments!vars) => PageInv'
<1>1. ASSUME PageInv, UNCHANGED Payments!vars PROVE PageInv'
  <2>1. UNCHANGED <<mode, total, paid, acc, page, load, job, sums, odd, fresh>>
    BY <1>1 DEF Payments!vars
  <2>2. PageTyped'
    BY <1>1, <2>1 DEF PageInv, PageTyped
  <2>3. PostsInOrder' /\ OwedOnce' /\ ShownTrue'
    BY <1>1, <2>1, OrderStays, OwedStays, ShownStays DEF PageInv
  <2>. QED  BY <2>2, <2>3 DEF PageInv
<1>. QED  BY <1>1, PageSelect, PageRemove, PageLoadPays, PageLoadDocs, PageRecorded, PageFill, PageSubmit, PagePostDoc,
             PagePostAdvance, PageOthersPay DEF Payments!Next

(* ... and so nothing is overpaid or posted twice, and the balance due is that of the books.*)
LEMMA PageShows == PageInv => Payments!NotOverpaid /\ Payments!OldestFirst /\ Payments!RecordedOnce /\ Payments!BalanceDueInStep
<1>1. ASSUME PageInv PROVE Payments!RecordedOnce
  BY <1>1 DEF PageInv, OwedOnce, Payments!RecordedOnce
<1>2. ASSUME PageInv, mode = "estimate", page.shown # None, fresh = page.shown
      PROVE  Payments!AmountDue = Payments!Max({0, Payments!Sum(total, Payments!DocsOf(page.shown)) - Payments!Sum(paid, Payments!DocsOf(page.shown)) - acc[page.shown]})
  <2>1. PICK p : p = page.shown
    OBVIOUS
  <2>2. p \in Parties /\ page.due = Payments!Sum(total, Payments!DocsOf(p)) /\ page.received = Payments!Received(p)
    BY <1>2, <2>1 DEF PageInv, PageTyped, PageRow, ShownTrue
  <2>3. Payments!Received(p) = acc[p] + Payments!Sum(paid, Payments!DocsOf(p))
    BY <1>2 DEF Payments!Received
  <2>4. acc[p] \in Nat /\ Payments!Sum(paid, Payments!DocsOf(p)) \in Nat /\ Payments!Sum(total, Payments!DocsOf(p)) \in Nat
    BY <1>2, <2>2, PageDocs, PageSum DEF PageInv, PageTyped
  <2>5. page.due - page.received = Payments!Sum(total, Payments!DocsOf(p)) - Payments!Sum(paid, Payments!DocsOf(p)) - acc[p]
    BY <2>2, <2>3, <2>4
  <2>. QED  BY <2>1, <2>5 DEF Payments!AmountDue
<1>. QED  BY <1>1, <1>2 DEF PageInv, PostsInOrder, Payments!BalanceDueInStep


-----------------------------------------------------------------------------
(* The bank accounts: the rows a request holds, and what it has read of the others. *)

BankRow == [there : BOOLEAN, active : BOOLEAN, default : BOOLEAN]
BankRequest ==
  [at : {"idle", "read", "own", "looked", "cleared", "found"},
   op : {"none", "create", "setDefault", "update", "remove"},
   bank : Banks \cup {0}, was : BOOLEAN, sees : SUBSET Banks, pick : Banks \cup {None}]

BanksTyped ==
  /\ row \in [Banks -> BankRow] /\ mirror \in Banks \cup {None} /\ plain \in BOOLEAN
  /\ \A b \in Banks : row[b].active => row[b].there
  /\ req \in [Requests -> BankRequest]
  /\ \A r \in Requests :
       /\ req[r].at = "idle" <=> req[r].op = "none"
       /\ req[r].at # "idle" => req[r].bank \in Banks
       /\ req[r].at = "own" => req[r].op \in {"update", "remove"}

(* No two requests hold a row.                                               *)
RowsApart == \A q, r \in Requests : q # r => BankList!Holds(q) \cap BankList!Holds(r) = {}

Defaults == {b \in BankList!Active : row[b].default}
OneDefault == IF BankList!Active = {} THEN mirror = None ELSE Defaults = {mirror}

(* The rows a statement that starts now would see.                           *)
Sights(q) ==
  LET left == BankList!Active \ {q.bank}
  IN IF q.op = "remove" THEN {q.bank} \cup (IF q.was /\ left # {} THEN {BankList!Oldest(left)} ELSE {})
     ELSE (IF q.was THEN BankList!There ELSE {}) \cup (IF q.op = "update" THEN {q.bank} ELSE {})

(* What a request has read is still so: ...                                   *)
StillSo(q) ==
  /\ q.op = "setDefault" => q.was /\ row[q.bank].active
  /\ q.op = "update" => row[q.bank].there /\ (q.was => row[q.bank].active)
  /\ q.op = "create" => ~ row[q.bank].there /\ (q.was \/ BankList!Active # {})
  /\ q.op = "remove" => row[q.bank].there /\ (q.was <=> row[q.bank].default)
  /\ q.at \in {"looked", "cleared", "found"} => q.sees = Sights(q)

Leaving(r) == {b \in Banks : BankList!Written(r)[b].active /\ BankList!Written(r)[b].default}

(* ... while nothing but changes of the default meets another request.        *)
CalmBanks ==
  /\ \A b \in Banks : row[b].default => row[b].active
  /\ OneDefault
  /\ \A r \in Requests : req[r].at # "idle" => StillSo(req[r])
  /\ \A r \in Requests : req[r].at = "found" =>
       IF Leaving(r) = {} THEN req[r].pick = None ELSE req[r].pick \in Leaving(r)
  /\ \A q, r \in Requests : q # r /\ req[q].at # "idle" /\ req[r].at # "idle" =>
       req[r].op \in {"setDefault", "update"}

BanksInv == BanksTyped /\ RowsApart /\ (plain => CalmBanks)

(* The requests that start have written and read nothing.                    *)
LEMMA BanksInit == BankList!Init => BanksInv
BY DEF BankList!Init, BanksInv, BanksTyped, BankRow, BankRequest, BankList!Absent, BankList!Idle,
   RowsApart, BankList!Holds, CalmBanks,
       OneDefault, BankList!Active

(* A step of request r that writes no row.                                   *)
LEMMA BanksRead ==
  ASSUME BanksInv, NEW r \in Requests, NEW q \in BankRequest, req' = [req EXCEPT ![r] = q],
         UNCHANGED <<row, mirror>>, plain' \in BOOLEAN, plain' => plain,
         q.at = "idle" <=> q.op = "none", q.at # "idle" => q.bank \in Banks,
         q.at = "own" => q.op \in {"update", "remove"},
         BankList!FreeFor(r, BankList!Holds(r)'),
         plain' /\ q.at # "idle" => StillSo(q),
         plain' /\ q.at = "found" =>
           IF Leaving(r)' = {} THEN q.pick = None ELSE q.pick \in Leaving(r)',
         plain' /\ q.at # "idle" => \A s \in Requests \ {r} : req[s].at # "idle" =>
            req[s].op \in {"setDefault", "update"} /\ q.op \in {"setDefault", "update"}
  PROVE  BanksInv'
<1>1. /\ req'[r] = q /\ \A s \in Requests \ {r} : req'[s] = req[s]
      /\ req' \in [Requests -> BankRequest]
  BY DEF BanksInv, BanksTyped
<1>2. BanksTyped'
  BY <1>1 DEF BanksInv, BanksTyped
<1>3. \A s \in Requests \ {r} : BankList!Holds(s)' = BankList!Holds(s)
  BY <1>1 DEF BankList!Holds
<1>4. RowsApart'
  BY <1>3 DEF RowsApart, BanksInv, BankList!FreeFor
<1>5. ASSUME plain' PROVE CalmBanks'
  <2>1. CalmBanks
    BY <1>5 DEF BanksInv
  <2>2. /\ (\A b \in Banks : row[b].default => row[b].active)'
        /\ OneDefault'
    BY <2>1 DEF CalmBanks, OneDefault, BankList!Active, Defaults
  <2>3. \A p \in BankRequest : StillSo(p) => StillSo(p)'
    BY DEF StillSo, BankList!Active, Sights, BankList!There
  <2>4. \A s \in Requests : req'[s].at # "idle" => StillSo(req'[s])
    BY <1>1, <1>5, <2>1 DEF CalmBanks
  <2>5. \A s \in Requests : req'[s] \in BankRequest
    BY <1>1
  <2>6. (\A s \in Requests : req[s].at # "idle" => StillSo(req[s]))'
    BY <2>3, <2>4, <2>5
  <2>7. ASSUME NEW s \in Requests \ {r} PROVE Leaving(s)' = Leaving(s)
    <3>1. req'[s] = req[s] /\ row' = row
      BY <1>1
    <3>2. BankList!Written(s)' = BankList!Written(s)
      BY <3>1, Zenon DEF BankList!Written
    <3>. QED  BY <3>2, Zenon DEF Leaving
  <2>8. (\A s \in Requests : req[s].at = "found" =>
           IF Leaving(s) = {} THEN req[s].pick = None ELSE req[s].pick \in Leaving(s))'
    BY <1>1, <1>5, <2>1, <2>7 DEF CalmBanks
  <2>9. (\A p, s \in Requests : p # s /\ req[p].at # "idle" /\ req[s].at # "idle" =>
           req[s].op \in {"setDefault", "update"})'
    BY <1>1, <1>5, <2>1 DEF CalmBanks
  <2>. QED  BY <2>2, <2>6, <2>8, <2>9 DEF CalmBanks
<1>. QED  BY <1>2, <1>4, <1>5 DEF BanksInv

(* The oldest of some accounts is one of them.                               *)
LEMMA OldestIn == ASSUME NEW S \in SUBSET Banks, S # {} PROVE BankList!Oldest(S) \in S
<1>1. S \subseteq Nat
  BY BanksAssumption
<1>2. PICK n \in S : \A m \in S : n <= m
  BY <1>1, NatLeast
<1>. QED  BY <1>2, Zenon DEF BankList!Oldest

(* A statement sees rows there are.                                          *)
LEMMA SightsIn == ASSUME NEW q \in BankRequest, q.op \in {"none", "create", "setDefault"} \/ q.bank \in Banks
                  PROVE  Sights(q) \subseteq Banks
<1>1. BankList!There \subseteq Banks /\ BankList!Active \ {q.bank} \in SUBSET Banks
  BY DEF BankList!There, BankList!Active
<1>2. BankList!Active \ {q.bank} # {} => BankList!Oldest(BankList!Active \ {q.bank}) \in Banks
  BY <1>1, OldestIn
<1>. QED  BY <1>1, <1>2, Zenon DEF Sights, BankRequest

(* A request that meets another is a change of the default, or ends the calm.*)
LEMMA BanksStart ==
  ASSUME BanksInv, NEW r \in Requests, NEW op \in {"create", "setDefault", "update", "remove"},
         NEW b \in Banks, NEW asks \in BOOLEAN, BankList!Start(r, op, b, asks)
  PROVE  BanksInv'
<1>. DEFINE was == CASE op = "create" -> asks \/ BankList!Active = {}
                     [] op = "update" -> asks
                     [] op = "setDefault" -> TRUE
                     [] op = "remove" -> row[b].default
<1>1. was \in BOOLEAN
  BY DEF BanksInv, BanksTyped, BankRow
<1>. DEFINE q == [BankList!Idle EXCEPT !.at = "read", !.op = op, !.bank = b, !.was = was]
<1>2. req' = [req EXCEPT ![r] = q]
  BY Zenon DEF BankList!Start, BankList!Step
<1>. HIDE DEF was
<1>3. /\ q \in BankRequest /\ q.at = "read" /\ q.op = op /\ q.bank = b /\ q.was = was
  BY <1>1 DEF BankRequest, BankList!Idle
<1>. USE DEF was
<1>. HIDE DEF q
<1>4. plain' => plain
  BY DEF BankList!Start
<1>5. plain' \in BOOLEAN
  BY DEF BankList!Start
<1>6. req'[r] = q
  BY <1>2 DEF BanksInv, BanksTyped
<1>7. BankList!FreeFor(r, BankList!Holds(r)')
  BY <1>3, <1>6 DEF BankList!FreeFor, BankList!Holds
<1>8. ASSUME plain' PROVE StillSo(q)
  BY <1>3, <1>8 DEF StillSo, BankList!Start, BanksInv, BanksTyped, BankRow
<1>9. ASSUME plain', NEW s \in Requests \ {r}, req[s].at # "idle"
      PROVE  req[s].op \in {"setDefault", "update"} /\ op \in {"setDefault", "update"}
  BY <1>9 DEF BankList!Start, BanksInv, BanksTyped
<1>10. UNCHANGED <<row, mirror>>
  BY DEF BankList!Start
<1>. HIDE DEF was
<1>. QED  BY <1>2, <1>3, <1>4, <1>5, <1>7, <1>8, <1>9, <1>10, BanksRead

(* A row is written by one request at a time.                                *)
LEMMA BanksWriteOwn ==
  ASSUME BanksInv, NEW r \in Requests, BankList!WriteOwn(r) PROVE BanksInv'
<1>. DEFINE q == [req[r] EXCEPT !.at = "own"]
<1>1. req' = [req EXCEPT ![r] = q] /\ UNCHANGED <<row, mirror, plain>>
  BY DEF BankList!WriteOwn, BankList!Step
<1>2. /\ q \in BankRequest /\ q.at = "own" /\ q.op = req[r].op /\ q.bank = req[r].bank
      /\ q.was = req[r].was /\ q.op \in {"update", "remove"} /\ q.bank \in Banks
  BY DEF BankList!WriteOwn, BanksInv, BanksTyped, BankRequest
<1>3. req'[r] = q
  BY <1>1 DEF BanksInv, BanksTyped
<1>4. BankList!FreeFor(r, BankList!Holds(r)')
  BY <1>2, <1>3 DEF BankList!WriteOwn, BankList!FreeFor, BankList!Holds
<1>5. plain => StillSo(q)
  BY <1>2 DEF BankList!WriteOwn, BanksInv, CalmBanks, StillSo
<1>6. plain => \A s \in Requests \ {r} : req[s].at # "idle" =>
                 req[s].op \in {"setDefault", "update"} /\ q.op \in {"setDefault", "update"}
  BY <1>2 DEF BankList!WriteOwn, BanksInv, CalmBanks
<1>7. plain' \in BOOLEAN
  BY <1>1 DEF BanksInv, BanksTyped
<1>. HIDE DEF q
<1>. QED  BY <1>1, <1>2, <1>4, <1>5, <1>6, <1>7, BanksRead

(* What a statement sees is what it would see now.                           *)
LEMMA BanksLook ==
  ASSUME BanksInv, NEW r \in Requests, BankList!Look(r) PROVE BanksInv'
<1>. DEFINE q == [req[r] EXCEPT !.at = "looked", !.sees = Sights(req[r])]
<1>1. req' = [req EXCEPT ![r] = q] /\ UNCHANGED <<row, mirror, plain>>
  BY Zenon DEF BankList!Look, BankList!Step, Sights
<1>2. req[r] \in BankRequest /\ req[r].at # "idle" /\ req[r].bank \in Banks
  BY DEF BankList!Look, BanksInv, BanksTyped
<1>3. Sights(req[r]) \in SUBSET Banks
  BY <1>2, SightsIn
<1>4. /\ q \in BankRequest /\ q.at = "looked" /\ q.op = req[r].op /\ q.bank = req[r].bank
      /\ q.was = req[r].was /\ q.sees = Sights(req[r]) /\ q.op # "none"
  BY <1>2, <1>3 DEF BankList!Look, BankRequest, BanksInv, BanksTyped
<1>5. req'[r] = q
  BY <1>1 DEF BanksInv, BanksTyped
<1>6. BankList!Holds(r)' \subseteq BankList!Holds(r)
  BY <1>4, <1>5 DEF BankList!Look, BankList!Holds
<1>7. BankList!FreeFor(r, BankList!Holds(r)')
  BY <1>6 DEF BankList!FreeFor, BanksInv, RowsApart
<1>8. Sights(q) = Sights(req[r])
  BY <1>4 DEF Sights
<1>9. plain => StillSo(q)
  BY <1>2, <1>4, <1>8 DEF BanksInv, CalmBanks, StillSo
<1>10. plain => \A s \in Requests \ {r} : req[s].at # "idle" =>
                 req[s].op \in {"setDefault", "update"} /\ q.op \in {"setDefault", "update"}
  BY <1>2, <1>4 DEF BanksInv, CalmBanks
<1>11. plain' \in BOOLEAN
  BY <1>1 DEF BanksInv, BanksTyped
<1>. HIDE DEF q
<1>. QED  BY <1>1, <1>2, <1>4, <1>7, <1>9, <1>10, <1>11, BanksRead

(* ... and what it clears nobody else holds.                                 *)
LEMMA BanksClear ==
  ASSUME BanksInv, NEW r \in Requests, BankList!Clear(r) PROVE BanksInv'
<1>. DEFINE q == [req[r] EXCEPT !.at = "cleared"]
<1>1. req' = [req EXCEPT ![r] = q] /\ UNCHANGED <<row, mirror, plain>>
  BY DEF BankList!Clear, BankList!Step
<1>2. req[r] \in BankRequest /\ req[r].at = "looked" /\ req[r].bank \in Banks
  BY DEF BankList!Clear, BanksInv, BanksTyped
<1>4. /\ q \in BankRequest /\ q.at = "cleared" /\ q.op = req[r].op /\ q.bank = req[r].bank
      /\ q.was = req[r].was /\ q.sees = req[r].sees /\ q.op # "none"
  BY <1>2 DEF BankRequest, BanksInv, BanksTyped
<1>5. req'[r] = q
  BY <1>1 DEF BanksInv, BanksTyped
<1>7. BankList!FreeFor(r, BankList!Holds(r)')
  BY <1>4, <1>5 DEF BankList!FreeFor, BankList!Holds, BankList!Clear
<1>8. Sights(q) = Sights(req[r])
  BY <1>4 DEF Sights
<1>9. plain => StillSo(q)
  BY <1>2, <1>4, <1>8 DEF BanksInv, CalmBanks, StillSo
<1>10. plain => \A s \in Requests \ {r} : req[s].at # "idle" =>
                 req[s].op \in {"setDefault", "update"} /\ q.op \in {"setDefault", "update"}
  BY <1>2, <1>4 DEF BanksInv, CalmBanks
<1>11. plain' \in BOOLEAN
  BY <1>1 DEF BanksInv, BanksTyped
<1>. HIDE DEF q
<1>. QED  BY <1>1, <1>2, <1>4, <1>7, <1>9, <1>10, <1>11, BanksRead

(* The default found is one the request leaves.                              *)
LEMMA BanksFind ==
  ASSUME BanksInv, NEW r \in Requests, BankList!Find(r) PROVE BanksInv'
<1>0. PICK pick \in (IF Leaving(r) = {} THEN {None} ELSE Leaving(r)) :
        req' = [req EXCEPT ![r] = [req[r] EXCEPT !.at = "found", !.pick = pick]]
  BY Zenon DEF BankList!Find, BankList!Step, Leaving
<1>. DEFINE q == [req[r] EXCEPT !.at = "found", !.pick = pick]
<1>1. req' = [req EXCEPT ![r] = q] /\ UNCHANGED <<row, mirror, plain>>
  BY <1>0 DEF BankList!Find
<1>2. req[r] \in BankRequest /\ req[r].at = "cleared" /\ req[r].bank \in Banks
  BY DEF BankList!Find, BanksInv, BanksTyped
<1>3. pick \in Banks \cup {None}
  BY <1>0 DEF Leaving
<1>4. /\ q \in BankRequest /\ q.at = "found" /\ q.op = req[r].op /\ q.bank = req[r].bank
      /\ q.was = req[r].was /\ q.sees = req[r].sees /\ q.op # "none" /\ q.pick = pick
  BY <1>2, <1>3 DEF BankRequest, BanksInv, BanksTyped
<1>5. req'[r] = q
  BY <1>1 DEF BanksInv, BanksTyped
<1>6. BankList!Holds(r)' = BankList!Holds(r)
  BY <1>2, <1>4, <1>5 DEF BankList!Holds
<1>7. BankList!FreeFor(r, BankList!Holds(r)')
  BY <1>6 DEF BankList!FreeFor, BanksInv, RowsApart
<1>8. Sights(q) = Sights(req[r])
  BY <1>4 DEF Sights
<1>9. plain => StillSo(q)
  BY <1>2, <1>4, <1>8 DEF BanksInv, CalmBanks, StillSo
<1>10. plain => \A s \in Requests \ {r} : req[s].at # "idle" =>
                 req[s].op \in {"setDefault", "update"} /\ q.op \in {"setDefault", "update"}
  BY <1>2, <1>4 DEF BanksInv, CalmBanks
<1>11. plain' \in BOOLEAN
  BY <1>1 DEF BanksInv, BanksTyped
<1>12. Leaving(r)' = Leaving(r)
  <2>1. BankList!Written(r)' = BankList!Written(r)
    BY <1>1, <1>4, <1>5, Zenon DEF BankList!Written
  <2>. QED  BY <2>1, Zenon DEF Leaving
<1>13. IF Leaving(r)' = {} THEN q.pick = None ELSE q.pick \in Leaving(r)'
  BY <1>0, <1>4, <1>12
<1>. HIDE DEF q
<1>. QED  BY <1>1, <1>2, <1>4, <1>7, <1>9, <1>10, <1>11, <1>13, BanksRead

(* What a request had written goes with it.                                  *)
LEMMA BanksAbandon ==
  ASSUME BanksInv, NEW r \in Requests, BankList!Abandon(r) PROVE BanksInv'
<1>1. req' = [req EXCEPT ![r] = BankList!Idle] /\ UNCHANGED <<row, mirror, plain>>
  BY DEF BankList!Abandon, BankList!Step
<1>2. BankList!Idle \in BankRequest /\ BankList!Idle.at = "idle" /\ BankList!Idle.op = "none"
  BY DEF BankList!Idle, BankRequest
<1>3. req'[r] = BankList!Idle
  BY <1>1 DEF BanksInv, BanksTyped
<1>4. BankList!FreeFor(r, BankList!Holds(r)')
  BY <1>2, <1>3 DEF BankList!FreeFor, BankList!Holds
<1>5. plain' \in BOOLEAN
  BY <1>1 DEF BanksInv, BanksTyped
<1>. QED  BY <1>1, <1>2, <1>4, <1>5, BanksRead

(* What each request leaves of a row.                                        *)
LEMMA WrittenRows ==
  ASSUME BanksInv, NEW r \in Requests, req[r].at # "idle", NEW c \in Banks
  PROVE  /\ BankList!Written(r)[c] \in BankRow
         /\ req[r].op = "remove" =>
              /\ c = req[r].bank => BankList!Written(r)[c].active = FALSE /\ BankList!Written(r)[c].default = FALSE
                                    /\ BankList!Written(r)[c].there = row[c].there
              /\ c # req[r].bank => /\ BankList!Written(r)[c].active = row[c].active
                                    /\ BankList!Written(r)[c].there = row[c].there
                                    /\ c \in req[r].sees => BankList!Written(r)[c].default = TRUE
                                    /\ c \notin req[r].sees => BankList!Written(r)[c].default = row[c].default
         /\ req[r].op # "remove" =>
              /\ c = req[r].bank =>
                   /\ BankList!Written(r)[c].there = TRUE
                   /\ BankList!Written(r)[c].active = (req[r].op = "create" \/ row[c].active)
                   /\ BankList!Written(r)[c].default = (req[r].was \/ (req[r].op = "update" /\ row[c].default))
              /\ c # req[r].bank => /\ BankList!Written(r)[c].active = row[c].active
                                    /\ BankList!Written(r)[c].there = row[c].there
                                    /\ c \in req[r].sees => BankList!Written(r)[c].default = FALSE
                                    /\ c \notin req[r].sees => BankList!Written(r)[c].default = row[c].default
<1>1. /\ row[c] \in BankRow /\ req[r] \in BankRequest /\ req[r].bank \in Banks
      /\ row[c].there \in BOOLEAN /\ row[c].active \in BOOLEAN /\ row[c].default \in BOOLEAN
      /\ req[r].was \in BOOLEAN
  BY DEF BanksInv, BanksTyped, BankRow, BankRequest
<1>2. /\ (req[r].op = "create" \/ row[c].active) \in BOOLEAN
      /\ (req[r].was \/ (req[r].op = "update" /\ row[c].default)) \in BOOLEAN
  OBVIOUS
<1>3. CASE req[r].op = "remove" /\ c = req[r].bank
  <2>1. BankList!Written(r)[c] = [row[c] EXCEPT !.active = FALSE, !.default = FALSE]
    BY <1>3, Zenon DEF BankList!Written
  <2>. QED  BY <1>1, <1>3, <2>1 DEF BankRow
<1>4. CASE req[r].op = "remove" /\ c # req[r].bank
  <2>1. BankList!Written(r)[c] = IF c \in req[r].sees THEN [row[c] EXCEPT !.default = TRUE] ELSE row[c]
    BY <1>4, Zenon DEF BankList!Written
  <2>. QED  BY <1>1, <1>4, <2>1 DEF BankRow
<1>5. CASE req[r].op # "remove" /\ c = req[r].bank
  <2>1. BankList!Written(r)[c] = [there |-> TRUE, active |-> req[r].op = "create" \/ row[c].active,
                         default |-> req[r].was \/ (req[r].op = "update" /\ row[c].default)]
    BY <1>5, Zenon DEF BankList!Written
  <2>2. PICK x \in BOOLEAN : x = (req[r].op = "create" \/ row[c].active)
    BY <1>2
  <2>3. PICK d \in BOOLEAN : d = (req[r].was \/ (req[r].op = "update" /\ row[c].default))
    BY <1>2
  <2>4. BankList!Written(r)[c] = [there |-> TRUE, active |-> x, default |-> d]
    BY <2>1, <2>2, <2>3, Zenon
  <2>5. /\ BankList!Written(r)[c] \in BankRow /\ BankList!Written(r)[c].there = TRUE /\ BankList!Written(r)[c].active = x
        /\ BankList!Written(r)[c].default = d
    BY <2>4 DEF BankRow
  <2>. QED  BY <1>5, <2>2, <2>3, <2>5, Zenon
<1>6. CASE req[r].op # "remove" /\ c # req[r].bank
  <2>1. BankList!Written(r)[c] = IF c \in req[r].sees THEN [row[c] EXCEPT !.default = FALSE] ELSE row[c]
    BY <1>6, Zenon DEF BankList!Written
  <2>. QED  BY <1>1, <1>6, <2>1 DEF BankRow
<1>. QED  BY <1>3, <1>4, <1>5, <1>6

(* Whatever commits, its rows have the one default it found.                 *)
LEMMA DefaultFound ==
  ASSUME BanksInv, plain, NEW r \in Requests, req[r].at = "found", row' = BankList!Written(r),
         mirror' = req[r].pick
  PROVE  /\ (\A b \in Banks : row[b].default => row[b].active)'
         /\ OneDefault'
<1>. DEFINE q == req[r]
            b == req[r].bank
            S == req[r].sees
            left == BankList!Active \ {b}
<1>1. /\ q \in BankRequest /\ b \in Banks /\ CalmBanks /\ q.op # "none"
      /\ q.op \in {"create", "setDefault", "update", "remove"} /\ q.was \in BOOLEAN
  BY DEF BanksInv, BanksTyped, BankRequest
<1>2. StillSo(q) /\ S = Sights(q)
  BY <1>1 DEF CalmBanks, StillSo
<1>3. /\ \A c \in Banks : row[c].default => row[c].active
      /\ \A c \in Banks : row[c].active => row[c].there
      /\ OneDefault
      /\ Leaving(r) = {} => mirror' = None
      /\ Leaving(r) # {} => mirror' \in Leaving(r)
  BY <1>1 DEF CalmBanks, BanksInv, BanksTyped
<1>4. /\ Leaving(r) = {c \in Banks : row'[c].active /\ row'[c].default}
      /\ BankList!Active' = {c \in Banks : row'[c].active}
      /\ Defaults' = Leaving(r)
  BY Zenon DEF Leaving, BankList!Active, Defaults
<1>5. /\ q.op = "remove" =>
           /\ ~ row'[b].active /\ ~ row'[b].default
           /\ \A c \in Banks \ {b} : /\ row'[c].active = row[c].active
                                     /\ c \in S => row'[c].default
                                     /\ c \notin S => row'[c].default = row[c].default
      /\ q.op # "remove" =>
           /\ row'[b].active = (q.op = "create" \/ row[b].active)
           /\ row'[b].default = (q.was \/ (q.op = "update" /\ row[b].default))
           /\ \A c \in Banks \ {b} : /\ row'[c].active = row[c].active
                                     /\ c \in S => ~ row'[c].default
                                     /\ c \notin S => row'[c].default = row[c].default
  BY <1>1, WrittenRows
<1>6. /\ \A c \in Banks : row'[c].default => row'[c].active
      /\ BankList!Active' = {} \/ \E x \in Banks : Leaving(r) = {x}
      /\ BankList!Active' = {} => Leaving(r) = {}
  <2>1. CASE q.op # "remove" /\ q.was
    <3>1. S = BankList!There \cup (IF q.op = "update" THEN {b} ELSE {})
      BY <1>2, <2>1 DEF Sights
    <3>2. \A c \in Banks \ {b} : ~ row'[c].default
      BY <1>3, <1>5, <2>1, <3>1 DEF BankList!There
    <3>3. row'[b].active /\ row'[b].default
      BY <1>1, <1>2, <1>5, <2>1 DEF StillSo
    <3>. QED  BY <1>1, <1>4, <3>2, <3>3
  <2>2. CASE q.op = "create" /\ ~ q.was
    <3>1. S = {}
      BY <1>2, <2>2 DEF Sights
    <3>2. /\ ~ row[b].there /\ BankList!Active # {} /\ Defaults = {mirror}
      BY <1>2, <1>3, <2>2 DEF StillSo, OneDefault
    <3>3. \A c \in Banks \ {b} : row'[c].active = row[c].active /\ row'[c].default = row[c].default
      BY <1>5, <2>2, <3>1
    <3>4. row'[b].active /\ ~ row'[b].default
      BY <1>5, <2>2
    <3>5. ~ row[b].active
      BY <1>1, <1>3, <3>2
    <3>6. mirror \in Banks /\ Leaving(r) = {mirror}
      BY <1>1, <1>4, <3>2, <3>3, <3>4, <3>5 DEF Defaults, BankList!Active
    <3>. QED  BY <1>1, <1>3, <1>4, <3>3, <3>4, <3>6
  <2>3. CASE q.op = "update" /\ ~ q.was
    <3>1. S = {b}
      BY <1>2, <2>3 DEF Sights
    <3>2. \A c \in Banks : row'[c].active = row[c].active /\ row'[c].default = row[c].default
      <4>1. row'[b].active = row[b].active /\ row'[b].default = row[b].default
        BY <1>1, <1>5, <2>3 DEF BanksInv, BanksTyped, BankRow
      <4>. QED  BY <1>5, <2>3, <3>1, <4>1
    <3>3. BankList!Active' = BankList!Active /\ Leaving(r) = Defaults
      BY <1>4, <3>2 DEF BankList!Active, Defaults
    <3>. QED  BY <1>3, <3>2, <3>3 DEF OneDefault, Defaults, BankList!Active
  <2>4. CASE q.op = "remove" /\ q.was /\ left # {}
    <3>1. BankList!Oldest(left) \in left
      BY <2>4, OldestIn DEF BankList!Active
    <3>2. S = {b, BankList!Oldest(left)}
      BY <1>2, <2>4 DEF Sights
    <3>3. row[b].default /\ row[b].active /\ Defaults = {b}
      BY <1>1, <1>2, <1>3, <2>4 DEF StillSo, OneDefault, Defaults, BankList!Active
    <3>4. \A c \in Banks \ {b} : row'[c].default <=> c = BankList!Oldest(left)
      BY <1>3, <1>5, <2>4, <3>1, <3>2, <3>3 DEF Defaults, BankList!Active
    <3>5. ~ row'[b].active /\ ~ row'[b].default
      BY <1>5, <2>4
    <3>6. BankList!Oldest(left) \in Banks \ {b} /\ row[BankList!Oldest(left)].active
      BY <3>1 DEF BankList!Active
    <3>7. row'[BankList!Oldest(left)].active
      BY <1>5, <2>4, <3>6
    <3>8. Leaving(r) = {BankList!Oldest(left)}
      BY <1>4, <3>4, <3>5, <3>6, <3>7
    <3>. QED  BY <1>4, <3>4, <3>5, <3>6, <3>7, <3>8
  <2>5. CASE q.op = "remove" /\ ~ (q.was /\ left # {})
    <3>1. S = {b}
      BY <1>2, <2>5 DEF Sights
    <3>2. \A c \in Banks \ {b} : row'[c].active = row[c].active /\ row'[c].default = row[c].default
      BY <1>5, <2>5, <3>1
    <3>3. ~ row'[b].active /\ ~ row'[b].default
      BY <1>5, <2>5
    <3>4. BankList!Active' = left /\ Leaving(r) = Defaults \ {b}
      BY <1>1, <1>4, <3>2, <3>3 DEF BankList!Active, Defaults
    <3>5. \A c \in Banks : row'[c].default => row'[c].active
      BY <1>3, <3>2, <3>3
    <3>6. CASE left = {}
      BY <3>4, <3>5, <3>6 DEF Defaults
    <3>7. CASE left # {}
      <4>1. ~ row[b].default /\ BankList!Active # {} /\ Defaults = {mirror}
        BY <1>1, <1>2, <1>3, <2>5, <3>7 DEF StillSo, OneDefault, BanksInv, BanksTyped, BankRow
      <4>2. b \notin Defaults /\ mirror \in Banks
        BY <4>1 DEF Defaults, BankList!Active
      <4>. QED  BY <3>4, <3>5, <3>7, <4>1, <4>2
    <3>. QED  BY <3>6, <3>7
  <2>6. q.op = "setDefault" => q.was
    BY <1>2 DEF StillSo
  <2>7. CASE q.op = "remove"
    BY <2>4, <2>5, <2>7
  <2>8. CASE q.op # "remove"
    BY <1>1, <2>1, <2>2, <2>3, <2>6, <2>8, Zenon
  <2>. QED  BY <2>7, <2>8
<1>7. OneDefault'
  <2>1. CASE BankList!Active' = {}
    BY <1>3, <1>4, <1>6, <2>1 DEF OneDefault
  <2>2. CASE BankList!Active' # {}
    <3>1. Defaults' = {mirror'}
      BY <1>3, <1>4, <1>6, <2>2
    <3>. QED  BY <2>2, <3>1 DEF OneDefault
  <2>. QED  BY <2>1, <2>2
<1>. QED  BY <1>6, <1>7

(* What a request commits leaves one default, and what the others had read is still so.*)
LEMMA BanksCommit ==
  ASSUME BanksInv, NEW r \in Requests, BankList!Commit(r) PROVE BanksInv'
<1>1. /\ req[r].at = "found" /\ row' = BankList!Written(r) /\ mirror' = req[r].pick
      /\ req' = [req EXCEPT ![r] = BankList!Idle] /\ plain' = plain
  BY DEF BankList!Commit, BankList!Step
<1>2. /\ req'[r] = BankList!Idle /\ BankList!Idle.at = "idle" /\ BankList!Idle.op = "none" /\ BankList!Idle \in BankRequest
      /\ \A s \in Requests \ {r} : req'[s] = req[s]
      /\ req' \in [Requests -> BankRequest]
      /\ req[r] \in BankRequest /\ req[r].bank \in Banks
  BY <1>1 DEF BanksInv, BanksTyped, BankList!Idle, BankRequest
<1>3. row' \in [Banks -> BankRow]
  <2>1. \A c \in Banks : BankList!Written(r)[c] \in BankRow
    BY <1>1, WrittenRows
  <2>2. DOMAIN BankList!Written(r) = Banks /\ BankList!Written(r) = [c \in Banks |-> BankList!Written(r)[c]]
    BY Zenon DEF BankList!Written
  <2>. QED  BY <1>1, <2>1, <2>2
<1>4. \A c \in Banks : row'[c].active => row'[c].there
  BY <1>1, WrittenRows DEF BanksInv, BanksTyped
<1>5. BanksTyped'
  BY <1>1, <1>2, <1>3, <1>4 DEF BanksInv, BanksTyped, BankRequest
<1>6. RowsApart'
  <2>1. \A s \in Requests : BankList!Holds(s)' \subseteq BankList!Holds(s)
    BY <1>2 DEF BankList!Holds
  <2>. QED  BY <2>1 DEF RowsApart, BanksInv
<1>7. ASSUME plain' PROVE CalmBanks'
  <2>1. CalmBanks /\ plain
    BY <1>1, <1>7 DEF BanksInv
  <2>2. /\ (\A c \in Banks : row[c].default => row[c].active)'
        /\ OneDefault'
    BY <1>1, <2>1, DefaultFound
  <2>3. StillSo(req[r]) /\ req[r].sees = Sights(req[r])
    BY <1>1, <2>1 DEF CalmBanks, StillSo
  <2>4. ASSUME NEW s \in Requests \ {r}, req[s].at # "idle"
        PROVE  /\ StillSo(req[s])'
               /\ (req[s].at = "found" =>
                     IF Leaving(s) = {} THEN req[s].pick = None ELSE req[s].pick \in Leaving(s))'
    <3>1. /\ req[s].op \in {"setDefault", "update"} /\ req[r].op \in {"setDefault", "update"}
          /\ StillSo(req[s]) /\ req'[s] = req[s] /\ req[s] \in BankRequest /\ req[s].bank \in Banks
      BY <1>1, <1>2, <2>1, <2>4 DEF CalmBanks, BanksInv, BanksTyped
    <3>2. \A c \in Banks : row'[c].active = row[c].active /\ row'[c].there = row[c].there
      <4>1. row[req[r].bank].there
        BY <1>2, <2>3, <3>1 DEF StillSo, BanksInv, BanksTyped
      <4>2. \A c \in Banks : row[c] \in BankRow /\ row[c].there \in BOOLEAN /\ row[c].active \in BOOLEAN
        BY DEF BanksInv, BanksTyped, BankRow
      <4>3. req[r].op # "create" /\ req[r].op # "remove" /\ (req[r].op = "setDefault" => row[req[r].bank].active)
        BY <2>3, <3>1 DEF StillSo
      <4>4. ASSUME NEW c \in Banks PROVE row'[c].active = row[c].active /\ row'[c].there = row[c].there
        <5>1. CASE c = req[r].bank
          <6>1. /\ row'[c].there = TRUE /\ row'[c].active = (req[r].op = "create" \/ row[c].active)
            BY <1>1, <4>3, <5>1, WrittenRows
          <6>. QED  BY <4>1, <4>2, <4>3, <5>1, <6>1
        <5>2. CASE c # req[r].bank
          BY <1>1, <4>3, <5>2, WrittenRows
        <5>. QED  BY <5>1, <5>2
      <4>. QED  BY <4>4
    <3>3. BankList!Active' = BankList!Active /\ BankList!There' = BankList!There
      BY <3>2 DEF BankList!Active, BankList!There
    <3>4. Sights(req[s])' = Sights(req[s])
      BY <3>1, <3>3, Zenon DEF Sights
    <3>5. StillSo(req[s])'
      BY <3>1, <3>2, <3>4 DEF StillSo
    <3>6. ASSUME req[s].at = "found"
          PROVE  Leaving(s)' = Leaving(s)
      <4>1. /\ BankList!Holds(s) = req[s].sees /\ BankList!Holds(r) = req[r].sees /\ BankList!Holds(r) \cap BankList!Holds(s) = {}
        BY <1>1, <3>6 DEF BankList!Holds, BanksInv, RowsApart
      <4>2. req[s].sees = Sights(req[s])
        BY <2>1, <3>1, <3>6 DEF CalmBanks, StillSo
      <4>3. row[req[s].bank].there /\ row[req[r].bank].there
        BY <1>2, <2>3, <3>1 DEF StillSo, BanksInv, BanksTyped
      <4>4. req[s].bank \in BankList!There /\ req[r].bank \in BankList!There
        BY <1>2, <3>1, <4>3 DEF BankList!There
      <4>5. req[s].bank \in BankList!Holds(s)
        BY <3>1, <4>1, <4>2, <4>4 DEF Sights, StillSo
      <4>6. req[r].op = "update" /\ ~ req[r].was
        BY <2>3, <3>1, <4>1, <4>4, <4>5 DEF Sights, StillSo
      <4>7. row' = row
        <5>1. req[r].sees = {req[r].bank}
          BY <2>3, <4>6 DEF Sights
        <5>2. ASSUME NEW c \in Banks PROVE BankList!Written(r)[c] = row[c]
          <6>1. row[c] \in BankRow /\ BankList!Written(r)[c] \in BankRow
            BY <1>1, WrittenRows DEF BanksInv, BanksTyped
          <6>2. /\ BankList!Written(r)[c].there = row[c].there /\ BankList!Written(r)[c].active = row[c].active
                /\ BankList!Written(r)[c].default = row[c].default
            <7>1. /\ row[c].there \in BOOLEAN /\ row[c].active \in BOOLEAN /\ row[c].default \in BOOLEAN
              BY <6>1 DEF BankRow
            <7>. QED  BY <1>1, <4>3, <4>6, <5>1, <7>1, WrittenRows
          <6>. QED  BY <6>1, <6>2 DEF BankRow
        <5>. QED  BY <1>1, <1>3, <5>2 DEF BanksInv, BanksTyped
      <4>8. BankList!Written(s)' = BankList!Written(s)
        BY <3>1, <4>7, Zenon DEF BankList!Written
      <4>. QED  BY <4>8, Zenon DEF Leaving
    <3>. QED  BY <2>1, <2>4, <3>1, <3>5, <3>6 DEF CalmBanks
  <2>5. \A s \in Requests : req'[s].at # "idle" => s # r /\ req[s].at # "idle"
    BY <1>2
  <2>6. (\A p, s \in Requests : p # s /\ req[p].at # "idle" /\ req[s].at # "idle" =>
           req[s].op \in {"setDefault", "update"})'
    BY <1>2, <2>1, <2>5 DEF CalmBanks
  <2>7. \A s \in Requests : req'[s].at = "found" => req'[s].at # "idle"
    OBVIOUS
  <2>. QED  BY <2>2, <2>4, <2>5, <2>6, <2>7 DEF CalmBanks
<1>. QED  BY <1>5, <1>6, <1>7 DEF BanksInv

(* Every step keeps the accounts.                                            *)
LEMMA BanksNext == BanksInv /\ [BankList!Next]_(BankList!vars) => BanksInv'
<1>1. ASSUME BanksInv, UNCHANGED BankList!vars PROVE BanksInv'
  <2>1. \A r \in Requests : BankList!Holds(r)' = BankList!Holds(r) /\ Leaving(r)' = Leaving(r)
    BY <1>1 DEF BankList!vars, BankList!Holds, Leaving, BankList!Written
  <2>2. \A q \in BankRequest : StillSo(q) => StillSo(q)'
    BY <1>1 DEF BankList!vars, StillSo, BankList!Active, BankList!There, Sights
  <2>3. BanksTyped' /\ RowsApart'
    BY <1>1, <2>1 DEF BankList!vars, BanksInv, BanksTyped, RowsApart
  <2>4. plain => CalmBanks'
    BY <1>1, <2>1, <2>2 DEF BankList!vars, BanksInv, BanksTyped, CalmBanks, OneDefault, BankList!Active,
       Defaults
  <2>. QED  BY <1>1, <2>3, <2>4 DEF BankList!vars, BanksInv
<1>. QED  BY <1>1, BanksStart, BanksWriteOwn, BanksLook, BanksClear, BanksFind, BanksCommit, BanksAbandon DEF BankList!Next

(* With one default, that is the account printed.                            *)
LEMMA BanksShown == BanksInv => BankList!OneDefaultBank /\ BankList!TypeOK
<1>1. ASSUME BanksInv PROVE BankList!TypeOK
  BY <1>1 DEF BanksInv, BanksTyped, BankRow, BankRequest, BankList!TypeOK
<1>2. ASSUME BanksInv, plain PROVE BankList!OneDefaultBank
  <2>0. \A S : BankList!Cardinality(S) = Cardinality(S)
    BY DEF BankList!Cardinality, Cardinality
  <2>1. OneDefault /\ Defaults \subseteq BankList!Active
    BY <1>2 DEF BanksInv, CalmBanks, Defaults
  <2>2. CASE BankList!Active = {}
    <3>1. Defaults = {} /\ mirror = None
      BY <2>1, <2>2 DEF OneDefault
    <3>2. Cardinality({}) = 0
      BY FS_EmptySet
    <3>. QED  BY <2>0, <2>2, <3>1, <3>2 DEF BankList!OneDefaultBank, Defaults
  <2>3. CASE BankList!Active # {}
    <3>1. Defaults = {mirror}
      BY <2>1, <2>3 DEF OneDefault
    <3>2. Cardinality({mirror}) = 1 /\ mirror = CHOOSE b \in {mirror} : TRUE
      BY FS_Singleton
    <3>. QED  BY <2>0, <2>3, <3>1, <3>2 DEF BankList!OneDefaultBank, Defaults
  <2>. QED  BY <2>2, <2>3
<1>. QED  BY <1>1, <1>2 DEF BankList!OneDefaultBank


-----------------------------------------------------------------------------
(* The cards of the settings: what each shows, and what was lost when two showed it. *)

CardRow ==
  [at : {"shut", "loading", "open", "sent", "patched", "read"}, of : {"none", "profile", "links"} \cup CardKinds,
   form : [Settings!Fields -> Settings!Values], typed : SUBSET Settings!Fields, failed : BOOLEAN, map : [CardKinds -> Settings!Values]]

SettingsTyped ==
  /\ company \in [Settings!Fields -> Settings!Values] /\ meant \in [Settings!Fields -> Settings!Values]
  /\ lost \subseteq Settings!Fields /\ saves \in 0..MaxSaves
  /\ card \in [Cards -> CardRow]

(* A card shows what is stored, where it was loaded and not typed over, or an
   emptied GSTIN; a map of layouts that was read is still stored. *)
CardStands(q) ==
  /\ q.at = "shut" => q.of = "none"
  /\ q.typed \subseteq Settings!FieldsOf(q.of)
  /\ q.at \in {"patched", "read"} => q.of \in CardKinds /\ q.typed \subseteq CardKinds
  /\ q.at \in {"patched", "read"} /\ q.failed => Settings!FieldsOf(q.of) \subseteq lost
  /\ q.at \notin {"shut", "loading"} /\ ~ q.failed =>
       \A f \in Settings!FieldsOf(q.of) \ (q.typed \cup lost) :
         q.form[f] = company[f] \/ (f = "gstin" /\ q.form[f] = 0)
  /\ q.at = "read" => \A k \in CardKinds \ lost : q.map[k] = company[k]

(* Fields of two cards are lost, layouts once two maps are read at a time.     *)
CardsApart(q, s) ==
  /\ Settings!FieldsOf(q.of) \cap Settings!FieldsOf(s.of) \subseteq lost
  /\ q.at = "read" /\ s.at = "read" => CardKinds \subseteq lost

SettingsInv ==
  /\ SettingsTyped
  /\ \A c \in Cards : CardStands(card[c])
  /\ \A c, d \in Cards : c # d => CardsApart(card[c], card[d])
  /\ Settings!SettingsKept

(* A card that is shut.                                                      *)
LEMMA ShutRow == Settings!Shut \in CardRow /\ Settings!Shut.of = "none" /\ Settings!Shut.at = "shut" /\ Settings!Shut.typed = {}
                 /\ Settings!FieldsOf("none") = {} /\ Settings!Blank \in [Settings!Fields -> Settings!Values]
BY SettingsAssumption DEF Settings!Shut, CardRow, Settings!FieldsOf, Settings!Blank, Settings!Values

(* All cards are shut at first.                                              *)
LEMMA SettingsInit == Settings!Init => SettingsInv
BY ShutRow, SettingsAssumption
   DEF Settings!Init, SettingsInv, SettingsTyped, CardStands, CardsApart, Settings!SettingsKept

(* The fields of a card.                                                     *)
LEMMA OwnFields ==
  ASSUME NEW of \in {"none", "profile", "links"} \cup CardKinds
  PROVE  /\ Settings!FieldsOf(of) \subseteq Settings!Fields
         /\ of \in CardKinds => Settings!FieldsOf(of) = {"logo", of} /\ of \notin {"gstin", "state", "sales", "logo"}
         /\ Settings!FieldsOf(of) \cap CardKinds \subseteq {of}
         /\ of = "profile" <=> "state" \in Settings!FieldsOf(of)
BY SettingsAssumption DEF Settings!FieldsOf, Settings!Fields

(* A step of one card that writes nothing on the company.                    *)
LEMMA SettingsRead ==
  ASSUME SettingsInv, NEW c \in Cards, NEW q \in CardRow, card' = [card EXCEPT ![c] = q],
         UNCHANGED <<company, meant>>, lost \subseteq lost', lost' \subseteq Settings!Fields,
         saves' \in 0..MaxSaves, CardStands(q)',
         \A d \in Cards \ {c} : (Settings!FieldsOf(q.of) \cap Settings!FieldsOf(card[d].of) \subseteq lost')
                                 /\ (q.at = "read" /\ card[d].at = "read" => CardKinds \subseteq lost')
  PROVE  SettingsInv'
<1>1. /\ card'[c] = q /\ \A d \in Cards \ {c} : card'[d] = card[d]
      /\ card' \in [Cards -> CardRow]
  BY DEF SettingsInv, SettingsTyped
<1>2. SettingsTyped'
  BY <1>1 DEF SettingsInv, SettingsTyped
<1>3. \A s \in CardRow : CardStands(s) => CardStands(s)'
  BY DEF CardStands
<1>4. \A d \in Cards : card'[d] \in CardRow
  BY <1>1
<1>5. (\A d \in Cards : CardStands(card[d]))'
  <2>1. ASSUME NEW d \in Cards PROVE CardStands(card[d])'
    <3>1. CASE d = c
      BY <1>1, <3>1 DEF CardStands
    <3>2. CASE d # c
      <4>1. card'[d] = card[d] /\ card[d] \in CardRow /\ CardStands(card[d])
        BY <1>1, <1>4, <3>2 DEF SettingsInv
      <4>2. CardStands(card[d]) => \A s : s = card[d] => CardStands(s)
        OBVIOUS
      <4>. QED  BY <1>3, <4>1 DEF CardStands
    <3>. QED  BY <3>1, <3>2
  <2>. QED  BY <2>1
<1>6. (\A b, d \in Cards : b # d => CardsApart(card[b], card[d]))'
  <2>1. ASSUME NEW b \in Cards, NEW d \in Cards, b # d PROVE CardsApart(card[b], card[d])'
    <3>1. CardsApart(card[b], card[d])
      BY <2>1 DEF SettingsInv
    <3>. QED  BY <1>1, <2>1, <3>1 DEF CardsApart
  <2>. QED  BY <2>1
<1>7. Settings!SettingsKept'
  BY DEF SettingsInv, Settings!SettingsKept
<1>. QED  BY <1>2, <1>5, <1>6, <1>7 DEF SettingsInv

(* What every card is, seen from one.                                        *)
LEMMA CardFacts ==
  ASSUME SettingsInv, NEW c \in Cards
  PROVE  /\ card[c] \in CardRow /\ CardStands(card[c]) /\ Settings!Own(c) = Settings!FieldsOf(card[c].of)
         /\ Settings!Own(c) \subseteq Settings!Fields
         /\ \A d \in Cards \ {c} : CardsApart(card[c], card[d])
         /\ lost \subseteq Settings!Fields /\ saves \in 0..MaxSaves
         /\ company \in [Settings!Fields -> Settings!Values] /\ meant \in [Settings!Fields -> Settings!Values]
<1>1. card[c] \in CardRow
  BY DEF SettingsInv, SettingsTyped
<1>2. card[c].of \in {"none", "profile", "links"} \cup CardKinds
  BY <1>1 DEF CardRow
<1>. QED  BY <1>1, <1>2, OwnFields DEF SettingsInv, SettingsTyped, Settings!Own

(* A card mounted loses the fields it shares with another that is.           *)
LEMMA SettingsMount ==
  ASSUME SettingsInv, NEW c \in Cards, NEW of \in {"profile", "links"} \cup CardKinds, Settings!Mount(c, of)
  PROVE  SettingsInv'
<1>0. /\ card[c] \in CardRow /\ CardStands(card[c]) /\ Settings!Own(c) = Settings!FieldsOf(card[c].of)
      /\ Settings!Own(c) \subseteq Settings!Fields
      /\ \A d \in Cards \ {c} : CardsApart(card[c], card[d])
      /\ lost \subseteq Settings!Fields /\ saves \in 0..MaxSaves
      /\ company \in [Settings!Fields -> Settings!Values] /\ meant \in [Settings!Fields -> Settings!Values]
  BY CardFacts
<1>q. PICK q : q = [Settings!Shut EXCEPT !.at = "loading", !.of = of]
  OBVIOUS
<1>1. card' = [card EXCEPT ![c] = q] /\ UNCHANGED <<company, meant, saves>>
      /\ lost' = lost \cup {f \in Settings!FieldsOf(of) : \E d \in Cards \ {c} : f \in Settings!Own(d)}
  BY <1>q DEF Settings!Mount, Settings!Card
<1>2. q \in CardRow /\ q.at = "loading" /\ q.of = of /\ q.typed = {}
  BY <1>q, ShutRow DEF CardRow
<1>3. Settings!FieldsOf(of) \subseteq Settings!Fields
  BY OwnFields
<1>4. lost \subseteq lost' /\ lost' \subseteq Settings!Fields
  BY <1>1, <1>3, <1>0
<1>5. CardStands(q)'
  BY <1>2 DEF CardStands
<1>6. \A d \in Cards \ {c} : Settings!FieldsOf(q.of) \cap Settings!FieldsOf(card[d].of) \subseteq lost'
  BY <1>1, <1>2 DEF Settings!Own
<1>7. saves' \in 0..MaxSaves
  BY <1>1, <1>0
<1>. QED  BY <1>1, <1>2, <1>4, <1>5, <1>6, <1>7, SettingsRead

(* A card that stays at its fields.                                          *)
LEMMA SettingsStay ==
  ASSUME SettingsInv, NEW c \in Cards, NEW q \in CardRow, card' = [card EXCEPT ![c] = q],
         UNCHANGED <<company, meant>>, lost \subseteq lost', lost' \subseteq Settings!Fields,
         saves' \in 0..MaxSaves, CardStands(q)', q.of \in {card[c].of, "none"}, q.at # "read"
  PROVE  SettingsInv'
<1>1. \A d \in Cards \ {c} : Settings!FieldsOf(q.of) \cap Settings!FieldsOf(card[d].of) \subseteq lost'
  BY CardFacts, ShutRow DEF CardsApart
<1>. QED  BY <1>1, SettingsRead

(* What was loaded is what is stored.                                        *)
LEMMA SettingsLoaded ==
  ASSUME SettingsInv, NEW c \in Cards, Settings!Loaded(c) PROVE SettingsInv'
<1>. DEFINE g == [f \in Settings!Fields |-> IF f \in Settings!Own(c) THEN company[f] ELSE 0]
<1>0. /\ card[c] \in CardRow /\ CardStands(card[c]) /\ Settings!Own(c) = Settings!FieldsOf(card[c].of)
      /\ Settings!Own(c) \subseteq Settings!Fields
      /\ \A d \in Cards \ {c} : CardsApart(card[c], card[d])
      /\ lost \subseteq Settings!Fields /\ saves \in 0..MaxSaves
      /\ company \in [Settings!Fields -> Settings!Values] /\ meant \in [Settings!Fields -> Settings!Values]
  BY CardFacts
<1>q. PICK q : q = [card[c] EXCEPT !.at = "open", !.form = g]
  OBVIOUS
<1>1. card' = [card EXCEPT ![c] = q] /\ UNCHANGED <<company, meant, lost, saves>>
  BY <1>q, Zenon DEF Settings!Loaded, Settings!Card
<1>2. g \in [Settings!Fields -> Settings!Values] /\ \A f \in Settings!Own(c) : g[f] = company[f]
  BY <1>0, SettingsAssumption DEF Settings!Values
<1>. HIDE DEF g
<1>3. q \in CardRow /\ q.at = "open" /\ q.of = card[c].of /\ q.typed = card[c].typed /\ q.form = g
  BY <1>q, <1>2, <1>0 DEF CardRow
<1>4. CardStands(q)'
  BY <1>1, <1>2, <1>3, <1>0 DEF CardStands
<1>. QED  BY <1>1, <1>3, <1>4, <1>0, SettingsStay

(* A card that did not load shows nothing that counts.                       *)
LEMMA SettingsLoadFailed ==
  ASSUME SettingsInv, NEW c \in Cards, Settings!LoadFailed(c) PROVE SettingsInv'
<1>0. /\ card[c] \in CardRow /\ CardStands(card[c]) /\ Settings!Own(c) = Settings!FieldsOf(card[c].of)
      /\ Settings!Own(c) \subseteq Settings!Fields
      /\ \A d \in Cards \ {c} : CardsApart(card[c], card[d])
      /\ lost \subseteq Settings!Fields /\ saves \in 0..MaxSaves
      /\ company \in [Settings!Fields -> Settings!Values] /\ meant \in [Settings!Fields -> Settings!Values]
  BY CardFacts
<1>q. PICK q : q = [card[c] EXCEPT !.at = "open", !.failed = TRUE]
  OBVIOUS
<1>1. card' = [card EXCEPT ![c] = q] /\ UNCHANGED <<company, meant, lost, saves>>
  BY <1>q, Zenon DEF Settings!LoadFailed, Settings!Card
<1>3. q \in CardRow /\ q.at = "open" /\ q.of = card[c].of /\ q.typed = card[c].typed /\ q.failed = TRUE
  BY <1>q, <1>0 DEF CardRow
<1>4. CardStands(q)'
  BY <1>1, <1>3, <1>0 DEF CardStands
<1>. QED  BY <1>1, <1>3, <1>4, <1>0, SettingsStay

(* What is typed in is no longer what was loaded.                            *)
LEMMA SettingsType ==
  ASSUME SettingsInv, NEW c \in Cards, NEW f \in Settings!Fields, NEW v \in Settings!Values, Settings!Type(c, f, v)
  PROVE  SettingsInv'
<1>0. /\ card[c] \in CardRow /\ CardStands(card[c]) /\ Settings!Own(c) = Settings!FieldsOf(card[c].of)
      /\ Settings!Own(c) \subseteq Settings!Fields
      /\ \A d \in Cards \ {c} : CardsApart(card[c], card[d])
      /\ lost \subseteq Settings!Fields /\ saves \in 0..MaxSaves
      /\ company \in [Settings!Fields -> Settings!Values] /\ meant \in [Settings!Fields -> Settings!Values]
  BY CardFacts
<1>q. PICK q : q = [card[c] EXCEPT !.form[f] = v, !.typed = @ \cup {f}]
  OBVIOUS
<1>1. card' = [card EXCEPT ![c] = q] /\ UNCHANGED <<company, meant, lost, saves>>
      /\ card[c].at = "open" /\ f \in Settings!Own(c)
  BY <1>q, Zenon DEF Settings!Type, Settings!Card
<1>2. card[c].form \in [Settings!Fields -> Settings!Values]
  BY <1>0 DEF CardRow
<1>3. /\ q \in CardRow /\ q.at = "open" /\ q.of = card[c].of /\ q.typed = card[c].typed \cup {f}
      /\ q.failed = card[c].failed
      /\ \A g \in Settings!Fields \ {f} : q.form[g] = card[c].form[g]
  BY <1>q, <1>1, <1>2, <1>0 DEF CardRow
<1>4. CardStands(q)'
  BY <1>1, <1>3, <1>0 DEF CardStands
<1>. QED  BY <1>1, <1>3, <1>4, <1>0, SettingsStay

(* A card is sent as it stands.                                              *)
LEMMA SettingsSave ==
  ASSUME SettingsInv, NEW c \in Cards, Settings!Save(c) PROVE SettingsInv'
<1>0. /\ card[c] \in CardRow /\ CardStands(card[c]) /\ Settings!Own(c) = Settings!FieldsOf(card[c].of)
      /\ Settings!Own(c) \subseteq Settings!Fields
      /\ \A d \in Cards \ {c} : CardsApart(card[c], card[d])
      /\ lost \subseteq Settings!Fields /\ saves \in 0..MaxSaves
      /\ company \in [Settings!Fields -> Settings!Values] /\ meant \in [Settings!Fields -> Settings!Values]
  BY CardFacts
<1>q. PICK q : q = [card[c] EXCEPT !.at = "sent"]
  OBVIOUS
<1>1. card' = [card EXCEPT ![c] = q] /\ UNCHANGED <<company, meant, lost>> /\ saves' = saves + 1
      /\ saves < MaxSaves /\ card[c].at = "open"
  BY <1>q, Zenon DEF Settings!Save, Settings!Card
<1>2. saves' \in 0..MaxSaves
  BY <1>1, <1>0, SettingsAssumption
<1>3. /\ q \in CardRow /\ q.at = "sent" /\ q.of = card[c].of /\ q.typed = card[c].typed
      /\ q.failed = card[c].failed /\ q.form = card[c].form
  BY <1>q, <1>0 DEF CardRow
<1>4. CardStands(q)'
  BY <1>1, <1>3, <1>0 DEF CardStands
<1>. QED  BY <1>1, <1>2, <1>3, <1>4, <1>0, SettingsStay

(* A save that fails leaves what is stored.                                  *)
LEMMA SettingsSaveFails ==
  ASSUME SettingsInv, NEW c \in Cards, Settings!SaveFails(c) PROVE SettingsInv'
<1>0. /\ card[c] \in CardRow /\ CardStands(card[c]) /\ Settings!Own(c) = Settings!FieldsOf(card[c].of)
      /\ Settings!Own(c) \subseteq Settings!Fields
      /\ \A d \in Cards \ {c} : CardsApart(card[c], card[d])
      /\ lost \subseteq Settings!Fields /\ saves \in 0..MaxSaves
      /\ company \in [Settings!Fields -> Settings!Values] /\ meant \in [Settings!Fields -> Settings!Values]
  BY CardFacts
<1>q. PICK q : q = [card[c] EXCEPT !.at = "open", !.map = Settings!Shut.map]
  OBVIOUS
<1>1. card' = [card EXCEPT ![c] = q] /\ UNCHANGED <<company, meant, lost, saves>>
      /\ card[c].at \in {"sent", "patched", "read"}
  BY <1>q, Zenon DEF Settings!SaveFails, Settings!Card
<1>2. Settings!Shut.map \in [CardKinds -> Settings!Values]
  BY ShutRow DEF CardRow
<1>3. /\ q \in CardRow /\ q.at = "open" /\ q.of = card[c].of /\ q.typed = card[c].typed
      /\ q.failed = card[c].failed /\ q.form = card[c].form
  BY <1>q, <1>2, <1>0 DEF CardRow
<1>4. CardStands(q)'
  BY <1>1, <1>3, <1>0 DEF CardStands
<1>. QED  BY <1>1, <1>3, <1>4, <1>0, SettingsStay

(* A card unmounted shows nothing.                                           *)
LEMMA SettingsUnmount ==
  ASSUME SettingsInv, NEW c \in Cards, Settings!Unmount(c) PROVE SettingsInv'
<1>0. /\ card[c] \in CardRow /\ CardStands(card[c]) /\ Settings!Own(c) = Settings!FieldsOf(card[c].of)
      /\ Settings!Own(c) \subseteq Settings!Fields
      /\ \A d \in Cards \ {c} : CardsApart(card[c], card[d])
      /\ lost \subseteq Settings!Fields /\ saves \in 0..MaxSaves
      /\ company \in [Settings!Fields -> Settings!Values] /\ meant \in [Settings!Fields -> Settings!Values]
  BY CardFacts
<1>1. card' = [card EXCEPT ![c] = Settings!Shut] /\ UNCHANGED <<company, meant, lost, saves>>
  BY Zenon DEF Settings!Unmount, Settings!Card
<1>2. CardStands(Settings!Shut)'
  BY ShutRow DEF CardStands
<1>. QED  BY <1>1, <1>2, ShutRow, <1>0, SettingsStay

(* Two layouts read before either is written are lost.                       *)
LEMMA SettingsReadMap ==
  ASSUME SettingsInv, NEW c \in Cards, Settings!ReadMap(c) PROVE SettingsInv'
<1>. DEFINE m == [k \in CardKinds |-> company[k]]
<1>0. /\ card[c] \in CardRow /\ CardStands(card[c]) /\ Settings!Own(c) = Settings!FieldsOf(card[c].of)
      /\ Settings!Own(c) \subseteq Settings!Fields
      /\ \A d \in Cards \ {c} : CardsApart(card[c], card[d])
      /\ lost \subseteq Settings!Fields /\ saves \in 0..MaxSaves
      /\ company \in [Settings!Fields -> Settings!Values] /\ meant \in [Settings!Fields -> Settings!Values]
  BY CardFacts
<1>q. PICK q : q = [card[c] EXCEPT !.at = "read", !.map = m]
  OBVIOUS
<1>1. card' = [card EXCEPT ![c] = q] /\ UNCHANGED <<company, meant, saves>> /\ card[c].at = "patched"
      /\ lost' = lost \cup (IF \E d \in Cards \ {c} : card[d].at = "read" THEN CardKinds ELSE {})
  BY <1>q, Zenon DEF Settings!ReadMap, Settings!Card
<1>2. m \in [CardKinds -> Settings!Values] /\ \A k \in CardKinds : m[k] = company[k]
  BY <1>0 DEF Settings!Fields
<1>. HIDE DEF m
<1>3. /\ q \in CardRow /\ q.at = "read" /\ q.of = card[c].of /\ q.typed = card[c].typed
      /\ q.failed = card[c].failed /\ q.form = card[c].form /\ q.map = m
  BY <1>q, <1>2, <1>0 DEF CardRow
<1>4. lost \subseteq lost' /\ lost' \subseteq Settings!Fields
  BY <1>1, <1>0 DEF Settings!Fields
<1>5. CardStands(q)'
  BY <1>1, <1>2, <1>3, <1>4, <1>0 DEF CardStands
<1>6. \A d \in Cards \ {c} : (Settings!FieldsOf(q.of) \cap Settings!FieldsOf(card[d].of) \subseteq lost')
                              /\ (q.at = "read" /\ card[d].at = "read" => CardKinds \subseteq lost')
  BY <1>1, <1>3, <1>4, <1>0 DEF CardsApart
<1>. QED  BY <1>1, <1>3, <1>4, <1>5, <1>6, <1>0, SettingsRead

(* A step of one card that writes fields no other card shows, lost ones aside. *)
LEMMA SettingsWrite ==
  ASSUME SettingsInv, NEW c \in Cards, NEW q \in CardRow, card' = [card EXCEPT ![c] = q],
         company' \in [Settings!Fields -> Settings!Values], meant' \in [Settings!Fields -> Settings!Values], saves' = saves,
         lost \subseteq lost', lost' \subseteq Settings!Fields, CardStands(q)', q.of = card[c].of, q.at # "read",
         \A d \in Cards \ {c} :
           /\ \A f \in Settings!FieldsOf(card[d].of) \ lost' : company'[f] = company[f]
           /\ card[d].at = "read" => \A k \in CardKinds \ lost' : company'[k] = company[k],
         Settings!SettingsKept'
  PROVE  SettingsInv'
<1>1. /\ card'[c] = q /\ \A d \in Cards \ {c} : card'[d] = card[d]
      /\ card' \in [Cards -> CardRow]
  BY DEF SettingsInv, SettingsTyped
<1>2. SettingsTyped'
  BY <1>1 DEF SettingsInv, SettingsTyped
<1>3. (\A d \in Cards : CardStands(card[d]))'
  <2>1. ASSUME NEW d \in Cards PROVE CardStands(card[d])'
    <3>1. CASE d = c
      BY <1>1, <3>1 DEF CardStands
    <3>2. CASE d # c
      <4>1. card'[d] = card[d] /\ card[d] \in CardRow /\ CardStands(card[d])
        BY <1>1, <3>2 DEF SettingsInv, SettingsTyped
      <4>2. /\ \A f \in Settings!FieldsOf(card[d].of) \ lost' : company'[f] = company[f]
            /\ card[d].at = "read" => \A k \in CardKinds \ lost' : company'[k] = company[k]
        BY <3>2
      <4>. QED  BY <4>1, <4>2 DEF CardStands
    <3>. QED  BY <3>1, <3>2
  <2>. QED  BY <2>1
<1>4. (\A b, d \in Cards : b # d => CardsApart(card[b], card[d]))'
  <2>1. ASSUME NEW b \in Cards, NEW d \in Cards, b # d PROVE CardsApart(card[b], card[d])'
    <3>1. CardsApart(card[b], card[d])
      BY <2>1 DEF SettingsInv
    <3>. QED  BY <1>1, <2>1, <3>1 DEF CardsApart
  <2>. QED  BY <2>1
<1>. QED  BY <1>2, <1>3, <1>4 DEF SettingsInv

(* What a save writes: the fields of its card, layouts and an empty GSTIN aside. *)
LEMMA WhatIsUpdated ==
  ASSUME SettingsInv, NEW c \in Cards
  PROVE  /\ Settings!Updated(c) \in [Settings!Fields -> Settings!Values]
         /\ \A f \in Settings!Fields : f \in CardKinds \/ f \notin Settings!Own(c) => Settings!Updated(c)[f] = company[f]
         /\ \A f \in Settings!Own(c) \ CardKinds :
              /\ f = "gstin" /\ card[c].form[f] = 0 => Settings!Updated(c)[f] = company[f]
              /\ f = "gstin" /\ card[c].form[f] # 0 => Settings!Updated(c)[f] = card[c].form[f]
              /\ f = "state" /\ card[c].form[f] # 0 => Settings!Updated(c)[f] = card[c].form[f]
              /\ f \notin {"gstin", "state"} => Settings!Updated(c)[f] = card[c].form[f]
<1>0. /\ card[c] \in CardRow /\ CardStands(card[c]) /\ Settings!Own(c) = Settings!FieldsOf(card[c].of)
      /\ Settings!Own(c) \subseteq Settings!Fields
      /\ \A d \in Cards \ {c} : CardsApart(card[c], card[d])
      /\ lost \subseteq Settings!Fields /\ saves \in 0..MaxSaves
      /\ company \in [Settings!Fields -> Settings!Values] /\ meant \in [Settings!Fields -> Settings!Values]
  BY CardFacts
<1>1. card[c].form \in [Settings!Fields -> Settings!Values] /\ "gstin" \in Settings!Fields /\ "state" \in Settings!Fields
  BY <1>0 DEF CardRow, Settings!Fields
<1>2. /\ Settings!Updated(c) \in [Settings!Fields -> Settings!Values]
  BY <1>0, <1>1 DEF Settings!Updated
<1>3. \A f \in Settings!Fields : f \in CardKinds \/ f \notin Settings!Own(c) => Settings!Updated(c)[f] = company[f]
  BY DEF Settings!Updated
<1>4. \A f \in Settings!Own(c) \ CardKinds :
              /\ f = "gstin" /\ card[c].form[f] = 0 => Settings!Updated(c)[f] = company[f]
              /\ f = "gstin" /\ card[c].form[f] # 0 => Settings!Updated(c)[f] = card[c].form[f]
              /\ f = "state" /\ card[c].form[f] # 0 => Settings!Updated(c)[f] = card[c].form[f]
              /\ f \notin {"gstin", "state"} => Settings!Updated(c)[f] = card[c].form[f]
  BY <1>0 DEF Settings!Updated
<1>. QED  BY <1>2, <1>3, <1>4

(* What a user means to store is what was typed, where it was not left empty.*)
LEMMA WhatIsMeant ==
  ASSUME SettingsInv, NEW c \in Cards, NEW S
  PROVE  /\ Settings!Meant(c, S) \in [Settings!Fields -> Settings!Values]
         /\ \A f \in Settings!Fields : Settings!Meant(c, S)[f] =
              IF f \in S /\ (f \in {"gstin", "state"} => card[c].form[f] # 0)
              THEN card[c].form[f] ELSE meant[f]
<1>1. card[c].form \in [Settings!Fields -> Settings!Values] /\ meant \in [Settings!Fields -> Settings!Values]
  BY CardFacts DEF CardRow
<1>. QED  BY <1>1 DEF Settings!Meant

(* A patch stores the fields of the card it was sent from.                   *)
LEMMA SettingsPatch ==
  ASSUME SettingsInv, NEW c \in Cards, Settings!PatchCompany(c) PROVE SettingsInv'
<1>0. /\ card[c] \in CardRow /\ CardStands(card[c]) /\ Settings!Own(c) = Settings!FieldsOf(card[c].of)
      /\ Settings!Own(c) \subseteq Settings!Fields
      /\ \A d \in Cards \ {c} : CardsApart(card[c], card[d])
      /\ lost \subseteq Settings!Fields /\ saves \in 0..MaxSaves
      /\ company \in [Settings!Fields -> Settings!Values] /\ meant \in [Settings!Fields -> Settings!Values]
  BY CardFacts
<1>q. PICK q : q = [card[c] EXCEPT !.at = IF card[c].of \in CardKinds THEN "patched" ELSE "open",
                                !.typed = card[c].typed \cap CardKinds]
  OBVIOUS
<1>. DEFINE typed == (card[c].typed \cap Settings!Own(c)) \ CardKinds
            fields == card[c].form
<1>1. /\ card' = [card EXCEPT ![c] = q] /\ company' = Settings!Updated(c) /\ meant' = Settings!Meant(c, typed)
      /\ saves' = saves /\ card[c].at = "sent"
  BY <1>q, Zenon DEF Settings!PatchCompany, Settings!Card
<1>2. lost' = lost \cup (IF card[c].failed THEN Settings!Own(c) ELSE {})
                   \cup (IF card[c].of = "profile" /\ fields["state"] = 0 THEN {"state"} ELSE {})
  BY DEF Settings!PatchCompany
<1>3. /\ q \in CardRow /\ q.of = card[c].of /\ q.typed = card[c].typed \cap CardKinds
      /\ q.form = fields /\ q.failed = card[c].failed /\ q.at \in {"patched", "open"}
      /\ q.at = "patched" => q.of \in CardKinds
  BY <1>0, <1>q DEF CardRow
<1>4. card[c].of \in {"none", "profile", "links"} \cup CardKinds
  BY <1>0 DEF CardRow
<1>5. lost \subseteq lost' /\ lost' \subseteq Settings!Fields
  BY <1>0, <1>2 DEF Settings!Fields
<1>6. /\ company' \in [Settings!Fields -> Settings!Values]
      /\ \A f \in Settings!Fields : f \in CardKinds \/ f \notin Settings!Own(c) => company'[f] = company[f]
      /\ \A f \in Settings!Own(c) \ CardKinds :
              /\ f = "gstin" /\ fields[f] = 0 => company'[f] = company[f]
              /\ f = "gstin" /\ fields[f] # 0 => company'[f] = fields[f]
              /\ f = "state" /\ fields[f] # 0 => company'[f] = fields[f]
              /\ f \notin {"gstin", "state"} => company'[f] = fields[f]
  BY <1>1, WhatIsUpdated
<1>7. /\ meant' \in [Settings!Fields -> Settings!Values]
      /\ \A f \in Settings!Fields : meant'[f] = IF f \in typed /\ (f \in {"gstin", "state"} => fields[f] # 0)
                                       THEN fields[f] ELSE meant[f]
  <2>1. PICK S : S = typed
    OBVIOUS
  <2>. QED  BY <1>1, <2>1, WhatIsMeant
<1>8. "state" \in Settings!Own(c) /\ fields["state"] = 0 => "state" \in lost'
  <2>1. card[c].of = "profile" <=> "state" \in Settings!FieldsOf(card[c].of)
    BY <1>4, OwnFields
  <2>. QED  BY <1>0, <1>2, <2>1
<1>9. /\ card[c].failed \in BOOLEAN /\ (card[c].failed => Settings!Own(c) \subseteq lost')
      /\ ~ card[c].failed => \A f \in Settings!Own(c) \ (card[c].typed \cup lost) :
                               fields[f] = company[f] \/ (f = "gstin" /\ fields[f] = 0)
  BY <1>0, <1>1, <1>2 DEF CardStands, CardRow
<1>10. \A f \in Settings!Fields \ lost : company[f] = meant[f]
  BY DEF SettingsInv, Settings!SettingsKept
<1>. HIDE DEF fields
<1>11. Settings!SettingsKept'
  <2>1. ASSUME NEW f \in Settings!Fields \ lost' PROVE company'[f] = meant'[f]
    <3>1. CASE f \in CardKinds \/ f \notin Settings!Own(c)
      BY <1>5, <1>6, <1>7, <1>10, <3>1
    <3>2. CASE f \in Settings!Own(c) \ CardKinds
      <4>1. ~ card[c].failed /\ f \notin lost /\ company[f] = meant[f]
        BY <1>5, <1>9, <1>10, <3>2
      <4>2. f = "state" => fields[f] # 0
        BY <1>8, <3>2
      <4>3. CASE f = "gstin" /\ fields[f] = 0
        BY <1>6, <1>7, <3>2, <4>1, <4>3
      <4>4. CASE ~ (f = "gstin" /\ fields[f] = 0)
        <5>1. company'[f] = fields[f]
          BY <1>6, <3>2, <4>2, <4>4
        <5>2. CASE f \in card[c].typed
          BY <1>7, <3>2, <4>2, <4>4, <5>1, <5>2
        <5>3. CASE f \notin card[c].typed
          BY <1>7, <1>9, <3>2, <4>1, <4>4, <5>1, <5>3
        <5>. QED  BY <5>2, <5>3
      <4>. QED  BY <4>3, <4>4
    <3>. QED  BY <3>1, <3>2
  <2>. QED  BY <2>1 DEF Settings!SettingsKept, Settings!Fields
<1>12. CardStands(q)'
  <2>1. ASSUME ~ q.failed, NEW f \in Settings!FieldsOf(q.of) \ (q.typed \cup lost')
        PROVE  fields[f] = company'[f] \/ (f = "gstin" /\ fields[f] = 0)
    <3>1. f \in Settings!Own(c) /\ f \in Settings!Fields /\ f \notin lost
      BY <1>0, <1>3, <1>5
    <3>2. f = "state" => fields[f] # 0
      BY <1>8, <3>1
    <3>3. CASE f \in CardKinds
      BY <1>3, <1>6, <1>9, <2>1, <3>1, <3>3
    <3>4. CASE f \notin CardKinds
      BY <1>6, <3>1, <3>2, <3>4
    <3>. QED  BY <3>3, <3>4
  <2>2. q.typed \subseteq Settings!FieldsOf(q.of) /\ q.typed \subseteq CardKinds
    BY <1>0, <1>3 DEF CardStands
  <2>3. q.failed => Settings!FieldsOf(q.of) \subseteq lost'
    BY <1>0, <1>3, <1>9
  <2>. QED  BY <1>3, <2>1, <2>2, <2>3 DEF CardStands
<1>13. ASSUME NEW d \in Cards \ {c}
       PROVE  /\ \A f \in Settings!FieldsOf(card[d].of) \ lost' : company'[f] = company[f]
              /\ card[d].at = "read" => \A k \in CardKinds \ lost' : company'[k] = company[k]
  <2>1. Settings!FieldsOf(card[d].of) \subseteq Settings!Fields
    BY CardFacts
  <2>2. Settings!FieldsOf(card[d].of) \cap Settings!Own(c) \subseteq lost
    BY <1>0 DEF CardsApart
  <2>. QED  BY <1>5, <1>6, <2>1, <2>2 DEF Settings!Fields
<1>. QED  BY <1>1, <1>3, <1>5, <1>6, <1>7, <1>11, <1>12, <1>13, SettingsWrite

(* A layout is written into the map as it was read.                          *)
LEMMA SettingsWriteMap ==
  ASSUME SettingsInv, NEW c \in Cards, Settings!WriteMap(c) PROVE SettingsInv'
<1>0. /\ card[c] \in CardRow /\ CardStands(card[c]) /\ Settings!Own(c) = Settings!FieldsOf(card[c].of)
      /\ Settings!Own(c) \subseteq Settings!Fields
      /\ \A d \in Cards \ {c} : CardsApart(card[c], card[d])
      /\ lost \subseteq Settings!Fields /\ saves \in 0..MaxSaves
      /\ company \in [Settings!Fields -> Settings!Values] /\ meant \in [Settings!Fields -> Settings!Values]
  BY CardFacts
<1>q. PICK q : q = [card[c] EXCEPT !.at = "open", !.typed = {}, !.map = Settings!Shut.map]
  OBVIOUS
<1>. DEFINE of == card[c].of
            fields == card[c].form
<1>1. /\ card' = [card EXCEPT ![c] = q] /\ meant' = Settings!Meant(c, card[c].typed \cap CardKinds)
      /\ company' = [f \in Settings!Fields |-> IF f \in CardKinds THEN Settings!MapOf(c)[f] ELSE company[f]]
      /\ saves' = saves /\ lost' = lost /\ card[c].at = "read"
  BY <1>q, Zenon DEF Settings!WriteMap, Settings!Card
<1>2. Settings!Shut.map \in [CardKinds -> Settings!Values]
  BY ShutRow DEF CardRow
<1>3. /\ q \in CardRow /\ q.of = of /\ q.typed = {} /\ q.form = fields /\ q.failed = card[c].failed
      /\ q.at = "open"
  BY <1>0, <1>2, <1>q DEF CardRow
<1>4. /\ of \in CardKinds /\ card[c].typed \subseteq CardKinds /\ card[c].typed \subseteq Settings!Own(c)
      /\ \A k \in CardKinds \ lost : card[c].map[k] = company[k]
      /\ card[c].failed => Settings!Own(c) \subseteq lost
      /\ ~ card[c].failed => \A f \in Settings!Own(c) \ (card[c].typed \cup lost) :
                               fields[f] = company[f] \/ (f = "gstin" /\ fields[f] = 0)
  BY <1>0, <1>1 DEF CardStands
<1>5. /\ Settings!Own(c) = {"logo", of} /\ of \notin {"gstin", "state", "sales", "logo"} /\ of \in Settings!Fields
      /\ Settings!Own(c) \cap CardKinds \subseteq {of}
  BY <1>0, <1>4, OwnFields DEF CardRow, Settings!Fields
<1>6. fields \in [Settings!Fields -> Settings!Values] /\ card[c].map \in [CardKinds -> Settings!Values]
  BY <1>0 DEF CardRow
<1>7. /\ company' \in [Settings!Fields -> Settings!Values]
      /\ \A f \in Settings!Fields \ lost : f # of => company'[f] = company[f]
      /\ company'[of] = fields[of]
  BY <1>0, <1>1, <1>4, <1>5, <1>6 DEF Settings!MapOf, Settings!Fields
<1>8. /\ meant' \in [Settings!Fields -> Settings!Values]
      /\ \A f \in Settings!Fields : f # of => meant'[f] = meant[f]
      /\ meant'[of] = IF of \in card[c].typed THEN fields[of] ELSE meant[of]
  <2>1. PICK S : S = card[c].typed \cap CardKinds
    OBVIOUS
  <2>2. /\ meant' \in [Settings!Fields -> Settings!Values]
        /\ \A f \in Settings!Fields : meant'[f] = IF f \in S /\ (f \in {"gstin", "state"} => fields[f] # 0)
                                         THEN fields[f] ELSE meant[f]
    BY <1>1, <2>1, WhatIsMeant
  <2>. QED  BY <1>4, <1>5, <2>1, <2>2
<1>9. \A f \in Settings!Fields \ lost : company[f] = meant[f]
  BY DEF SettingsInv, Settings!SettingsKept
<1>10. card[c].failed \in BOOLEAN
  BY <1>0 DEF CardRow
<1>. HIDE DEF fields, of
<1>11. Settings!SettingsKept'
  <2>1. of \notin lost => company'[of] = meant'[of]
    BY <1>4, <1>5, <1>7, <1>8, <1>9, <1>10
  <2>2. ASSUME NEW f \in Settings!Fields \ lost PROVE company'[f] = meant'[f]
    BY <1>7, <1>8, <1>9, <2>1
  <2>. QED  BY <1>1, <2>2 DEF Settings!SettingsKept, Settings!Fields
<1>12. CardStands(q)'
  <2>1. ASSUME ~ q.failed, NEW f \in Settings!FieldsOf(q.of) \ (q.typed \cup lost')
        PROVE  q.form[f] = company'[f] \/ (f = "gstin" /\ q.form[f] = 0)
    <3>1. f \in Settings!Own(c) /\ f \in Settings!Fields /\ f \notin lost
      BY <1>0, <1>1, <1>3, <2>1 DEF of
    <3>2. CASE f = of
      BY <1>3, <1>7, <3>2
    <3>3. CASE f # of
      <4>1. f \notin card[c].typed
        BY <1>4, <1>5, <3>3
      <4>. QED  BY <1>3, <1>4, <1>7, <2>1, <3>1, <3>3, <4>1
    <3>. QED  BY <3>2, <3>3
  <2>. QED  BY <1>3, <2>1 DEF CardStands
<1>13. ASSUME NEW d \in Cards \ {c}
       PROVE  /\ \A f \in Settings!FieldsOf(card[d].of) \ lost' : company'[f] = company[f]
              /\ card[d].at = "read" => \A k \in CardKinds \ lost' : company'[k] = company[k]
  <2>1. Settings!FieldsOf(card[d].of) \subseteq Settings!Fields
    BY CardFacts
  <2>2. Settings!FieldsOf(card[d].of) \cap Settings!Own(c) \subseteq lost /\ (card[d].at = "read" => CardKinds \subseteq lost)
    BY <1>0, <1>1 DEF CardsApart
  <2>. QED  BY <1>1, <1>5, <1>7, <2>1, <2>2
<1>14. lost' \subseteq Settings!Fields /\ lost \subseteq lost'
  BY <1>0, <1>1
<1>. QED  BY <1>1, <1>3, <1>7, <1>8, <1>11, <1>12, <1>13, <1>14, SettingsWrite DEF of

(* Every step keeps the settings.                                            *)
LEMMA SettingsNext == SettingsInv /\ [Settings!Next]_(Settings!vars) => SettingsInv'
<1>1. ASSUME SettingsInv, UNCHANGED Settings!vars PROVE SettingsInv'
  <2>1. SettingsTyped' /\ Settings!SettingsKept'
    BY <1>1 DEF Settings!vars, SettingsInv, SettingsTyped, Settings!SettingsKept
  <2>2. \A q : (CardStands(q) => CardStands(q)') /\ \A s : CardsApart(q, s) => CardsApart(q, s)'
    BY <1>1 DEF Settings!vars, CardStands, CardsApart
  <2>3. /\ (\A c \in Cards : CardStands(card[c]))'
        /\ (\A c, d \in Cards : c # d => CardsApart(card[c], card[d]))'
    BY <1>1 DEF Settings!vars, SettingsInv, CardStands, CardsApart
  <2>. QED  BY <2>1, <2>3 DEF SettingsInv
<1>. QED  BY <1>1, SettingsMount, SettingsType, SettingsLoaded, SettingsLoadFailed, SettingsSave,
             SettingsPatch, SettingsReadMap, SettingsWriteMap, SettingsSaveFails, SettingsUnmount DEF Settings!Next

(* ... and so what is stored is what was meant.                              *)
LEMMA SettingsShown == SettingsInv => Settings!SettingsKept /\ Settings!TypeOK
<1>1. ASSUME SettingsInv, NEW c \in Cards PROVE card[c].typed \subseteq Settings!Own(c) /\ card[c].form \in [Settings!Fields -> Settings!Values]
  BY <1>1, CardFacts DEF CardRow, CardStands
<1>. QED  BY <1>1 DEF SettingsInv, SettingsTyped, Settings!TypeOK


-----------------------------------------------------------------------------
(* The draft of a party: what it holds of the party, typed fields aside. *)

DraftRow == [id : Edited, nr : Nat, row : PartyForm!Rows, typed : SUBSET {"alias", "image"},
             sound : BOOLEAN, waits : BOOLEAN]
SentRow == [id : Edited, row : PartyForm!Rows, typed : SUBSET {"alias", "image"}, sound : BOOLEAN]
FetchRow == [of : Edited, at : {"asked", "served", "over"}, row : PartyForm!Rows]

DraftTyped ==
  /\ party \in [Edited -> PartyForm!Rows] /\ list \in [Edited -> PartyForm!Rows] /\ others \in 0..MaxOthers
  /\ fetch \in Seq(FetchRow) /\ PartyForm!Opened <= MaxOpened
  /\ draft # None => draft \in DraftRow
  /\ sent # None => sent \in SentRow

(* What a sound draft holds of its party, typed fields aside, and what the answer
   to its opening would bring. *)
DraftStands(d) ==
  /\ d.nr \in 1..PartyForm!Opened /\ fetch[d.nr].of = d.id
  /\ d.sound =>
       /\ "alias" \notin d.typed => d.row.alias = party[d.id].alias
       /\ ~ d.waits /\ "image" \notin d.typed => d.row.image = party[d.id].image
       /\ fetch[d.nr].at = "served" => fetch[d.nr].row = party[d.id]

SentStands(s) ==
  s.sound => /\ "alias" \notin s.typed => s.row.alias = party[s.id].alias
             /\ "image" \notin s.typed => s.row.image = party[s.id].image

DraftInv ==
  DraftTyped /\ (draft # None => DraftStands(draft)) /\ (sent # None => SentStands(sent))

(* No draft is open at first.                                                *)
LEMMA DraftInit == PartyForm!Init => DraftInv
<1>1. PartyForm!Row0 \in PartyForm!Rows
  BY DraftAssumption DEF PartyForm!Row0, PartyForm!Rows
<1>. QED  BY <1>1, DraftAssumption DEF PartyForm!Init, DraftInv, DraftTyped, PartyForm!Opened

(* A draft opened is as its row is listed, and waits for its own answer.     *)
LEMMA DraftOpen ==
  ASSUME DraftInv, NEW p \in Edited, PartyForm!StartEdit(p) PROVE DraftInv'
<1>1. PICK b \in BOOLEAN : b = (sent = None /\ list[p] = party[p])
  OBVIOUS
<1>2. PICK rec : rec = [list[p] EXCEPT !.image = 0]
  OBVIOUS
<1>3. PICK new : new = [id |-> p, nr |-> PartyForm!Opened + 1, row |-> rec, typed |-> {}, sound |-> b, waits |-> TRUE]
  OBVIOUS
<1>4. PICK ask : ask = [of |-> p, at |-> "asked", row |-> PartyForm!Row0]
  OBVIOUS
<1>5. draft' = new /\ fetch' = Append(fetch, ask) /\ UNCHANGED <<party, list, sent, others>> /\ PartyForm!Opened < MaxOpened
  BY <1>1, <1>2, <1>3, <1>4, Zenon DEF PartyForm!StartEdit
<1>6. rec \in PartyForm!Rows /\ rec.alias = list[p].alias
  <2>1. list[p] \in PartyForm!Rows /\ 0 \in 0..MaxImage
    BY DraftAssumption DEF DraftInv, DraftTyped
  <2>. QED  BY <1>2, <2>1 DEF PartyForm!Rows
<1>7. PartyForm!Row0 \in PartyForm!Rows
  BY DraftAssumption DEF PartyForm!Row0, PartyForm!Rows
<1>8. ask \in FetchRow /\ ask.of = p /\ ask.at = "asked"
  BY <1>4, <1>7 DEF FetchRow
<1>9. fetch \in Seq(FetchRow) /\ Len(fetch) \in Nat
  BY DEF DraftInv, DraftTyped
<1>10. fetch' \in Seq(FetchRow) /\ Len(fetch') = Len(fetch) + 1 /\ fetch'[Len(fetch) + 1] = ask
  BY <1>5, <1>8, <1>9
<1>11. /\ new \in DraftRow /\ new.nr = Len(fetch) + 1 /\ new.id = p /\ new.typed = {} /\ new.row = rec
       /\ new.waits = TRUE /\ new.sound = b
  BY <1>3, <1>6, <1>9 DEF DraftRow, PartyForm!Opened
<1>12. DraftStands(new)'
  <2>1. b => rec.alias = party[p].alias
    BY <1>1, <1>6
  <2>. QED  BY <1>5, <1>8, <1>9, <1>10, <1>11, <2>1 DEF DraftStands, PartyForm!Opened
<1>13. DraftTyped'
  BY <1>5, <1>9, <1>10, <1>11, DraftAssumption DEF DraftInv, DraftTyped, PartyForm!Opened
<1>14. (sent # None => SentStands(sent))'
  BY <1>5 DEF DraftInv, SentStands
<1>15. (draft # None => DraftStands(draft))'
  BY <1>5, <1>12 DEF DraftStands
<1>. QED  BY <1>13, <1>14, <1>15 DEF DraftInv

(* A fetch that goes on, whatever draft it was for.                          *)
LEMMA FetchStep ==
  ASSUME DraftInv, NEW n \in DOMAIN fetch, NEW e \in FetchRow, fetch' = [fetch EXCEPT ![n] = e],
         e.of = fetch[n].of, e.at = "served" => e.row = party[e.of],
         UNCHANGED <<party, list, draft, sent, others>>
  PROVE  DraftInv'
<1>1. fetch \in Seq(FetchRow) /\ n \in 1..Len(fetch)
  BY DEF DraftInv, DraftTyped
<1>2. /\ fetch' \in Seq(FetchRow) /\ Len(fetch') = Len(fetch)
      /\ \A j \in 1..Len(fetch) : fetch'[j] = IF j = n THEN e ELSE fetch[j]
  BY <1>1, ExceptSeq
<1>3. DraftTyped'
  BY <1>2 DEF DraftInv, DraftTyped, PartyForm!Opened
<1>4. (draft # None => DraftStands(draft))'
  BY <1>1, <1>2 DEF DraftInv, DraftStands, PartyForm!Opened
<1>5. (sent # None => SentStands(sent))'
  BY DEF DraftInv, SentStands
<1>. QED  BY <1>3, <1>4, <1>5 DEF DraftInv

(* The fetches are numbered.                                                 *)
LEMMA FetchFact ==
  ASSUME DraftInv, NEW n \in DOMAIN fetch PROVE fetch[n] \in FetchRow /\ n \in 1..Len(fetch)
<1>1. fetch \in Seq(FetchRow)
  BY DEF DraftInv, DraftTyped
<1>. QED  BY <1>1, ElementOfSeq

(* An answer is what is stored.                                              *)
LEMMA DraftServed ==
  ASSUME DraftInv, NEW n \in DOMAIN fetch, PartyForm!Served(n) PROVE DraftInv'
<1>1. fetch[n] \in FetchRow
  BY FetchFact
<1>2. PICK mid : mid = [fetch[n] EXCEPT !.at = "served"]
  OBVIOUS
<1>3. PICK e : e = [mid EXCEPT !.row = party[fetch[n].of]]
  OBVIOUS
<1>4. mid \in FetchRow /\ mid.of = fetch[n].of
  BY <1>1, <1>2 DEF FetchRow
<1>5. party[fetch[n].of] \in PartyForm!Rows
  BY <1>1 DEF FetchRow, DraftInv, DraftTyped
<1>6. e \in FetchRow /\ e.of = fetch[n].of /\ e.row = party[fetch[n].of]
  BY <1>3, <1>4, <1>5 DEF FetchRow
<1>7. fetch' = [fetch EXCEPT ![n] = e] /\ UNCHANGED <<party, list, draft, sent, others>>
  BY <1>2, <1>3 DEF PartyForm!Served
<1>. QED  BY <1>6, <1>7, FetchStep

(* A fetch that fails answers nothing.                                       *)
LEMMA DraftFetchFails ==
  ASSUME DraftInv, NEW n \in DOMAIN fetch, PartyForm!FetchFails(n) PROVE DraftInv'
<1>1. fetch[n] \in FetchRow /\ PartyForm!Row0 \in PartyForm!Rows
  BY FetchFact, DraftAssumption DEF PartyForm!Row0, PartyForm!Rows
<1>2. PICK mid : mid = [fetch[n] EXCEPT !.at = "over"]
  OBVIOUS
<1>3. PICK e : e = [mid EXCEPT !.row = PartyForm!Row0]
  OBVIOUS
<1>4. mid \in FetchRow /\ mid.of = fetch[n].of /\ mid.at = "over"
  BY <1>1, <1>2 DEF FetchRow
<1>6. e \in FetchRow /\ e.of = fetch[n].of /\ e.at = "over"
  BY <1>1, <1>3, <1>4 DEF FetchRow
<1>7. fetch' = [fetch EXCEPT ![n] = e] /\ UNCHANGED <<party, list, draft, sent, others>>
  BY <1>2, <1>3 DEF PartyForm!FetchFails
<1>. QED  BY <1>6, <1>7, FetchStep

(* The answer to its opening completes a draft.                              *)
LEMMA DraftFetched ==
  ASSUME DraftInv, NEW n \in DOMAIN fetch, PartyForm!Fetched(n) PROVE DraftInv'
<1>1. fetch[n] \in FetchRow /\ PartyForm!Row0 \in PartyForm!Rows /\ n \in 1..Len(fetch) /\ fetch \in Seq(FetchRow)
  BY FetchFact, DraftAssumption DEF PartyForm!Row0, PartyForm!Rows, DraftInv, DraftTyped
<1>2. PICK mid : mid = [fetch[n] EXCEPT !.at = "over"]
  OBVIOUS
<1>3. PICK e : e = [mid EXCEPT !.row = PartyForm!Row0]
  OBVIOUS
<1>4. mid \in FetchRow /\ mid.of = fetch[n].of /\ mid.at = "over"
  BY <1>1, <1>2 DEF FetchRow
<1>5. e \in FetchRow /\ e.of = fetch[n].of /\ e.at = "over"
  BY <1>1, <1>3, <1>4 DEF FetchRow
<1>6. fetch' = [fetch EXCEPT ![n] = e] /\ UNCHANGED <<party, list, sent, others>> /\ fetch[n].at = "served"
  BY <1>2, <1>3 DEF PartyForm!Fetched
<1>7. CASE ~ PartyForm!IsFor(n, draft)
  <2>1. draft' = draft
    BY <1>7 DEF PartyForm!Fetched
  <2>. QED  BY <1>5, <1>6, <2>1, FetchStep
<1>8. CASE PartyForm!IsFor(n, draft)
  <2>1. /\ draft # None /\ draft.id = fetch[n].of /\ draft \in DraftRow /\ DraftStands(draft)
    BY <1>8 DEF PartyForm!IsFor, DraftInv, DraftTyped
  <2>2. PICK w \in BOOLEAN : w = (draft.waits /\ n # draft.nr)
    OBVIOUS
  <2>3. PICK b \in BOOLEAN :
          b = (draft.sound /\ (draft.id = fetch[n].of => n = draft.nr /\ draft.typed = {}))
    OBVIOUS
  <2>4. PICK rec : rec = [draft.row EXCEPT !.image = fetch[n].row.image]
    OBVIOUS
  <2>5. PICK d1 : d1 = [draft EXCEPT !.row = rec]
    OBVIOUS
  <2>6. PICK d2 : d2 = [d1 EXCEPT !.waits = w]
    OBVIOUS
  <2>7. PICK d : d = [d2 EXCEPT !.sound = b]
    OBVIOUS
  <2>8. draft' = d
    <3>1. draft' = [draft EXCEPT !.row.image = fetch[n].row.image, !.waits = @ /\ n # draft.nr,
                         !.sound = @ /\ (draft.id = fetch[n].of => n = draft.nr /\ draft.typed = {})]
      BY <1>8 DEF PartyForm!Fetched
    <3>. QED  BY <2>1, <2>2, <2>3, <2>4, <2>5, <2>6, <2>7, <3>1 DEF DraftRow
  <2>9. rec \in PartyForm!Rows /\ rec.alias = draft.row.alias /\ rec.image = fetch[n].row.image
    BY <1>1, <2>1, <2>4 DEF PartyForm!Rows, DraftRow, FetchRow
  <2>10. /\ d1 \in DraftRow /\ d1.id = draft.id /\ d1.nr = draft.nr /\ d1.typed = draft.typed
         /\ d1.row = rec /\ d1.sound = draft.sound
    BY <2>1, <2>5, <2>9 DEF DraftRow
  <2>11. /\ d2 \in DraftRow /\ d2.id = draft.id /\ d2.nr = draft.nr /\ d2.typed = draft.typed
         /\ d2.row = rec /\ d2.waits = w
    BY <2>6, <2>10 DEF DraftRow
  <2>12. /\ d \in DraftRow /\ d.id = draft.id /\ d.nr = draft.nr /\ d.typed = draft.typed
         /\ d.row = rec /\ d.waits = w /\ d.sound = b
    BY <2>7, <2>11 DEF DraftRow
  <2>13. /\ fetch' \in Seq(FetchRow) /\ Len(fetch') = Len(fetch)
         /\ \A j \in 1..Len(fetch) : fetch'[j] = IF j = n THEN e ELSE fetch[j]
    BY <1>1, <1>5, <1>6, ExceptSeq
  <2>14. b => /\ draft.sound /\ n = draft.nr /\ draft.typed = {} /\ fetch[n].row = party[draft.id]
              /\ draft.row.alias = party[draft.id].alias
    BY <1>6, <2>1, <2>3 DEF DraftStands
  <2>15. DraftStands(d)'
    BY <1>1, <1>5, <1>6, <2>1, <2>9, <2>12, <2>13, <2>14 DEF DraftStands, PartyForm!Opened
  <2>16. DraftTyped'
    BY <1>6, <2>8, <2>12, <2>13 DEF DraftInv, DraftTyped, PartyForm!Opened
  <2>17. (sent # None => SentStands(sent))'
    BY <1>6 DEF DraftInv, SentStands
  <2>18. (draft # None => DraftStands(draft))'
    BY <2>8, <2>15 DEF DraftStands
  <2>. QED  BY <2>16, <2>17, <2>18 DEF DraftInv
<1>. QED  BY <1>7, <1>8

(* What is typed no longer stands for what is stored.                        *)
LEMMA DraftType ==
  ASSUME DraftInv, NEW f \in {"alias", "image"}, NEW v, PartyForm!Type(f, v),
         v \in IF f = "alias" THEN 0..1 ELSE 0..MaxImage
  PROVE DraftInv'
<1>1. draft # None /\ draft \in DraftRow /\ DraftStands(draft) /\ UNCHANGED <<party, list, fetch, sent, others>>
  BY DEF PartyForm!Type, DraftInv, DraftTyped
<1>2. PICK rec : rec = [draft.row EXCEPT ![f] = v]
  OBVIOUS
<1>3. PICK d1 : d1 = [draft EXCEPT !.row = rec]
  OBVIOUS
<1>4. PICK d : d = [d1 EXCEPT !.typed = draft.typed \cup {f}]
  OBVIOUS
<1>5. /\ rec \in PartyForm!Rows
      /\ f # "alias" => rec.alias = draft.row.alias
      /\ f # "image" => rec.image = draft.row.image
  <2>1. draft.row \in PartyForm!Rows
    BY <1>1 DEF DraftRow
  <2>2. CASE f = "alias"
    BY <1>2, <2>1, <2>2 DEF PartyForm!Rows
  <2>3. CASE f = "image"
    BY <1>2, <2>1, <2>3 DEF PartyForm!Rows
  <2>. QED  BY <2>2, <2>3
<1>6. /\ d1 \in DraftRow /\ d1.id = draft.id /\ d1.nr = draft.nr /\ d1.typed = draft.typed
      /\ d1.row = rec /\ d1.sound = draft.sound /\ d1.waits = draft.waits
  BY <1>1, <1>3, <1>5 DEF DraftRow
<1>7. /\ d \in DraftRow /\ d.id = draft.id /\ d.nr = draft.nr /\ d.typed = draft.typed \cup {f}
      /\ d.row = rec /\ d.sound = draft.sound /\ d.waits = draft.waits
  BY <1>1, <1>4, <1>6 DEF DraftRow
<1>8. draft' = d
  <2>1. draft' = [draft EXCEPT !.row[f] = v, !.typed = @ \cup {f}]
    BY DEF PartyForm!Type
  <2>. QED  BY <1>1, <1>2, <1>3, <1>4, <2>1 DEF DraftRow
<1>9. DraftStands(d)'
  BY <1>1, <1>5, <1>7 DEF DraftStands, PartyForm!Opened
<1>10. DraftTyped'
  BY <1>1, <1>7, <1>8 DEF DraftInv, DraftTyped, PartyForm!Opened
<1>11. (sent # None => SentStands(sent))'
  BY <1>1 DEF DraftInv, SentStands
<1>12. (draft # None => DraftStands(draft))'
  BY <1>8, <1>9 DEF DraftStands
<1>. QED  BY <1>10, <1>11, <1>12 DEF DraftInv

(* A draft closed is gone.                                                   *)
LEMMA DraftClose == ASSUME DraftInv, PartyForm!Close PROVE DraftInv'
BY DEF PartyForm!Close, DraftInv, DraftTyped, DraftStands, SentStands, PartyForm!Opened

(* A draft is sent as it stands.                                             *)
LEMMA DraftSubmit == ASSUME DraftInv, PartyForm!Submit PROVE DraftInv'
<1>1. draft # None /\ draft \in DraftRow /\ DraftStands(draft) /\ UNCHANGED <<party, list, draft, fetch, others>>
  BY DEF PartyForm!Submit, DraftInv, DraftTyped
<1>2. PICK b \in BOOLEAN : b = (draft.sound /\ ~ draft.waits)
  OBVIOUS
<1>3. PICK s : s = [id |-> draft.id, row |-> draft.row, typed |-> draft.typed, sound |-> b]
  OBVIOUS
<1>4. sent' = s
  BY <1>2, <1>3 DEF PartyForm!Submit
<1>5. s \in SentRow
  BY <1>1, <1>3 DEF SentRow, DraftRow
<1>6. SentStands(s)'
  BY <1>1, <1>2, <1>3 DEF SentStands, DraftStands
<1>7. DraftTyped'
  BY <1>1, <1>4, <1>5 DEF DraftInv, DraftTyped, PartyForm!Opened
<1>8. (draft # None => DraftStands(draft))'
  BY <1>1 DEF DraftStands, PartyForm!Opened
<1>9. (sent # None => SentStands(sent))'
  BY <1>4, <1>6 DEF SentStands
<1>. QED  BY <1>7, <1>8, <1>9 DEF DraftInv

(* What a save writes: the alias, if it is not empty, and the image.           *)
LEMMA PatchedRow ==
  ASSUME NEW old \in PartyForm!Rows, NEW new \in PartyForm!Rows
  PROVE  /\ PartyForm!Patched(old, new) \in PartyForm!Rows
         /\ PartyForm!Patched(old, new).alias = IF new.alias = 0 THEN old.alias ELSE new.alias
         /\ PartyForm!Patched(old, new).image = new.image
BY DEF PartyForm!Patched, PartyForm!Rows

(* The save stores what was sent.                                            *)
LEMMA DraftSaved == ASSUME DraftInv, PartyForm!Saved PROVE DraftInv'
<1>1. /\ sent # None /\ sent \in SentRow /\ party' = [party EXCEPT ![sent.id] = PartyForm!Patched(@, sent.row)]
      /\ list' = party' /\ draft' = None /\ sent' = None /\ UNCHANGED <<fetch, others>>
  BY DEF PartyForm!Saved, DraftInv, DraftTyped
<1>2. party' \in [Edited -> PartyForm!Rows]
  BY <1>1, PatchedRow DEF DraftInv, DraftTyped, SentRow
<1>. QED  BY <1>1, <1>2 DEF DraftInv, DraftTyped, PartyForm!Opened

(* A save that fails stores nothing.                                         *)
LEMMA DraftSaveFails == ASSUME DraftInv, PartyForm!SaveFails PROVE DraftInv'
<1>1. /\ sent # None /\ sent \in SentRow /\ sent' = None /\ UNCHANGED <<list, fetch, others>>
      /\ party' \in {party, [party EXCEPT ![sent.id] = PartyForm!Patched(@, sent.row)]}
  BY DEF PartyForm!SaveFails, DraftInv, DraftTyped
<1>2. /\ party' \in [Edited -> PartyForm!Rows]
      /\ \A p \in Edited : p # sent.id => party'[p] = party[p]
  BY <1>1, PatchedRow DEF DraftInv, DraftTyped, SentRow
<1>3. CASE draft = None
  BY <1>1, <1>2, <1>3 DEF PartyForm!SaveFails, DraftInv, DraftTyped, PartyForm!Opened
<1>4. CASE draft # None
  <2>1. draft \in DraftRow /\ DraftStands(draft)
    BY <1>4 DEF DraftInv, DraftTyped
  <2>2. PICK b \in BOOLEAN : b = (draft.sound /\ (party' = party \/ draft.id # sent.id))
    OBVIOUS
  <2>3. PICK d : d = [draft EXCEPT !.sound = b]
    OBVIOUS
  <2>4. draft' = d
    BY <1>4, <2>2, <2>3 DEF PartyForm!SaveFails
  <2>5. /\ d \in DraftRow /\ d.id = draft.id /\ d.nr = draft.nr /\ d.typed = draft.typed
        /\ d.row = draft.row /\ d.waits = draft.waits /\ d.sound = b
    BY <2>1, <2>3 DEF DraftRow
  <2>6. b => draft.sound /\ party'[draft.id] = party[draft.id]
    BY <1>2, <2>1, <2>2 DEF DraftRow
  <2>7. DraftStands(d)'
    BY <1>1, <2>1, <2>5, <2>6 DEF DraftStands, PartyForm!Opened
  <2>8. DraftTyped'
    BY <1>1, <1>2, <2>4, <2>5 DEF DraftInv, DraftTyped, PartyForm!Opened
  <2>9. (draft # None => DraftStands(draft))'
    BY <2>4, <2>7 DEF DraftStands
  <2>. QED  BY <1>1, <2>8, <2>9 DEF DraftInv
<1>. QED  BY <1>3, <1>4

(* A save of somebody else makes the drafts of that party unsound.           *)
LEMMA DraftElsewhere ==
  ASSUME DraftInv, NEW p \in Edited, NEW rec \in PartyForm!Rows, PartyForm!Elsewhere(p, rec) PROVE DraftInv'
<1>1. /\ others' \in 0..MaxOthers /\ party' = [party EXCEPT ![p] = rec] /\ UNCHANGED <<list, fetch>>
  BY DraftAssumption DEF PartyForm!Elsewhere, DraftInv, DraftTyped
<1>2. /\ party' \in [Edited -> PartyForm!Rows]
      /\ \A q \in Edited : q # p => party'[q] = party[q]
  BY <1>1 DEF DraftInv, DraftTyped
<1>3. ASSUME draft' # None PROVE draft' \in DraftRow /\ DraftStands(draft)'
  <2>1. draft # None /\ draft \in DraftRow /\ DraftStands(draft)
    BY <1>3 DEF PartyForm!Elsewhere, DraftInv, DraftTyped
  <2>2. PICK b \in BOOLEAN : b = (draft.sound /\ draft.id # p)
    OBVIOUS
  <2>3. PICK d : d = [draft EXCEPT !.sound = b]
    OBVIOUS
  <2>4. draft' = d
    BY <2>1, <2>2, <2>3 DEF PartyForm!Elsewhere
  <2>5. /\ d \in DraftRow /\ d.id = draft.id /\ d.nr = draft.nr /\ d.typed = draft.typed
        /\ d.row = draft.row /\ d.waits = draft.waits /\ d.sound = b
    BY <2>1, <2>3 DEF DraftRow
  <2>6. b => draft.sound /\ party'[draft.id] = party[draft.id]
    BY <1>2, <2>1, <2>2 DEF DraftRow
  <2>7. DraftStands(d)'
    BY <1>1, <2>1, <2>5, <2>6 DEF DraftStands, PartyForm!Opened
  <2>. QED  BY <2>4, <2>5, <2>7 DEF DraftStands
<1>4. ASSUME sent' # None PROVE sent' \in SentRow /\ SentStands(sent)'
  <2>1. sent # None /\ sent \in SentRow /\ SentStands(sent)
    BY <1>4 DEF PartyForm!Elsewhere, DraftInv, DraftTyped
  <2>2. PICK b \in BOOLEAN : b = (sent.sound /\ sent.id # p)
    OBVIOUS
  <2>3. PICK s : s = [sent EXCEPT !.sound = b]
    OBVIOUS
  <2>4. sent' = s
    BY <2>1, <2>2, <2>3 DEF PartyForm!Elsewhere
  <2>5. /\ s \in SentRow /\ s.id = sent.id /\ s.typed = sent.typed /\ s.row = sent.row /\ s.sound = b
    BY <2>1, <2>3 DEF SentRow
  <2>6. b => sent.sound /\ party'[sent.id] = party[sent.id]
    BY <1>2, <2>1, <2>2 DEF SentRow
  <2>7. SentStands(s)'
    BY <2>1, <2>5, <2>6 DEF SentStands
  <2>. QED  BY <2>4, <2>5, <2>7 DEF SentStands
<1>5. DraftTyped'
  BY <1>1, <1>2, <1>3, <1>4 DEF DraftInv, DraftTyped, PartyForm!Opened
<1>. QED  BY <1>3, <1>4, <1>5 DEF DraftInv

(* Every step keeps the drafts.                                              *)
LEMMA DraftNext == DraftInv /\ [PartyForm!Next]_(PartyForm!vars) => DraftInv'
<1>1. ASSUME DraftInv, UNCHANGED PartyForm!vars PROVE DraftInv'
  BY <1>1 DEF PartyForm!vars, DraftInv, DraftTyped, DraftStands, SentStands, PartyForm!Opened
<1>2. ASSUME DraftInv, NEW v \in 0..1, PartyForm!Type("alias", v) PROVE DraftInv'
  BY <1>2, DraftType
<1>3. ASSUME DraftInv, NEW v \in 0..MaxImage, PartyForm!Type("image", v) PROVE DraftInv'
  BY <1>3, DraftType
<1>. QED  BY <1>1, <1>2, <1>3, DraftOpen, DraftElsewhere, DraftServed, DraftFetchFails, DraftFetched, DraftClose,
             DraftSubmit, DraftSaved, DraftSaveFails, Zenon DEF PartyForm!Next

(* Only the answer to a save changes a row of the list.                      *)
LEMMA OnlySavedLists == [PartyForm!Next]_(PartyForm!vars) /\ list' # list => PartyForm!Saved
BY Zenon DEF PartyForm!Next, PartyForm!vars, PartyForm!StartEdit, PartyForm!Elsewhere, PartyForm!Served,
   PartyForm!FetchFails, PartyForm!Fetched, PartyForm!Type, PartyForm!Close, PartyForm!Submit,
   PartyForm!SaveFails

(* A sound save stores what was typed, and what was stored.                  *)
LEMMA DraftSaves == DraftInv /\ [PartyForm!Next]_(PartyForm!vars) => PartyForm!SaveChangesTyped
<1>. SUFFICES ASSUME DraftInv, [PartyForm!Next]_(PartyForm!vars), sent # None, list' # list, sent.sound
              PROVE  party' = [party EXCEPT ![sent.id] =
                 [f \in DOMAIN @ |->
                    IF f \in sent.typed /\ (f = "alias" => sent.row[f] # 0)
                    THEN sent.row[f] ELSE @[f]]]
  BY DEF PartyForm!SaveChangesTyped
<1>1. party' = [party EXCEPT ![sent.id] = PartyForm!Patched(@, sent.row)]
  BY OnlySavedLists DEF PartyForm!Saved
<1>2. sent \in SentRow /\ SentStands(sent) /\ party \in [Edited -> PartyForm!Rows]
  BY DEF DraftInv, DraftTyped
<1>3. PICK old : old = party[sent.id]
  OBVIOUS
<1>4. old \in PartyForm!Rows /\ sent.row \in PartyForm!Rows
  BY <1>2, <1>3 DEF SentRow
<1>5. PICK g : g = [f \in DOMAIN old |-> IF f \in sent.typed /\ (f = "alias" => sent.row[f] # 0)
                                         THEN sent.row[f] ELSE old[f]]
  OBVIOUS
<1>6. g = PartyForm!Patched(old, sent.row)
  <2>1. DOMAIN old = {"alias", "image"}
    BY <1>4 DEF PartyForm!Rows
  <2>2. g.alias = IF "alias" \in sent.typed /\ sent.row.alias # 0 THEN sent.row.alias ELSE old.alias
    BY <1>5, <2>1
  <2>3. g.image = IF "image" \in sent.typed THEN sent.row.image ELSE old.image
    BY <1>5, <2>1
  <2>4. g.alias = PartyForm!Patched(old, sent.row).alias
    BY <1>2, <1>3, <1>4, <2>2, PatchedRow DEF SentStands
  <2>5. g.image = PartyForm!Patched(old, sent.row).image
    BY <1>2, <1>3, <1>4, <2>3, PatchedRow DEF SentStands
  <2>6. g = [alias |-> g.alias, image |-> g.image]
    BY <1>5, <2>1
  <2>7. PartyForm!Patched(old, sent.row) \in PartyForm!Rows
    BY <1>4, PatchedRow
  <2>. QED  BY <2>4, <2>5, <2>6, <2>7 DEF PartyForm!Rows
<1>. QED  BY <1>1, <1>3, <1>5, <1>6


-----------------------------------------------------------------------------
(* The lists of documents: whatever is stored is sound, and the lists are the newest of
   what is stored. *)
(* Bills and invoices are issued or cancelled and not overpaid; an estimate that was
   converted, and no other document, has a sale, which is still there. *)
DocSound(doc) ==
  /\ doc.kind # "estimate" => doc.status \in {"ISSUED", "CANCELLED"} /\ doc.paid <= doc.total
  /\ doc.kind = "estimate" => doc.status # "ISSUED"
  /\ doc.status = "CONVERTED" => doc.sale \in Lists!Stored
  /\ doc.status # "CONVERTED" => doc.sale = None

DocsSound ==
  /\ stored \in [DocIds -> ListDoc \cup {None, Gone}]
  /\ \A d \in Lists!Stored : DocSound(stored[d])

Actions == {"pay", "accept", "decline", "convert", "cancel", "delete"}

IsCall(q) ==
  \/ q = Lists!Idle
  \/ \E d \in DocIds, what \in Actions, amount \in Nat : q = [at |-> "sent", doc |-> d, what |-> what, amount |-> amount]
  \/ \E got : q = [at |-> "loading", got |-> got] /\ DOMAIN got \subseteq Lists!Fetches

StoredRows == Lists!Rows(Lists!Kinds)

(* While nothing else happens one handler waits, what a reload has fetched is as it is
   stored, and so is what the page shows when none is under way. *)
CalmLists ==
  /\ \A b, c \in Calls : b # c => waits[b] = Lists!Idle \/ waits[c] = Lists!Idle
  /\ \A c \in Calls : waits[c].at = "loading" => \A k \in DOMAIN waits[c].got : waits[c].got[k] = Lists!Rows(k)
  /\ (\A c \in Calls : waits[c].at # "loading") /\ shown # None => shown = StoredRows

ListsInv ==
  /\ DocsSound
  /\ DOMAIN waits = Calls /\ waits = [c \in Calls |-> waits[c]] /\ \A c \in Calls : IsCall(waits[c])
  /\ still \in BOOLEAN /\ (still => CalmLists)

(* What is stored is a document, and sound.                                  *)
LEMMA StoredDocs ==
  ASSUME DocsSound, NEW d \in Lists!Stored
  PROVE  stored[d] \in ListDoc /\ d \in DocIds /\ DocSound(stored[d])
BY DEF DocsSound, Lists!Stored

(* The documents stored, of those there will be.                             *)
LEMMA StoredIs ==
  ASSUME stored' \in [DocIds -> ListDoc \cup {None, Gone}]
  PROVE  Lists!Stored' = {d \in DocIds : stored'[d] \in ListDoc}
BY ListAssumption DEF Lists!Stored

(* The number a document is created as.                                      *)
LEMMA MadeNat == Lists!Made \in Nat
<1>1. Cardinality(DocIds \ Lists!Unused) \in Nat
  BY ListAssumption, FS_Subset, FS_CardinalityType
<1>2. \A S : Lists!Cardinality(S) = Cardinality(S)
  BY DEF Lists!Cardinality, Cardinality
<1>. QED  BY <1>1, <1>2 DEF Lists!Made

(* A list has the newest documents of its kinds, each as it is stored.        *)
LEMMA ListedRows ==
  ASSUME NEW kinds
  PROVE  /\ \A d : d \in DOMAIN Lists!Rows(kinds)
                   <=> d \in Lists!Stored /\ stored[d].kind \in kinds /\ d \in Lists!Newest(stored[d].kind)
         /\ \A d \in DOMAIN Lists!Rows(kinds) : Lists!Rows(kinds)[d] = Lists!Row(stored[d])
<1>1. \A kind : \A d \in Lists!Newest(kind) : d \in Lists!Stored /\ stored[d].kind = kind
  BY DEF Lists!Newest, Lists!OfYear
<1>. DEFINE D == UNION {Lists!Newest(kind) : kind \in kinds}
<1>2. Lists!Rows(kinds) = [d \in D |-> Lists!Row(stored[d])]
  BY Zenon DEF Lists!Rows
<1>3. \A d : d \in D <=> \E kind \in kinds : d \in Lists!Newest(kind)
  OBVIOUS
<1>. HIDE DEF D
<1>4. DOMAIN Lists!Rows(kinds) = D /\ \A d \in D : Lists!Rows(kinds)[d] = Lists!Row(stored[d])
  BY <1>2
<1>. QED  BY <1>1, <1>3, <1>4, Zenon

(* A document as it is entered.                                              *)
LEMMA EnteredDoc ==
  ASSUME NEW entry \in Entries, NEW made \in Nat
  PROVE  \E doc \in ListDoc :
           /\ doc = Lists!Entered(entry, made) /\ doc.sale = None /\ doc.status # "CONVERTED"
           /\ doc.kind # "estimate" => doc.status = "ISSUED"
           /\ doc.kind = "estimate" => doc.status = "OPEN"
           /\ doc.paid = 0 /\ doc.total = Total
<1>1. PICK doc : doc = Lists!Entered(entry, made)
  OBVIOUS
<1>2. entry \in [kind : Lists!Kinds, taxed : BOOLEAN, booked : BOOLEAN, batched : BOOLEAN, year : Nat, date : Nat]
  BY ListAssumption
<1>3. PICK status : status = (IF entry.kind = "estimate" THEN "OPEN" ELSE "ISSUED")
  OBVIOUS
<1>4. doc = [kind |-> entry.kind, taxed |-> entry.taxed, booked |-> entry.booked, batched |-> entry.batched,
             year |-> entry.year, date |-> entry.date, made |-> made,
             status |-> status, total |-> Total, paid |-> 0, noted |-> 0, sale |-> None]
  BY <1>1, <1>3, Zenon DEF Lists!Entered
<1>5. doc.kind = entry.kind /\ doc.sale = None /\ doc.status = status /\ doc.paid = 0 /\ doc.total = Total
  BY <1>4
<1>6. doc \in ListDoc
  BY <1>2, <1>3, <1>4, ListAssumption DEF ListDoc
<1>. QED  BY <1>1, <1>3, <1>5, <1>6

(* One document is there, and no list yet.                                   *)
LEMMA ListsInit == Lists!Init => ListsInv
<1>. SUFFICES ASSUME Lists!Init PROVE ListsInv
  OBVIOUS
<1>1. PICK entry \in Entries : stored = [d \in DocIds |-> IF d = Lists!First THEN Lists!Entered(entry, 0) ELSE None]
  BY DEF Lists!Init
<1>2. PICK doc \in ListDoc :
        /\ doc = Lists!Entered(entry, 0) /\ doc.sale = None /\ doc.status # "CONVERTED"
        /\ doc.kind # "estimate" => doc.status = "ISSUED"
        /\ doc.kind = "estimate" => doc.status = "OPEN"
        /\ doc.paid = 0 /\ doc.total = Total
  BY EnteredDoc
<1>3. /\ doc \in ListDoc /\ doc.sale = None /\ doc.status # "CONVERTED"
      /\ doc.kind # "estimate" => doc.status = "ISSUED"
      /\ doc.kind = "estimate" => doc.status = "OPEN"
      /\ doc.paid = 0 /\ doc.total = Total
  BY <1>2
<1>4. stored = [d \in DocIds |-> IF d = Lists!First THEN doc ELSE None]
  BY <1>1, <1>2
<1>5. stored \in [DocIds -> ListDoc \cup {None, Gone}] /\ \A d \in Lists!Stored : stored[d] = doc
  BY <1>3, <1>4 DEF Lists!Stored
<1>6. DocSound(doc)
  BY <1>3, ListAssumption DEF DocSound
<1>7. DocsSound
  BY <1>5, <1>6 DEF DocsSound, DocSound
<1>8. waits = [c \in Calls |-> Lists!Idle] /\ still = FALSE
  BY DEF Lists!Init
<1>. QED  BY <1>7, <1>8 DEF ListsInv, IsCall

(* What is outstanding is not negative.                                      *)
LEMMA ListMax == ASSUME NEW n \in Int PROVE Lists!Max({0, n}) = IF n >= 0 THEN n ELSE 0
<1>1. PICK m : m = (IF n >= 0 THEN n ELSE 0)
  OBVIOUS
<1>2. m \in {0, n} /\ \A y \in {0, n} : m >= y
  BY <1>1
<1>3. \A x \in {0, n} : (\A y \in {0, n} : x >= y) => x = m
  BY <1>1
<1>. QED  BY <1>1, <1>2, <1>3 DEF Lists!Max

(* A document changed where it stands, with the same kind and sale, is as sound.  *)
LEMMA SoundChange ==
  ASSUME DocsSound, NEW d \in Lists!Stored, NEW doc \in ListDoc, stored' = [stored EXCEPT ![d] = doc],
         doc.kind = stored[d].kind, doc.sale = stored[d].sale,
         doc.status = stored[d].status \/ (stored[d].status # "CONVERTED" /\ doc.status # "CONVERTED"),
         doc.kind # "estimate" => doc.status \in {"ISSUED", "CANCELLED"} /\ doc.paid <= doc.total,
         doc.kind = "estimate" => doc.status # "ISSUED"
  PROVE  DocsSound'
<1>1. /\ stored \in [DocIds -> ListDoc \cup {None, Gone}] /\ d \in DocIds /\ stored[d] \in ListDoc /\ DocSound(stored[d])
  BY StoredDocs DEF DocsSound
<1>2. /\ stored' \in [DocIds -> ListDoc \cup {None, Gone}] /\ stored'[d] = doc
      /\ \A e \in DocIds : e # d => stored'[e] = stored[e]
  BY <1>1
<1>3. Lists!Stored' = Lists!Stored
  BY <1>1, <1>2, ListAssumption DEF Lists!Stored
<1>4. ASSUME NEW e \in Lists!Stored PROVE DocSound(stored[e])'
  <2>1. CASE e = d
    BY <1>1, <1>2, <1>3, <2>1 DEF DocSound
  <2>2. CASE e # d
    <3>1. stored'[e] = stored[e] /\ DocSound(stored[e])
      BY <1>2, <2>2 DEF DocsSound, Lists!Stored
    <3>. QED  BY <1>3, <3>1 DEF DocSound
  <2>. QED  BY <2>1, <2>2
<1>. QED  BY <1>2, <1>3, <1>4 DEF DocsSound

(* One document more, which has no sale.                                       *)
LEMMA SoundNew ==
  ASSUME DocsSound, NEW d \in Lists!Unused, NEW doc \in ListDoc, stored' = [stored EXCEPT ![d] = doc],
         doc.kind # "estimate" => doc.status \in {"ISSUED", "CANCELLED"} /\ doc.paid <= doc.total,
         doc.kind = "estimate" => doc.status # "ISSUED",
         doc.sale = None, doc.status # "CONVERTED"
  PROVE  DocsSound' /\ Lists!Stored' = Lists!Stored \cup {d} /\ d \notin Lists!Stored /\ stored'[d] = doc
         /\ \A e \in Lists!Stored : stored'[e] = stored[e]
<1>1. stored \in [DocIds -> ListDoc \cup {None, Gone}] /\ d \in DocIds /\ stored[d] = None
  BY DEF DocsSound, Lists!Unused
<1>2. /\ stored' \in [DocIds -> ListDoc \cup {None, Gone}] /\ stored'[d] = doc
      /\ \A e \in DocIds : e # d => stored'[e] = stored[e]
  BY <1>1
<1>3. Lists!Stored' = Lists!Stored \cup {d} /\ d \notin Lists!Stored
  BY <1>1, <1>2, ListAssumption DEF Lists!Stored
<1>4. \A e \in Lists!Stored : e # d /\ stored'[e] = stored[e]
  BY <1>2, <1>3 DEF Lists!Stored
<1>5. ASSUME NEW e \in Lists!Stored' PROVE DocSound(stored[e])'
  <2>1. CASE e = d
    BY <1>2, <2>1, ListAssumption DEF DocSound
  <2>2. CASE e # d
    <3>1. stored'[e] = stored[e] /\ DocSound(stored[e]) /\ e \in Lists!Stored
      BY <1>3, <1>4, <1>5, <2>2 DEF DocsSound
    <3>. QED  BY <1>3, <3>1 DEF DocSound
  <2>. QED  BY <2>1, <2>2
<1>. QED  BY <1>2, <1>3, <1>4, <1>5 DEF DocsSound

(* A document deleted opens the estimates it was the sale of.                  *)
LEMMA SoundDelete ==
  ASSUME DocsSound, NEW d \in Lists!Stored, stored' = Lists!Served(d, "delete", 0)
  PROVE  DocsSound'
<1>. PICK from : from = {e \in Lists!Stored : stored[e].sale = d}
  OBVIOUS
<1>0. stored' = [e \in DocIds |-> IF e = d THEN Gone
                            ELSE IF e \in from THEN [stored[e] EXCEPT !.sale = None, !.status = "ACCEPTED"]
                            ELSE stored[e]]
  BY Zenon DEF Lists!Served
<1>1. stored \in [DocIds -> ListDoc \cup {None, Gone}] /\ d \in DocIds
  BY DEF DocsSound, Lists!Stored
<1>2. ASSUME NEW e \in from
      PROVE  /\ stored[e] \in ListDoc /\ e \in DocIds /\ stored[e].kind = "estimate"
             /\ [stored[e] EXCEPT !.sale = None, !.status = "ACCEPTED"] \in ListDoc
             /\ [stored[e] EXCEPT !.sale = None, !.status = "ACCEPTED"].kind = "estimate"
             /\ [stored[e] EXCEPT !.sale = None, !.status = "ACCEPTED"].sale = None
             /\ [stored[e] EXCEPT !.sale = None, !.status = "ACCEPTED"].status = "ACCEPTED"
  <2>1. stored[e] \in ListDoc /\ e \in DocIds /\ DocSound(stored[e]) /\ stored[e].sale = d
    BY StoredDocs
  <2>2. stored[e].kind = "estimate"
    BY <1>1, <2>1, ListAssumption DEF DocSound
  <2>. QED  BY <2>1, <2>2 DEF ListDoc
<1>3. ASSUME NEW e \in DocIds
      PROVE  /\ stored'[e] \in ListDoc \cup {None, Gone}
             /\ e = d => stored'[e] = Gone
             /\ e # d /\ e \in from => /\ stored'[e] \in ListDoc /\ stored'[e].kind = "estimate"
                                       /\ stored'[e].sale = None /\ stored'[e].status = "ACCEPTED"
             /\ e # d /\ e \notin from => stored'[e] = stored[e]
  BY <1>0, <1>1, <1>2
<1>4. stored' \in [DocIds -> ListDoc \cup {None, Gone}]
  BY <1>0, <1>3
<1>5. Lists!Stored' = Lists!Stored \ {d}
  BY <1>1, <1>2, <1>3, ListAssumption DEF Lists!Stored
<1>6. ASSUME NEW e \in Lists!Stored' PROVE DocSound(stored[e])'
  <2>1. e \in Lists!Stored /\ e # d /\ e \in DocIds /\ DocSound(stored[e])
    BY <1>5, StoredDocs
  <2>2. CASE e \in from
    BY <1>3, <2>1, <2>2 DEF DocSound
  <2>3. CASE e \notin from
    <3>1. stored'[e] = stored[e] /\ stored[e].sale # d
      BY <1>3, <2>1, <2>3
    <3>. QED  BY <1>5, <2>1, <3>1 DEF DocSound
  <2>. QED  BY <2>2, <2>3
<1>. QED  BY <1>4, <1>6 DEF DocsSound

(* A conversion enters an invoice, which is then the sale of the estimate.      *)
LEMMA SoundConvert ==
  ASSUME DocsSound, NEW d \in Lists!Stored, NEW new \in Lists!Unused, stored[d].kind = "estimate", stored[d].sale = None,
         stored[d].status # "CONVERTED", NEW sale \in ListDoc, NEW est \in ListDoc,
         sale.kind = "invoice", sale.sale = None, sale.status = "ISSUED", sale.paid = 0, sale.total = Total,
         est.status = "CONVERTED", est.kind = "estimate", est.sale = new,
         stored' \in [DocIds -> ListDoc \cup {None, Gone}], stored'[new] = sale, stored'[d] = est,
         \A e \in DocIds : e \notin {d, new} => stored'[e] = stored[e]
  PROVE  DocsSound'
<1>1. /\ stored \in [DocIds -> ListDoc \cup {None, Gone}] /\ d \in DocIds /\ stored[d] \in ListDoc /\ new \in DocIds
      /\ stored[new] = None /\ new # d
  BY StoredDocs, ListAssumption DEF DocsSound, Lists!Unused, Lists!Stored
<1>13. Lists!Stored' = Lists!Stored \cup {new}
  BY <1>1, ListAssumption DEF Lists!Stored
<1>14. ASSUME NEW e \in Lists!Stored' PROVE DocSound(stored[e])'
  <2>1. CASE e = new
    BY <2>1, ListAssumption DEF DocSound
  <2>2. CASE e = d
    BY <1>13, <2>2 DEF DocSound
  <2>3. CASE e \notin {d, new}
    <3>1. stored'[e] = stored[e] /\ DocSound(stored[e])
      BY <1>13, <2>3, StoredDocs
    <3>. QED  BY <1>13, <3>1 DEF DocSound
  <2>. QED  BY <2>1, <2>2, <2>3
<1>. QED  BY <1>14 DEF DocsSound

(* The service keeps the documents sound whatever it accepts.                    *)
LEMMA ServedSound ==
  ASSUME DocsSound, NEW d \in Lists!Stored, NEW what \in Actions, NEW amount \in Nat,
         Lists!Accepts(stored[d], what, amount), what = "convert" => Lists!Unused # {},
         stored' = Lists!Served(d, what, amount)
  PROVE  DocsSound'
<1>. PICK doc : doc = stored[d]
  OBVIOUS
<1>1. /\ stored \in [DocIds -> ListDoc \cup {None, Gone}] /\ d \in DocIds /\ doc \in ListDoc /\ DocSound(doc)
      /\ doc = stored[d]
  BY StoredDocs DEF DocsSound
<1>2. IF doc.kind = "estimate" THEN Lists!EstimateAccepts(doc, what) ELSE Lists!BillAccepts(doc, what, amount)
  BY <1>1 DEF Lists!Accepts
<1>3. CASE what = "pay"
  <2>1. PICK new : new = [doc EXCEPT !.paid = @ + amount]
    OBVIOUS
  <2>2. doc.kind # "estimate" /\ doc.status = "ISSUED" /\ amount <= Lists!Due(doc)
    BY <1>2, <1>3 DEF Lists!EstimateAccepts, Lists!BillAccepts
  <2>3. doc.total \in Nat /\ doc.paid \in Nat /\ doc.noted \in Nat
    BY <1>1, ListAssumption DEF ListDoc
  <2>4. doc.paid + amount <= doc.total /\ doc.paid + amount \in Nat
    BY <2>2, <2>3 DEF Lists!Due
  <2>5. /\ new \in ListDoc /\ new.kind = doc.kind /\ new.sale = doc.sale /\ new.status = doc.status
        /\ new.paid = doc.paid + amount /\ new.total = doc.total
    BY <1>1, <2>1, <2>4 DEF ListDoc
  <2>6. stored' = [stored EXCEPT ![d] = new]
    BY <1>1, <1>3, <2>1 DEF Lists!Served
  <2>. QED  BY <1>1, <2>2, <2>4, <2>5, <2>6, SoundChange
<1>4. ASSUME NEW status \in {"ACCEPTED", "DECLINED", "CANCELLED"}, doc.status # "CONVERTED",
             doc.kind # "estimate" => status = "CANCELLED",
             stored' = [stored EXCEPT ![d].status = status]
      PROVE  DocsSound'
  <2>1. PICK new : new = [doc EXCEPT !.status = status]
    OBVIOUS
  <2>2. /\ new \in ListDoc /\ new.kind = doc.kind /\ new.sale = doc.sale /\ new.status = status
        /\ new.paid = doc.paid /\ new.total = doc.total
    BY <1>1, <2>1 DEF ListDoc
  <2>3. stored' = [stored EXCEPT ![d] = new]
    BY <1>1, <1>4, <2>1
  <2>4. doc.kind # "estimate" => doc.paid <= doc.total
    BY <1>1 DEF DocSound
  <2>5. /\ new.kind = stored[d].kind /\ new.sale = stored[d].sale
        /\ stored[d].status # "CONVERTED" /\ new.status # "CONVERTED"
        /\ new.kind # "estimate" => new.status \in {"ISSUED", "CANCELLED"} /\ new.paid <= new.total
        /\ new.kind = "estimate" => new.status # "ISSUED"
    BY <1>1, <1>4, <2>2, <2>4
  <2>. QED  BY <2>2, <2>3, <2>5, SoundChange, Zenon
<1>5. CASE what \in {"accept", "decline"}
  <2>1. doc.kind = "estimate" /\ doc.status # "CONVERTED"
    BY <1>2, <1>5 DEF Lists!EstimateAccepts, Lists!BillAccepts
  <2>2. CASE what = "accept"
    <3>1. stored' = [stored EXCEPT ![d].status = "ACCEPTED"]
      BY <2>2 DEF Lists!Served
    <3>. QED  BY <1>4, <2>1, <3>1
  <2>3. CASE what = "decline"
    <3>1. stored' = [stored EXCEPT ![d].status = "DECLINED"]
      BY <2>3 DEF Lists!Served
    <3>. QED  BY <1>4, <2>1, <3>1
  <2>. QED  BY <1>5, <2>2, <2>3
<1>6. CASE what = "cancel"
  <2>1. doc.status # "CONVERTED"
    BY <1>1, <1>2, <1>6 DEF Lists!EstimateAccepts, Lists!BillAccepts
  <2>2. stored' = [stored EXCEPT ![d].status = "CANCELLED"]
    BY <1>6 DEF Lists!Served
  <2>. QED  BY <1>4, <2>1, <2>2
<1>7. CASE what = "delete"
  <2>1. Lists!Served(d, what, amount) = Lists!Served(d, "delete", 0)
    BY <1>7, Zenon DEF Lists!Served
  <2>. QED  BY <2>1, SoundDelete
<1>8. CASE what = "convert"
  <2>1. doc.kind = "estimate" /\ doc.status # "CONVERTED" /\ doc.sale = None
    BY <1>2, <1>8 DEF Lists!EstimateAccepts, Lists!BillAccepts
  <2>2. PICK new : new = CHOOSE e \in Lists!Unused : TRUE
    OBVIOUS
  <2>3. new \in Lists!Unused
    BY <1>8, <2>2
  <2>4. stored' = [stored EXCEPT ![new] = [stored[d] EXCEPT !.kind = "invoice", !.status = "ISSUED", !.paid = 0,
                                                    !.year = Today.year, !.date = Today.date, !.made = Lists!Made],
                         ![d].status = "CONVERTED", ![d].sale = new]
    BY <1>8, <2>2, Zenon DEF Lists!Served
  <2>5. PICK a : a = [doc EXCEPT !.kind = "invoice"]
    OBVIOUS
  <2>6. PICK b : b = [a EXCEPT !.status = "ISSUED"]
    OBVIOUS
  <2>7. PICK unpaid : unpaid = [b EXCEPT !.paid = 0]
    OBVIOUS
  <2>7a. PICK sale : sale = [unpaid EXCEPT !.year = Today.year, !.date = Today.date, !.made = Lists!Made]
    OBVIOUS
  <2>8. PICK x : x = [doc EXCEPT !.status = "CONVERTED"]
    OBVIOUS
  <2>9. PICK est : est = [x EXCEPT !.sale = new]
    OBVIOUS
  <2>10. PICK f : f = [stored EXCEPT ![new] = sale]
    OBVIOUS
  <2>11. PICK g : g = [f EXCEPT ![d].status = "CONVERTED"]
    OBVIOUS
  <2>12. sale = [stored[d] EXCEPT !.kind = "invoice", !.status = "ISSUED", !.paid = 0,
                                  !.year = Today.year, !.date = Today.date, !.made = Lists!Made]
    BY <1>1, <2>5, <2>6, <2>7, <2>7a, Zenon
  <2>13. stored' = [g EXCEPT ![d].sale = new]
    BY <2>4, <2>10, <2>11, <2>12, Zenon
  <2>14. new \in DocIds /\ stored[new] = None /\ new # d
    BY <1>1, <2>3, ListAssumption DEF Lists!Unused
  <2>15. /\ sale \in ListDoc /\ sale.kind = "invoice" /\ sale.sale = None /\ sale.status = "ISSUED"
         /\ sale.paid = 0 /\ sale.total = Total
         /\ x \in ListDoc /\ est \in ListDoc /\ est.status = "CONVERTED" /\ est.kind = "estimate" /\ est.sale = new
    <3>1. doc \in ListDoc /\ doc.kind = "estimate" /\ doc.sale = None /\ new \in DocIds
      BY <1>1, <2>1, <2>14
    <3>2. a \in ListDoc /\ a.kind = "invoice" /\ a.sale = None
      BY <2>5, <3>1 DEF ListDoc, Lists!Kinds
    <3>3. b \in ListDoc /\ b.kind = "invoice" /\ b.sale = None /\ b.status = "ISSUED"
      BY <2>6, <3>2 DEF ListDoc
    <3>3a. /\ unpaid \in ListDoc /\ unpaid.kind = "invoice" /\ unpaid.sale = None /\ unpaid.status = "ISSUED"
           /\ unpaid.paid = 0 /\ unpaid.total = Total
      BY <2>7, <3>3 DEF ListDoc
    <3>3b. PICK made \in Nat : made = Lists!Made
      BY MadeNat
    <3>3c. PICK on \in [year : Nat, date : Nat] : on = Today
      BY ListAssumption
    <3>3d. sale = [unpaid EXCEPT !.year = on.year, !.date = on.date, !.made = made]
      BY <2>7a, <3>3b, <3>3c
    <3>4. /\ sale \in ListDoc /\ sale.kind = "invoice" /\ sale.sale = None /\ sale.status = "ISSUED"
          /\ sale.paid = 0 /\ sale.total = Total
      BY <3>3a, <3>3d DEF ListDoc
    <3>5. x \in ListDoc /\ x.status = "CONVERTED" /\ x.kind = "estimate"
      BY <2>8, <3>1 DEF ListDoc
    <3>6. est \in ListDoc /\ est.status = "CONVERTED" /\ est.kind = "estimate" /\ est.sale = new
      BY <2>9, <3>1, <3>5 DEF ListDoc
    <3>. QED  BY <3>4, <3>5, <3>6
  <2>16. f \in [DocIds -> ListDoc \cup {None, Gone}] /\ f[d] = doc /\ f[new] = sale
         /\ \A e \in DocIds : e \notin {d, new} => f[e] = stored[e]
    BY <1>1, <2>10, <2>14, <2>15
  <2>17. g = [f EXCEPT ![d] = x]
    BY <1>1, <2>8, <2>11, <2>16
  <2>18. g \in [DocIds -> ListDoc \cup {None, Gone}] /\ g[d] = x /\ g[new] = sale
         /\ \A e \in DocIds : e \notin {d, new} => g[e] = stored[e]
    BY <1>1, <2>14, <2>15, <2>16, <2>17
  <2>19. stored' = [g EXCEPT ![d] = est]
    BY <2>9, <2>13, <2>18
  <2>20. stored' \in [DocIds -> ListDoc \cup {None, Gone}] /\ stored'[new] = sale /\ stored'[d] = est
         /\ \A e \in DocIds : e \notin {d, new} => stored'[e] = stored[e]
    BY <1>1, <2>14, <2>15, <2>18, <2>19
  <2>. QED  BY <1>1, <2>1, <2>3, <2>15, <2>20, SoundConvert
<1>. QED  BY <1>3, <1>5, <1>6, <1>7, <1>8 DEF Actions

(* What a handler may wait for.                                              *)
LEMMA CallCases ==
  ASSUME NEW q, IsCall(q)
  PROVE  \/ q = Lists!Idle /\ q.at = "idle"
         \/ q.at = "sent" /\ q # Lists!Idle /\ q.doc \in DocIds /\ q.what \in Actions /\ q.amount \in Nat
         \/ q.at = "loading" /\ q # Lists!Idle /\ DOMAIN q.got \subseteq Lists!Fetches
BY DEF IsCall, Lists!Idle

(* A reload has fetched nothing at first.                                    *)
LEMMA LoadingIs == IsCall(Lists!Loading) /\ Lists!Loading.at = "loading" /\ Lists!Loading # Lists!Idle /\ DOMAIN Lists!Loading.got = {}
<1>1. DOMAIN <<>> = {}
  OBVIOUS
<1>2. Lists!Loading.at = "loading" /\ Lists!Loading # Lists!Idle /\ Lists!Loading.got = <<>>
  BY DEF Lists!Loading, Lists!Idle
<1>. QED  BY <1>1, <1>2 DEF IsCall, Lists!Loading

(* As long as the documents and the year stay, so do the rows.                *)
LEMMA DocsSame ==
  ASSUME stored' = stored, openYear' = openYear
  PROVE  /\ DocsSound => DocsSound'
         /\ \A k : Lists!Rows(k)' = Lists!Rows(k)
         /\ StoredRows' = StoredRows
<1>1. Lists!Stored' = Lists!Stored
  BY DEF Lists!Stored
<1>2. \A kind : Lists!OfYear(kind)' = Lists!OfYear(kind)
  BY <1>1 DEF Lists!OfYear
<1>3. \A d, e : Lists!Before(d, e)' <=> Lists!Before(d, e)
  BY DEF Lists!Before
<1>4. \A kind : Lists!Newest(kind)' = Lists!Newest(kind)
  BY <1>2, <1>3 DEF Lists!Newest
<1>5. \A k : Lists!Rows(k)' = Lists!Rows(k)
  BY <1>4 DEF Lists!Rows
<1>6. StoredRows' = StoredRows
  BY <1>5 DEF StoredRows
<1>7. DocsSound => DocsSound'
  BY <1>1 DEF DocsSound, DocSound
<1>. QED  BY <1>5, <1>6, <1>7

(* What a handler waits for changes, and the others wait for what they did.     *)
LEMMA CallChange ==
  ASSUME ListsInv, NEW c \in Calls, NEW q, IsCall(q), waits' = [waits EXCEPT ![c] = q]
  PROVE  /\ DOMAIN waits' = Calls /\ waits' = [b \in Calls |-> waits'[b]]
         /\ \A b \in Calls : IsCall(waits'[b])
         /\ waits'[c] = q /\ \A b \in Calls : b # c => waits'[b] = waits[b]
<1>1. DOMAIN waits = Calls /\ \A b \in Calls : IsCall(waits[b])
  BY DEF ListsInv
<1>2. waits' = [b \in Calls |-> IF b = c THEN q ELSE waits[b]]
  BY <1>1
<1>3. waits'[c] = q /\ \A b \in Calls : b # c => waits'[b] = waits[b]
  BY <1>2
<1>. QED  BY <1>1, <1>2, <1>3

(* A page opened waits for its lists only.                                   *)
LEMMA ListsOpen == ASSUME ListsInv, NEW c \in Calls, Lists!Open(c) PROVE ListsInv'
<1>1. waits' = [waits EXCEPT ![c] = Lists!Loading] /\ still' = TRUE /\ stored' = stored /\ openYear' = openYear /\ shown' = None
      /\ \A b \in Calls : waits[b] = Lists!Idle
  BY DEF Lists!Open, Lists!Quiet
<1>2. /\ DOMAIN waits' = Calls /\ waits' = [b \in Calls |-> waits'[b]]
      /\ \A b \in Calls : IsCall(waits'[b])
      /\ waits'[c] = Lists!Loading /\ \A b \in Calls : b # c => waits'[b] = Lists!Idle
  BY <1>1, LoadingIs, CallChange
<1>3. CalmLists'
  BY <1>1, <1>2, LoadingIs DEF CalmLists, Lists!Idle
<1>. QED  BY <1>1, <1>2, <1>3, DocsSame DEF ListsInv

(* A form opened changes nothing else.                                       *)
LEMMA ListsOpenForm == ASSUME ListsInv, NEW d \in DocIds, Lists!OpenForm(d) PROVE ListsInv'
<1>1. UNCHANGED <<openYear, stored, shown, waits, still>>
  BY DEF Lists!OpenForm
<1>2. CalmLists => CalmLists'
  BY <1>1, DocsSame DEF CalmLists
<1>. QED  BY <1>1, <1>2, DocsSame DEF ListsInv

(* An action is sent while the lists stand.                                  *)
LEMMA ListsSend ==
  ASSUME ListsInv, NEW c \in Calls, NEW d \in DocIds, NEW what \in Actions, NEW amount \in Nat,
         Lists!Send(c, d, what, amount)
  PROVE  ListsInv'
<1>. PICK q : q = [at |-> "sent", doc |-> d, what |-> what, amount |-> amount]
  OBVIOUS
<1>1. waits' = [waits EXCEPT ![c] = q] /\ still' = (still /\ Lists!Alone(c)) /\ stored' = stored /\ openYear' = openYear /\ shown' = shown
      /\ waits[c] = Lists!Idle
  BY DEF Lists!Send
<1>2. IsCall(q) /\ q.at = "sent"
  BY DEF IsCall
<1>3. /\ DOMAIN waits' = Calls /\ waits' = [b \in Calls |-> waits'[b]]
      /\ \A b \in Calls : IsCall(waits'[b])
      /\ waits'[c] = q /\ \A b \in Calls : b # c => waits'[b] = waits[b]
  BY <1>1, <1>2, CallChange
<1>4. ASSUME still' PROVE CalmLists'
  <2>1. CalmLists /\ \A b \in Calls : waits[b] = Lists!Idle
    BY <1>1, <1>4 DEF ListsInv, Lists!Alone
  <2>2. shown # None => shown = StoredRows
    BY <2>1 DEF CalmLists, Lists!Idle
  <2>. QED  BY <1>1, <1>2, <1>3, <2>1, <2>2, DocsSame DEF CalmLists, Lists!Idle
<1>5. still' \in BOOLEAN
  BY <1>1 DEF ListsInv, Lists!Alone
<1>. QED  BY <1>1, <1>3, <1>4, <1>5, DocsSame DEF ListsInv

(* An action carried out reloads the lists.                                  *)
LEMMA ListsAccepted == ASSUME ListsInv, NEW c \in Calls, Lists!Accepted(c) PROVE ListsInv'
<1>. PICK r : r = waits[c]
  OBVIOUS
<1>1. waits' = [waits EXCEPT ![c] = Lists!Loading] /\ still' = Lists!Alone(c) /\ r.at = "sent"
      /\ r.doc \in Lists!Stored /\ Lists!Accepts(stored[r.doc], r.what, r.amount)
      /\ (r.what = "convert" => Lists!Unused # {}) /\ stored' = Lists!Served(r.doc, r.what, r.amount)
  BY DEF Lists!Accepted, Lists!Granted
<1>2. r.doc \in DocIds /\ r.what \in Actions /\ r.amount \in Nat /\ DocsSound
  BY <1>1, CallCases DEF ListsInv
<1>3. DocsSound'
  BY <1>1, <1>2, ServedSound
<1>4. /\ DOMAIN waits' = Calls /\ waits' = [b \in Calls |-> waits'[b]]
      /\ \A b \in Calls : IsCall(waits'[b])
      /\ waits'[c] = Lists!Loading /\ \A b \in Calls : b # c => waits'[b] = waits[b]
  BY <1>1, LoadingIs, CallChange
<1>5. ASSUME still' PROVE CalmLists'
  <2>1. \A b \in Calls : b # c => waits'[b] = Lists!Idle
    BY <1>1, <1>4, <1>5 DEF Lists!Alone
  <2>. QED  BY <1>4, <2>1, LoadingIs DEF CalmLists, Lists!Idle
<1>6. still' \in BOOLEAN
  BY <1>1 DEF Lists!Alone
<1>. QED  BY <1>3, <1>4, <1>5, <1>6 DEF ListsInv

(* A refusal leaves the lists.                                               *)
LEMMA ListsRefused == ASSUME ListsInv, NEW c \in Calls, Lists!Refused(c) PROVE ListsInv'
<1>1. waits' = [waits EXCEPT ![c] = Lists!Idle] /\ still' = still /\ stored' = stored /\ openYear' = openYear /\ shown' = shown
      /\ waits[c].at = "sent"
  BY DEF Lists!Refused
<1>2. /\ DOMAIN waits' = Calls /\ waits' = [b \in Calls |-> waits'[b]]
      /\ \A b \in Calls : IsCall(waits'[b])
      /\ waits'[c] = Lists!Idle /\ \A b \in Calls : b # c => waits'[b] = waits[b]
  BY <1>1, CallChange DEF IsCall
<1>3. ASSUME still' PROVE CalmLists'
  <2>1. CalmLists /\ \A b \in Calls : b # c => waits[b] = Lists!Idle
    BY <1>1, <1>3 DEF ListsInv, CalmLists, Lists!Idle
  <2>2. shown # None => shown = StoredRows
    BY <1>1, <2>1 DEF CalmLists, Lists!Idle
  <2>. QED  BY <1>1, <1>2, <2>1, <2>2, DocsSame DEF CalmLists, Lists!Idle
<1>. QED  BY <1>1, <1>2, <1>3, DocsSame DEF ListsInv

(* A list is fetched as it is stored.                                        *)
LEMMA ListsFetch ==
  ASSUME ListsInv, NEW c \in Calls, NEW kinds \in Lists!Fetches, Lists!Fetch(c, kinds)
  PROVE  ListsInv'
<1>. PICK r : r = waits[c]
  OBVIOUS
<1>. PICK got : got = r.got
  OBVIOUS
<1>. PICK fetched : fetched = [k \in DOMAIN got \cup {kinds} |-> IF k = kinds THEN Lists!Rows(k) ELSE got[k]]
  OBVIOUS
<1>1. r = waits[c] /\ r.at = "loading" /\ still' = still /\ stored' = stored /\ openYear' = openYear /\ shown' = shown
  BY DEF Lists!Fetch
<1>2. waits' = [waits EXCEPT ![c].got = fetched] /\ DOMAIN waits = Calls
  BY Zenon DEF Lists!Fetch, ListsInv
<1>3. r = [at |-> "loading", got |-> got] /\ DOMAIN got \subseteq Lists!Fetches
  BY <1>1 DEF ListsInv, IsCall, Lists!Idle
<1>. PICK q : q = [at |-> "loading", got |-> fetched]
  OBVIOUS
<1>. PICK p : p = [r EXCEPT !.got = fetched]
  OBVIOUS
<1>3a. p = q
  BY <1>3
<1>4. waits' = [waits EXCEPT ![c] = q]
  BY <1>1, <1>2, <1>3a
<1>5. IsCall(q) /\ q.at = "loading" /\ q.got = fetched
  <2>1. DOMAIN fetched \subseteq Lists!Fetches /\ q = [at |-> "loading", got |-> fetched]
    <3>1. DOMAIN fetched = DOMAIN got \cup {kinds}
      OBVIOUS
    <3>. QED  BY <1>3, <3>1
  <2>2. q.at = "loading" /\ q.got = fetched
    OBVIOUS
  <2>. QED  BY <2>1, <2>2, Zenon DEF IsCall
<1>6. /\ DOMAIN waits' = Calls /\ waits' = [b \in Calls |-> waits'[b]]
      /\ \A b \in Calls : IsCall(waits'[b])
      /\ waits'[c] = q /\ \A b \in Calls : b # c => waits'[b] = waits[b]
  BY <1>4, <1>5, CallChange
<1>7. ASSUME still' PROVE CalmLists'
  <2>1. CalmLists /\ \A b \in Calls : b # c => waits[b] = Lists!Idle
    BY <1>1, <1>7 DEF ListsInv, CalmLists, Lists!Idle
  <2>2. \A k \in DOMAIN fetched : fetched[k] = Lists!Rows(k)
    BY <1>1, <2>1 DEF CalmLists
  <2>. QED  BY <1>1, <1>5, <1>6, <2>1, <2>2, DocsSame DEF CalmLists, Lists!Idle
<1>. QED  BY <1>1, <1>6, <1>7, DocsSame DEF ListsInv

(* Two lists, each as it is stored, are all that is stored.                  *)
LEMMA ListsLoaded == ASSUME ListsInv, NEW c \in Calls, Lists!Loaded(c) PROVE ListsInv'
<1>. DEFINE got == waits[c].got
<1>. PICK at : at = [e \in DocIds |-> CHOOSE k \in {j \in Lists!Fetches : e \in DOMAIN got[j]} : TRUE]
  OBVIOUS
<1>1. waits' = [waits EXCEPT ![c] = Lists!Idle] /\ still' = (still /\ Lists!Alone(c)) /\ stored' = stored /\ openYear' = openYear
      /\ waits[c].at = "loading" /\ DOMAIN got = Lists!Fetches
      /\ shown' = [d \in {e \in DocIds : {k \in Lists!Fetches : e \in DOMAIN got[k]} # {}} |->
                     got[CHOOSE k \in {j \in Lists!Fetches : d \in DOMAIN got[j]} : TRUE][d]]
  BY Zenon DEF Lists!Loaded
<1>1a. shown' = [d \in {e \in DocIds : {k \in Lists!Fetches : e \in DOMAIN got[k]} # {}} |-> got[at[d]][d]]
  BY <1>1
<1>. HIDE DEF got
<1>2. /\ DOMAIN waits' = Calls /\ waits' = [b \in Calls |-> waits'[b]]
      /\ \A b \in Calls : IsCall(waits'[b])
      /\ waits'[c] = Lists!Idle /\ \A b \in Calls : b # c => waits'[b] = waits[b]
  BY <1>1, CallChange DEF IsCall
<1>3. ASSUME still' PROVE CalmLists'
  <2>1. CalmLists /\ \A b \in Calls : b # c => waits[b] = Lists!Idle
    BY <1>1, <1>3 DEF ListsInv, Lists!Alone
  <2>2. \A k \in Lists!Fetches : got[k] = Lists!Rows(k)
    BY <1>1, <2>1 DEF CalmLists, got
  <2>. PICK Top : Top = {e \in Lists!Stored : e \in Lists!Newest(stored[e].kind)}
    OBVIOUS
  <2>3. \A k \in Lists!Fetches, e \in DocIds :
          /\ e \in DOMAIN got[k] <=> e \in Top /\ stored[e].kind \in k
          /\ e \in DOMAIN got[k] => got[k][e] = Lists!Row(stored[e])
    BY <2>2, ListedRows
  <2>4. \A e \in Top : e \in DocIds /\ stored[e].kind \in Lists!Kinds /\ \E k \in Lists!Fetches : stored[e].kind \in k
    BY StoredDocs DEF ListsInv, ListDoc, Lists!Kinds, Lists!Fetches
  <2>5. \A e \in DocIds : {k \in Lists!Fetches : e \in DOMAIN got[k]} # {} <=> e \in Top
    BY <2>3, <2>4
  <2>6. \A e \in Top : got[at[e]][e] = Lists!Row(stored[e])
    <3>. TAKE e \in Top
    <3>1. PICK j \in Lists!Fetches : e \in DOMAIN got[j]
      BY <2>4, <2>5
    <3>2. at[e] \in Lists!Fetches /\ e \in DOMAIN got[at[e]]
      BY <2>4, <3>1
    <3>. QED  BY <2>3, <2>4, <3>2
  <2>7. {e \in DocIds : {k \in Lists!Fetches : e \in DOMAIN got[k]} # {}} = Top
    BY <2>4, <2>5
  <2>7a. StoredRows = [d \in Top |-> Lists!Row(stored[d])]
    <3>1. StoredRows = [d \in DOMAIN StoredRows |-> StoredRows[d]]
      BY Zenon DEF StoredRows, Lists!Rows
    <3>2. \A d : d \in DOMAIN StoredRows <=> d \in Top
      BY <2>4, ListedRows DEF StoredRows
    <3>3. \A d \in Top : StoredRows[d] = Lists!Row(stored[d])
      BY <3>2, ListedRows DEF StoredRows
    <3>4. DOMAIN StoredRows = Top
      BY <3>2
    <3>. QED  BY <3>1, <3>3, <3>4
  <2>8. shown' = StoredRows
    BY <1>1a, <2>6, <2>7, <2>7a
  <2>. QED  BY <1>1, <1>2, <2>1, <2>8, DocsSame DEF CalmLists, Lists!Idle
<1>4. still' \in BOOLEAN
  BY <1>1 DEF ListsInv, Lists!Alone
<1>. QED  BY <1>1, <1>2, <1>3, <1>4, DocsSame DEF ListsInv

(* A reload that fails ends the calm.                                        *)
LEMMA ListsLoadFailed == ASSUME ListsInv, NEW c \in Calls, Lists!LoadFailed(c) PROVE ListsInv'
<1>1. waits' = [waits EXCEPT ![c] = Lists!Idle] /\ still' = FALSE /\ stored' = stored /\ openYear' = openYear
  BY DEF Lists!LoadFailed
<1>2. /\ DOMAIN waits' = Calls /\ waits' = [b \in Calls |-> waits'[b]]
      /\ \A b \in Calls : IsCall(waits'[b])
  BY <1>1, CallChange DEF IsCall
<1>. QED  BY <1>1, <1>2, DocsSame DEF ListsInv

(* Whatever is done elsewhere, the documents are sound.                      *)
LEMMA ListsElsewhere == ASSUME ListsInv, Lists!Elsewhere PROVE ListsInv'
<1>1. still' = FALSE /\ waits' = waits /\ DocsSound
  BY DEF Lists!Elsewhere, ListsInv
<1>2. ASSUME NEW d \in Lists!Unused, NEW entry \in Entries, stored' = [stored EXCEPT ![d] = Lists!Entered(entry, Lists!Made)]
      PROVE  DocsSound'
  <2>0. PICK made \in Nat : made = Lists!Made
    BY MadeNat
  <2>1. PICK doc \in ListDoc :
          /\ doc = Lists!Entered(entry, made) /\ doc.sale = None /\ doc.status # "CONVERTED"
          /\ doc.kind # "estimate" => doc.status = "ISSUED"
          /\ doc.kind = "estimate" => doc.status = "OPEN"
          /\ doc.paid = 0 /\ doc.total = Total
    BY EnteredDoc
  <2>2. /\ doc \in ListDoc /\ doc.sale = None /\ doc.status # "CONVERTED"
        /\ doc.kind # "estimate" => doc.status = "ISSUED"
        /\ doc.kind = "estimate" => doc.status = "OPEN"
        /\ doc.paid = 0 /\ doc.total = Total
    BY <2>1
  <2>3. stored' = [stored EXCEPT ![d] = doc]
    BY <1>2, <2>0, <2>1
  <2>4. /\ doc.kind # "estimate" => doc.status \in {"ISSUED", "CANCELLED"} /\ doc.paid <= doc.total
        /\ doc.kind = "estimate" => doc.status # "ISSUED"
    BY <2>2, ListAssumption
  <2>. QED  BY <1>1, <2>2, <2>3, <2>4, SoundNew
<1>3. ASSUME NEW d \in Lists!Stored, NEW doc, doc = stored[d], NEW new \in ListDoc, stored' = [stored EXCEPT ![d] = new],
             new.kind = doc.kind, new.sale = doc.sale, new.status = doc.status, new.total = doc.total,
             new.kind # "estimate" => new.paid = doc.paid
      PROVE  DocsSound'
  <2>1. DocSound(doc)
    BY <1>1, <1>3, StoredDocs
  <2>2. /\ new.kind # "estimate" => new.status \in {"ISSUED", "CANCELLED"} /\ new.paid <= new.total
        /\ new.kind = "estimate" => new.status # "ISSUED"
    BY <1>3, <2>1 DEF DocSound
  <2>. QED  BY <1>1, <1>3, <2>2, SoundChange
<1>4. ASSUME NEW d \in Lists!Stored, stored[d].kind = "estimate", stored' = [stored EXCEPT ![d].paid = @ + 1]
      PROVE  DocsSound'
  <2>1. PICK doc : doc = stored[d]
    OBVIOUS
  <2>2. PICK new : new = [doc EXCEPT !.paid = @ + 1]
    OBVIOUS
  <2>3. doc \in ListDoc /\ doc.paid \in Nat /\ d \in DocIds /\ stored \in [DocIds -> ListDoc \cup {None, Gone}]
    BY <1>1, <2>1, StoredDocs DEF ListDoc, DocsSound
  <2>4. /\ new \in ListDoc /\ new.kind = doc.kind /\ new.sale = doc.sale /\ new.status = doc.status
        /\ new.total = doc.total
    BY <2>2, <2>3 DEF ListDoc
  <2>5. stored' = [stored EXCEPT ![d] = new]
    BY <1>4, <2>1, <2>2, <2>3
  <2>. QED  BY <1>3, <1>4, <2>1, <2>4, <2>5
<1>5. ASSUME NEW d \in Lists!Stored, NEW noted \in 0..Total, stored' = [stored EXCEPT ![d].noted = noted]
      PROVE  DocsSound'
  <2>1. PICK doc : doc = stored[d]
    OBVIOUS
  <2>2. PICK new : new = [doc EXCEPT !.noted = noted]
    OBVIOUS
  <2>3. doc \in ListDoc /\ d \in DocIds /\ stored \in [DocIds -> ListDoc \cup {None, Gone}] /\ noted \in Nat
    BY <1>1, <2>1, StoredDocs, ListAssumption DEF DocsSound
  <2>4. /\ new \in ListDoc /\ new.kind = doc.kind /\ new.sale = doc.sale /\ new.status = doc.status
        /\ new.total = doc.total /\ new.paid = doc.paid
    BY <2>2, <2>3 DEF ListDoc
  <2>5. stored' = [stored EXCEPT ![d] = new]
    BY <1>5, <2>1, <2>2, <2>3
  <2>. QED  BY <1>3, <2>1, <2>4, <2>5
<1>6. DocsSound'
  BY <1>2, <1>4, <1>5 DEF Lists!Elsewhere
<1>. QED  BY <1>1, <1>6 DEF ListsInv

(* Every step keeps the lists.                                               *)
LEMMA ListsNext == ListsInv /\ [Lists!Next]_(Lists!vars) => ListsInv'
<1>. SUFFICES ASSUME ListsInv, [Lists!Next]_(Lists!vars) PROVE ListsInv'
  OBVIOUS
<1>1. ASSUME NEW c \in Calls, Lists!Open(c) \/ Lists!Accepted(c) \/ Lists!Refused(c) \/ Lists!Loaded(c) \/ Lists!LoadFailed(c)
      PROVE  ListsInv'
  BY <1>1, ListsOpen, ListsAccepted, ListsRefused, ListsLoaded, ListsLoadFailed
<1>2. ASSUME NEW c \in Calls, NEW d \in DocIds, NEW amount \in 1..Total, Lists!Send(c, d, "pay", amount)
      PROVE  ListsInv'
  <2>1. "pay" \in Actions /\ amount \in Nat
    BY ListAssumption DEF Actions
  <2>. QED  BY <1>2, <2>1, ListsSend
<1>3. ASSUME NEW c \in Calls, NEW d \in DocIds, NEW what \in {"accept", "decline", "convert", "cancel", "delete"},
             Lists!Send(c, d, what, 0)
      PROVE  ListsInv'
  <2>1. what \in Actions /\ 0 \in Nat
    BY DEF Actions
  <2>. QED  BY <1>3, <2>1, ListsSend
<1>4. CASE UNCHANGED Lists!vars
  <2>1. UNCHANGED <<openYear, stored, shown, waits, still>>
    BY <1>4 DEF Lists!vars
  <2>2. CalmLists => CalmLists'
    BY <2>1, DocsSame DEF CalmLists
  <2>. QED  BY <2>1, <2>2, DocsSame DEF ListsInv
<1>. QED  BY <1>1, <1>2, <1>3, <1>4, ListsFetch, ListsOpenForm, ListsElsewhere DEF Lists!Next

(* What a row shows of a bill, and of an estimate.                               *)
LEMMA BillRow ==
  ASSUME NEW doc \in ListDoc, doc.kind # "estimate", NEW line, line = Lists!Row(doc)
  PROVE  line.kind = doc.kind /\ line.status = doc.status /\ line.paid = doc.paid
         /\ line.due = IF Lists!Due(doc) >= 0 THEN Lists!Due(doc) ELSE 0
<1>1. Lists!Due(doc) \in Int
  BY ListAssumption DEF ListDoc, Lists!Due
<1>2. Lists!Max({0, Lists!Due(doc)}) = IF Lists!Due(doc) >= 0 THEN Lists!Due(doc) ELSE 0
  BY <1>1, ListMax
<1>3. line = Lists!RowOfBill(doc)
  BY DEF Lists!Row
<1>4. line.kind = doc.kind /\ line.status = doc.status /\ line.paid = doc.paid /\ line.due = Lists!Max({0, Lists!Due(doc)})
  BY <1>3 DEF Lists!RowOfBill
<1>. QED  BY <1>2, <1>4

(* ... and of an estimate.                                                   *)
LEMMA EstimateRow ==
  ASSUME NEW doc \in ListDoc, doc.kind = "estimate", NEW line, line = Lists!Row(doc)
  PROVE  line.kind = doc.kind /\ line.status = doc.status /\ line.taxed = doc.taxed /\ line.booked = doc.booked
         /\ line.sale = doc.sale
BY DEF Lists!Row, Lists!RowOfEstimate

(* What the row of a bill offers is accepted, or refused for what it does not show.*)
LEMMA BillOffers ==
  ASSUME NEW doc \in ListDoc, doc.kind # "estimate", NEW line, line = Lists!Row(doc), NEW what \in Lists!OfferedOnBill(line)
  PROVE  Lists!Accepts(doc, what, IF what = "pay" THEN line.due ELSE 0) \/ Lists!Unseen(doc, what)
<1>1. line.kind = doc.kind /\ line.status = doc.status /\ line.paid = doc.paid
      /\ line.due = IF Lists!Due(doc) >= 0 THEN Lists!Due(doc) ELSE 0
  BY BillRow
<1>2. doc.paid \in Nat /\ doc.noted \in Nat /\ doc.batched \in BOOLEAN
  BY DEF ListDoc
<1>3. CASE what = "pay"
  <2>1. Lists!CanBill /\ line.status = "ISSUED" /\ line.due > 0
    BY <1>3 DEF Lists!OfferedOnBill
  <2>2. Lists!Due(doc) \in Int
    BY ListAssumption DEF ListDoc, Lists!Due
  <2>3. line.due <= Lists!Due(doc)
    BY <1>1, <2>1, <2>2
  <2>4. Lists!Entitled(what) /\ Lists!BillAccepts(doc, what, line.due)
    BY <1>1, <1>3, <2>1, <2>3 DEF Lists!Entitled, Lists!CanBill, Lists!Billing, Lists!BillAccepts
  <2>. QED  BY <1>3, <2>4 DEF Lists!Accepts
<1>4. CASE what = "edit"
  BY <1>1, <1>2, <1>4 DEF Lists!OfferedOnBill, Lists!Accepts, Lists!Entitled, Lists!BillAccepts,
     Lists!CanBill, Lists!Billing, Lists!Unseen
<1>5. CASE what = "cancel"
  BY <1>1, <1>2, <1>5 DEF Lists!OfferedOnBill, Lists!Accepts, Lists!Entitled, Lists!BillAccepts,
     Lists!CanCancel, Lists!Unseen
<1>6. CASE what = "delete"
  BY <1>1, <1>6 DEF Lists!OfferedOnBill, Lists!Accepts, Lists!Entitled, Lists!BillAccepts,
     Lists!CanCancel, Lists!Unseen
<1>. QED  BY <1>3, <1>4, <1>5, <1>6 DEF Lists!OfferedOnBill

(* ... and what the row of an estimate offers.                               *)
LEMMA EstimateOffers ==
  ASSUME NEW doc \in ListDoc, doc.kind = "estimate", DocSound(doc), NEW line, line = Lists!Row(doc),
         NEW what \in Lists!OfferedOnEstimate(line)
  PROVE  Lists!Accepts(doc, what, IF what = "pay" THEN line.due ELSE 0) \/ Lists!Unseen(doc, what)
<1>1. line.kind = doc.kind /\ line.status = doc.status /\ line.taxed = doc.taxed /\ line.booked = doc.booked
  BY EstimateRow
<1>2. doc.paid \in Nat /\ doc.batched \in BOOLEAN /\ doc.booked \in BOOLEAN /\ doc.taxed \in BOOLEAN
  BY DEF ListDoc
<1>3. doc.status # "CONVERTED" => doc.sale = None
  BY DEF DocSound
<1>4. CASE what = "edit"
  BY <1>1, <1>2, <1>4 DEF Lists!OfferedOnEstimate, Lists!Accepts, Lists!Entitled, Lists!EstimateAccepts,
     Lists!CanBill, Lists!Billing, Lists!Unseen
<1>5. CASE what = "cancel"
  BY <1>1, <1>2, <1>5 DEF Lists!OfferedOnEstimate, Lists!Accepts, Lists!Entitled, Lists!EstimateAccepts,
     Lists!CanCancel, Lists!Unseen
<1>6. CASE what = "delete"
  BY <1>1, <1>6 DEF Lists!OfferedOnEstimate, Lists!Accepts, Lists!Entitled, Lists!EstimateAccepts,
     Lists!CanCancel, Lists!Unseen
<1>7. CASE what \in {"accept", "decline"}
  BY <1>1, <1>7 DEF Lists!OfferedOnEstimate, Lists!Accepts, Lists!Entitled, Lists!EstimateAccepts,
     Lists!CanBill, Lists!Billing
<1>8. CASE what = "convert"
  BY <1>1, <1>2, <1>3, <1>8 DEF Lists!OfferedOnEstimate, Lists!Accepts, Lists!Entitled,
     Lists!EstimateAccepts, Lists!CanBill, Lists!Billing, Lists!Unseen
<1>. QED  BY <1>4, <1>5, <1>6, <1>7, <1>8 DEF Lists!OfferedOnEstimate

(* What follows for the user of the lists.                                   *)
LEMMA ListsShow == ListsInv => Lists!OfferedIsAccepted /\ Lists!ListsFollow /\ Lists!StaleRowsAreHarmless
<1>. SUFFICES ASSUME ListsInv PROVE Lists!OfferedIsAccepted /\ Lists!ListsFollow /\ Lists!StaleRowsAreHarmless
  OBVIOUS
<1>1. Lists!OfferedIsAccepted
  <2>. SUFFICES ASSUME NEW d \in Lists!Listed \cap Lists!Stored, shown[d] = Lists!Row(stored[d]), NEW what \in Lists!Offered(shown[d])
                PROVE  \/ Lists!Accepts(stored[d], what, IF what = "pay" THEN shown[d].due ELSE 0)
                       \/ Lists!Unseen(stored[d], what)
    BY DEF Lists!OfferedIsAccepted
  <2>1. PICK doc : doc = stored[d]
    OBVIOUS
  <2>2. PICK line : line = shown[d]
    OBVIOUS
  <2>3. doc \in ListDoc /\ DocSound(doc) /\ line = Lists!Row(doc) /\ what \in Lists!Offered(line)
    BY <2>1, <2>2, StoredDocs DEF ListsInv
  <2>4. CASE doc.kind = "estimate"
    <3>1. what \in Lists!OfferedOnEstimate(line)
      BY <2>3, <2>4, EstimateRow DEF Lists!Offered
    <3>. QED  BY <2>1, <2>2, <2>3, <2>4, <3>1, EstimateOffers
  <2>5. CASE doc.kind # "estimate"
    <3>1. what \in Lists!OfferedOnBill(line)
      BY <2>3, <2>5, BillRow DEF Lists!Offered
    <3>. QED  BY <2>1, <2>2, <2>3, <2>5, <3>1, BillOffers
  <2>. QED  BY <2>4, <2>5
<1>2. Lists!ListsFollow
  <2>. SUFFICES ASSUME still, Lists!Quiet, shown # None
                PROVE  /\ \A d \in Lists!Listed : d \in Lists!Stored /\ stored[d].year = openYear
                                                   /\ shown[d] = Lists!Row(stored[d])
                       /\ \A kind \in Lists!Kinds : Lists!Listed \cap Lists!OfYear(kind) = Lists!Newest(kind)
    BY DEF Lists!ListsFollow
  <2>1. shown = Lists!Rows(Lists!Kinds) /\ Lists!Listed = DOMAIN shown
    BY DEF ListsInv, CalmLists, Lists!Quiet, Lists!Idle, StoredRows, Lists!Listed
  <2>2. \A kind : Lists!Newest(kind) \subseteq Lists!OfYear(kind)
    BY DEF Lists!Newest
  <2>3. \A kind : \A d \in Lists!OfYear(kind) : d \in Lists!Stored /\ stored[d].kind = kind /\ stored[d].year = openYear
    BY DEF Lists!OfYear
  <2>4. \A d : d \in Lists!Listed <=> d \in Lists!Stored /\ stored[d].kind \in Lists!Kinds
                                        /\ d \in Lists!Newest(stored[d].kind)
    BY <2>1, ListedRows
  <2>5. \A d \in Lists!Listed : shown[d] = Lists!Row(stored[d])
    BY <2>1, ListedRows
  <2>6. \A d \in Lists!Listed : d \in Lists!Stored /\ stored[d].year = openYear
    BY <2>2, <2>3, <2>4
  <2>7. \A kind \in Lists!Kinds : Lists!Listed \cap Lists!OfYear(kind) = Lists!Newest(kind)
    BY <2>2, <2>3, <2>4
  <2>. QED  BY <2>5, <2>6, <2>7
<1>3. Lists!StaleRowsAreHarmless
  <2>. SUFFICES ASSUME NEW d \in Lists!Stored
                PROVE  /\ stored[d].kind # "estimate" => stored[d].paid <= stored[d].total
                       /\ stored[d].status = "CONVERTED" <=> stored[d].sale \in Lists!Stored
    BY DEF Lists!StaleRowsAreHarmless
  <2>1. DocSound(stored[d]) /\ None \notin Lists!Stored
    BY StoredDocs, ListAssumption DEF ListsInv, Lists!Stored
  <2>. QED  BY <2>1 DEF DocSound
<1>. QED  BY <1>1, <1>2, <1>3

-----------------------------------------------------------------------------
(* What the variables of the lists hold: who looks at them, and lists of rows, on the
   page and as they are fetched. *)
IsList(f) == \E D \in SUBSET DocIds : f \in [D -> BillRows \cup EstimateRows]
GotLists(q) == q.at = "loading" => \A k \in DOMAIN q.got : IsList(q.got[k])

ListsTyped ==
  /\ \E user \in Users : role = user[1] /\ linked = user[2] /\ openYear = user[3]
  /\ shown = None \/ IsList(shown)
  /\ open \subseteq Lists!Listed
  /\ \A c \in Calls : GotLists(waits[c])

(* A row of a sound document.                                                *)
LEMMA RowTyped ==
  ASSUME NEW doc \in ListDoc, DocSound(doc)
  PROVE  Lists!Row(doc) \in BillRows \cup EstimateRows
<1>1. CASE doc.kind = "estimate"
  BY <1>1 DEF ListDoc, DocSound, Lists!Row, Lists!RowOfEstimate, EstimateRows
<1>2. CASE doc.kind # "estimate"
  <2>1. Lists!Due(doc) \in Int
    BY ListAssumption DEF Lists!Due, ListDoc
  <2>2. PICK due : due = Lists!Max({0, Lists!Due(doc)})
    OBVIOUS
  <2>3. due \in Nat
    BY <2>1, <2>2, ListMax
  <2>4. doc.kind \in {"invoice", "bill"} /\ doc.status \in {"ISSUED", "CANCELLED"} /\ doc.paid \in Nat
    BY <1>2 DEF ListDoc, DocSound, Lists!Kinds
  <2>5. PICK payment \in {"CANCELLED", "PAID", "UNPAID", "PARTIAL"} :
          payment = IF doc.status = "CANCELLED" THEN "CANCELLED"
                    ELSE IF Lists!Due(doc) <= 0 THEN "PAID" ELSE IF Lists!Due(doc) = doc.total THEN "UNPAID" ELSE "PARTIAL"
    OBVIOUS
  <2>6. Lists!Row(doc) = [kind |-> doc.kind, status |-> doc.status, paid |-> doc.paid, due |-> due, payment |-> payment]
    BY <1>2, <2>2, <2>5, Zenon DEF Lists!Row, Lists!RowOfBill
  <2>. QED  BY <2>3, <2>4, <2>6 DEF BillRows
<1>. QED  BY <1>1, <1>2

(* What a fetch answers is a list.                                            *)
LEMMA RowsAreList == ASSUME DocsSound, NEW kinds PROVE IsList(Lists!Rows(kinds))
<1>. PICK D : D = DOMAIN Lists!Rows(kinds)
  OBVIOUS
<1>1. \A d \in Lists!Stored : d \in DocIds /\ Lists!Row(stored[d]) \in BillRows \cup EstimateRows
  BY StoredDocs, RowTyped
<1>2. \A d \in D : d \in DocIds /\ Lists!Rows(kinds)[d] \in BillRows \cup EstimateRows
  BY <1>1, ListedRows
<1>3. Lists!Rows(kinds) = [d \in D |-> Lists!Rows(kinds)[d]]
  BY Zenon DEF Lists!Rows
<1>4. Lists!Rows(kinds) \in [D -> BillRows \cup EstimateRows] /\ D \in SUBSET DocIds
  BY <1>2, <1>3
<1>. QED  BY <1>4, Zenon DEF IsList

(* One call changed to what holds lists.                                      *)
LEMMA GotKept ==
  ASSUME ListsInv, \A b \in Calls : GotLists(waits[b]), NEW c \in Calls, NEW q, GotLists(q),
         waits' = [waits EXCEPT ![c] = q]
  PROVE  \A b \in Calls : GotLists(waits'[b])
<1>1. DOMAIN waits = Calls
  BY DEF ListsInv
<1>2. \A b \in Calls : waits'[b] = IF b = c THEN q ELSE waits[b]
  BY <1>1
<1>. QED  BY <1>2

(* The page starts without lists.                                             *)
LEMMA ListsStartTyped == Lists!Init => ListsTyped
BY DEF Lists!Init, Lists!Idle, Lists!Listed, ListsTyped, GotLists

(* Every step keeps lists lists.                                              *)
LEMMA ListsStayTyped == ListsInv /\ ListsTyped /\ [Lists!Next]_(Lists!vars) => ListsTyped'
<1>. SUFFICES ASSUME ListsInv, ListsTyped, [Lists!Next]_(Lists!vars) PROVE ListsTyped'
  OBVIOUS
<1>1. /\ \E user \in Users : role = user[1] /\ linked = user[2] /\ openYear = user[3]
      /\ shown = None \/ IsList(shown)
      /\ open \subseteq Lists!Listed /\ \A b \in Calls : GotLists(waits[b])
      /\ DocsSound /\ DOMAIN waits = Calls
  BY DEF ListsInv, ListsTyped
<1>2. role' = role /\ linked' = linked /\ openYear' = openYear
  BY DEF Lists!Next, Lists!vars, Lists!Open, Lists!Accepted, Lists!Refused, Lists!Loaded, Lists!LoadFailed,
         Lists!Fetch, Lists!OpenForm, Lists!Send, Lists!Elsewhere
<1>3. ASSUME shown' = shown, open' \subseteq Lists!Listed, \A b \in Calls : GotLists(waits'[b])
      PROVE  ListsTyped'
  <2>1. Lists!Listed' = Lists!Listed
    BY <1>3 DEF Lists!Listed
  <2>2. IsList(shown)' <=> IsList(shown)
    BY <1>3 DEF IsList
  <2>3. (\A b \in Calls : GotLists(waits[b]))'
    BY <1>3 DEF GotLists, IsList
  <2>. QED  BY <1>1, <1>2, <1>3, <2>1, <2>2, <2>3 DEF ListsTyped
<1>4. ASSUME NEW c \in Calls, Lists!Open(c) PROVE ListsTyped'
  <2>1. shown' = None /\ open' = {} /\ waits' = [waits EXCEPT ![c] = Lists!Loading]
    BY <1>4, Zenon DEF Lists!Open
  <2>2. GotLists(Lists!Loading)
    BY DEF GotLists, Lists!Loading
  <2>3. \A b \in Calls : GotLists(waits'[b])
    BY <1>1, <2>1, <2>2, GotKept
  <2>. QED  BY <1>1, <1>2, <2>1, <2>3 DEF ListsTyped, GotLists, IsList
<1>5. ASSUME NEW c \in Calls, Lists!Accepted(c) PROVE ListsTyped'
  <2>1. shown' = shown /\ open' \subseteq open /\ waits' = [waits EXCEPT ![c] = Lists!Loading]
    <3>1. \E d : open' = IF waits[c].what = "pay" THEN open \ {d} ELSE open
      BY <1>5, Zenon DEF Lists!Accepted
    <3>. QED  BY <1>5, <3>1 DEF Lists!Accepted
  <2>2. GotLists(Lists!Loading)
    BY DEF GotLists, Lists!Loading
  <2>3. \A b \in Calls : GotLists(waits'[b])
    BY <1>1, <2>1, <2>2, GotKept
  <2>. QED  BY <1>1, <1>3, <2>1, <2>3
<1>6. ASSUME NEW c \in Calls, Lists!Refused(c) \/ Lists!LoadFailed(c) PROVE ListsTyped'
  <2>1. shown' = shown /\ open' = open /\ waits' = [waits EXCEPT ![c] = Lists!Idle]
    BY <1>6, Zenon DEF Lists!Refused, Lists!LoadFailed
  <2>2. GotLists(Lists!Idle)
    BY DEF GotLists, Lists!Idle
  <2>3. \A b \in Calls : GotLists(waits'[b])
    BY <1>1, <2>1, <2>2, GotKept
  <2>. QED  BY <1>1, <1>3, <2>1, <2>3
<1>7. ASSUME NEW c \in Calls, NEW kinds \in Lists!Fetches, Lists!Fetch(c, kinds) PROVE ListsTyped'
  <2>. PICK got : got = waits[c].got
    OBVIOUS
  <2>. PICK fetched : fetched = [k \in DOMAIN got \cup {kinds} |-> IF k = kinds THEN Lists!Rows(k) ELSE got[k]]
    OBVIOUS
  <2>1. shown' = shown /\ open' = open /\ waits' = [waits EXCEPT ![c].got = fetched] /\ waits[c].at = "loading"
    BY <1>7, Zenon DEF Lists!Fetch
  <2>2. waits[c] = [at |-> "loading", got |-> got]
    BY <2>1 DEF ListsInv, IsCall, Lists!Idle
  <2>3. PICK q : q = [waits[c] EXCEPT !.got = fetched]
    OBVIOUS
  <2>4. waits' = [waits EXCEPT ![c] = q]
    BY <2>1, <2>3
  <2>5. q.got = fetched /\ q.at = "loading"
    BY <2>2, <2>3
  <2>6. \A k \in DOMAIN got : IsList(got[k])
    BY <1>1, <2>1 DEF GotLists
  <2>7. IsList(Lists!Rows(kinds))
    BY <1>1, RowsAreList
  <2>8. \A k \in DOMAIN fetched : IsList(fetched[k])
    <3>. TAKE k \in DOMAIN fetched
    <3>1. k = kinds \/ k \in DOMAIN got
      OBVIOUS
    <3>2. fetched[k] = IF k = kinds THEN Lists!Rows(kinds) ELSE got[k]
      OBVIOUS
    <3>. QED  BY <2>6, <2>7, <3>1, <3>2
  <2>9. GotLists(q)
    BY <2>5, <2>8 DEF GotLists
  <2>10. \A b \in Calls : GotLists(waits'[b])
    BY <1>1, <2>4, <2>9, GotKept
  <2>. QED  BY <1>1, <1>3, <2>1, <2>10
<1>8. ASSUME NEW c \in Calls, Lists!Loaded(c) PROVE ListsTyped'
  <2>. PICK got : got = waits[c].got
    OBVIOUS
  <2>. PICK at : at = [d \in DocIds |-> CHOOSE k \in {j \in Lists!Fetches : d \in DOMAIN got[j]} : TRUE]
    OBVIOUS
  <2>. PICK D : D = {e \in DocIds : {k \in Lists!Fetches : e \in DOMAIN got[k]} # {}}
    OBVIOUS
  <2>1. /\ waits[c].at = "loading" /\ DOMAIN got = Lists!Fetches /\ waits' = [waits EXCEPT ![c] = Lists!Idle]
        /\ shown' = [d \in D |-> got[CHOOSE k \in {j \in Lists!Fetches : d \in DOMAIN got[j]} : TRUE][d]]
        /\ open' = open \cap DOMAIN shown'
    <3>1. /\ waits[c].at = "loading" /\ DOMAIN waits[c].got = Lists!Fetches
          /\ waits' = [waits EXCEPT ![c] = Lists!Idle] /\ open' = open \cap DOMAIN shown'
          /\ shown' = [d \in {e \in DocIds : {k \in Lists!Fetches : e \in DOMAIN waits[c].got[k]} # {}} |->
                         waits[c].got[CHOOSE k \in {j \in Lists!Fetches : d \in DOMAIN waits[c].got[j]} : TRUE][d]]
      BY <1>8, Zenon DEF Lists!Loaded
    <3>. QED  BY <3>1
  <2>2. shown' = [d \in D |-> got[at[d]][d]]
    BY <2>1
  <2>3. \A k \in Lists!Fetches : IsList(got[k])
    BY <1>1, <2>1 DEF GotLists
  <2>4. \A d \in D : d \in DocIds /\ at[d] \in Lists!Fetches /\ d \in DOMAIN got[at[d]]
    OBVIOUS
  <2>5. \A k \in Lists!Fetches : \A d \in DOMAIN got[k] : got[k][d] \in BillRows \cup EstimateRows
    BY <2>3 DEF IsList
  <2>6. \A d \in D : got[at[d]][d] \in BillRows \cup EstimateRows
    BY <2>4, <2>5
  <2>7. shown' \in [D -> BillRows \cup EstimateRows] /\ D \in SUBSET DocIds /\ DOMAIN shown' = D
    BY <2>2, <2>4, <2>6
  <2>8. shown' # None
    BY <2>7, ListAssumption
  <2>9. IsList(shown)'
    BY <2>7, Zenon DEF IsList
  <2>10. open' \subseteq Lists!Listed'
    BY <2>1, <2>8 DEF Lists!Listed
  <2>11. GotLists(Lists!Idle)
    BY DEF GotLists, Lists!Idle
  <2>12. \A b \in Calls : GotLists(waits'[b])
    BY <1>1, <2>1, <2>11, GotKept
  <2>. QED  BY <1>1, <1>2, <2>9, <2>10, <2>12 DEF ListsTyped, GotLists, IsList
<1>9. ASSUME NEW d \in DocIds, Lists!OpenForm(d) PROVE ListsTyped'
  <2>1. shown' = shown /\ open' = open \cup {d} /\ waits' = waits /\ d \in Lists!Listed
    BY <1>9 DEF Lists!OpenForm
  <2>. QED  BY <1>1, <1>3, <2>1
<1>10. ASSUME NEW c \in Calls, NEW d, NEW what, NEW amount, Lists!Send(c, d, what, amount) PROVE ListsTyped'
  <2>1. PICK q : q = [at |-> "sent", doc |-> d, what |-> what, amount |-> amount]
    OBVIOUS
  <2>2. shown' = shown /\ open' = open /\ waits' = [waits EXCEPT ![c] = q]
    BY <1>10, <2>1, Zenon DEF Lists!Send
  <2>3. GotLists(q)
    BY <2>1 DEF GotLists
  <2>4. \A b \in Calls : GotLists(waits'[b])
    BY <1>1, <2>2, <2>3, GotKept
  <2>. QED  BY <1>1, <1>3, <2>2, <2>4
<1>11. ASSUME Lists!Elsewhere \/ UNCHANGED Lists!vars PROVE ListsTyped'
  <2>1. shown' = shown /\ open' = open /\ waits' = waits
    BY <1>11 DEF Lists!Elsewhere, Lists!vars
  <2>. QED  BY <1>1, <1>3, <2>1
<1>. QED  BY <1>4, <1>5, <1>6, <1>7, <1>8, <1>9, <1>10, <1>11, Zenon DEF Lists!Next

-----------------------------------------------------------------------------
(* The sums of the print are the library's.                                  *)
LEMMA PaperSum == ASSUME NEW f, NEW S PROVE Paper!SumFunctionOnSet(f, S) = SumFunctionOnSet(f, S)
BY DEF Paper!SumFunctionOnSet, Paper!FoldFunctionOnSet, Paper!MapThenFoldSet, SumFunctionOnSet,
       FoldFunctionOnSet, MapThenFoldSet
LEMMA PaperTotal == ASSUME NEW f PROVE Paper!Sum(f) = SumFunctionOnSet(f, DOMAIN f)
BY PaperSum DEF Paper!Sum

(* A sequence of amounts comes to their sum: none to nothing, one to itself, ... *)
Comes(s) == SumFunctionOnSet(s, DOMAIN s)
LEMMA ComesToNothing == Comes(<<>>) = 0
<1>1. DOMAIN <<>> = {}
  OBVIOUS
<1>. QED  BY <1>1, SumEmpty DEF Comes

LEMMA ComesToOne == ASSUME NEW a \in Int PROVE Comes(<<a>>) = a
<1>1. PICK s : s = <<a>>
  OBVIOUS
<1>2. DOMAIN s = {1} /\ s[1] = a
  BY <1>1
<1>3. IsFiniteSet({1}) /\ 1 \in {1} /\ \A y \in {1} \ {1} : s[y] = 0
  BY FS_Singleton
<1>4. SumFunctionOnSet(s, {1}) = s[1]
  BY <1>2, <1>3, SumOfOne
<1>. QED  BY <1>1, <1>2, <1>4 DEF Comes

(* The sum of a function whose places are moved up is its sum.               *)
LEMMA SumShifted ==
  ASSUME NEW m \in Nat, NEW n \in Nat,
         NEW t, \A i \in 1..n : t[i] \in Int,
         NEW u, \A i \in 1..n : u[m + i] = t[i]
  PROVE  SumFunctionOnSet(u, (m + 1)..(m + n)) = SumFunctionOnSet(t, 1..n)
<1>1. PICK D : D = 1..n
  OBVIOUS
<1>2. PICK name : name = [i \in D |-> m + i]
  OBVIOUS
<1>3. IsFiniteSet(D)
  BY <1>1, FS_Interval
<1>4. \A x, y \in D : name[x] = name[y] => x = y
  BY <1>1, <1>2
<1>5. \A x \in D : t[x] \in Int
  BY <1>1
<1>6. \A x \in D : u[name[x]] = t[x]
  BY <1>1, <1>2
<1>7. SumFunctionOnSet(u, {name[x] : x \in D}) = SumFunctionOnSet(t, D)
  BY <1>3, <1>4, <1>5, <1>6, SumRenamed
<1>8. (m + 1)..(m + n) = {name[x] : x \in D}
  <2>1. ASSUME NEW x \in (m + 1)..(m + n) PROVE x - m \in D /\ name[x - m] = x
    BY <1>1, <1>2
  <2>2. ASSUME NEW x \in D PROVE name[x] \in (m + 1)..(m + n)
    BY <1>1, <1>2
  <2>. QED  BY <2>1, <2>2, Zenon
<1>. QED  BY <1>1, <1>7, <1>8, Zenon

(* A place of the second of two joined sequences is one of the second.        *)
LEMMA JoinedAt ==
  ASSUME NEW S, NEW s \in Seq(S), NEW t \in Seq(S), NEW k \in 1..Len(t)
  PROVE  (s \o t)[Len(s) + k] = t[k]
OBVIOUS

(* ... and two sequences to what each comes to.                              *)
LEMMA ComesToBoth ==
  ASSUME NEW s \in Seq(Int), NEW t \in Seq(Int)
  PROVE  Comes(s \o t) = Comes(s) + Comes(t) /\ Comes(s) \in Int /\ Comes(t) \in Int
<1>1. PICK m \in Nat : m = Len(s)
  OBVIOUS
<1>2. PICK n \in Nat : n = Len(t)
  OBVIOUS
<1>3. PICK u : u = s \o t
  OBVIOUS
<1>4. PICK name : name = [i \in 1..n |-> m + i]
  OBVIOUS
<1>5. PICK R : R = {name[i] : i \in 1..n}
  OBVIOUS
<1>6. /\ DOMAIN s = 1..m /\ DOMAIN t = 1..n /\ DOMAIN u = 1..(m + n)
      /\ \A i \in 1..m : u[i] = s[i] /\ s[i] \in Int
      /\ \A i \in 1..n : u[m + i] = t[i] /\ t[i] \in Int
  BY <1>1, <1>2, <1>3
<1>7. R = (m + 1)..(m + n)
  <2>1. ASSUME NEW x \in (m + 1)..(m + n) PROVE x \in R
    <3>1. x - m \in 1..n /\ name[x - m] = x
      BY <1>4
    <3>. QED  BY <1>5, <3>1
  <2>2. ASSUME NEW i \in 1..n PROVE name[i] \in (m + 1)..(m + n)
    BY <1>4
  <2>3. R \subseteq (m + 1)..(m + n)
    BY <1>5, <2>2, Zenon
  <2>4. (m + 1)..(m + n) \subseteq R
    BY <2>1, Zenon
  <2>. QED  BY <2>3, <2>4, Zenon
<1>8. 1..(m + n) = (1..m) \cup R /\ (1..m) \cap R = {}
  BY <1>7
<1>9. IsFiniteSet(1..m) /\ IsFiniteSet(1..n) /\ IsFiniteSet(R)
  BY <1>7, FS_Interval
<1>10. \A x \in (1..m) \cup R : u[x] \in Int
  BY <1>4, <1>5, <1>6
<1>11. SumFunctionOnSet(u, 1..(m + n)) = SumFunctionOnSet(u, 1..m) + SumFunctionOnSet(u, R)
  <2>1. SumFunctionOnSet(u, (1..m) \cup R) = SumFunctionOnSet(u, 1..m) + SumFunctionOnSet(u, R)
    BY <1>8, <1>9, <1>10, SumUnion
  <2>. QED  BY <1>8, <2>1
<1>12. SumFunctionOnSet(u, 1..m) = SumFunctionOnSet(s, 1..m)
  BY <1>6, <1>9, SumSame
<1>13. SumFunctionOnSet(u, R) = SumFunctionOnSet(t, 1..n)
  <2>1. \A i \in 1..n : t[i] \in Int
    BY <1>6, Zenon
  <2>2. \A i \in 1..n : u[m + i] = t[i]
    BY <1>6, Zenon
  <2>3. SumFunctionOnSet(u, (m + 1)..(m + n)) = SumFunctionOnSet(t, 1..n)
    BY <2>1, <2>2, SumShifted, Zenon
  <2>. QED  BY <1>7, <2>3, Zenon
<1>14. SumFunctionOnSet(s, 1..m) \in Int /\ SumFunctionOnSet(t, 1..n) \in Int
  BY <1>6, <1>9, SumInt
<1>. QED  BY <1>3, <1>6, <1>11, <1>12, <1>13, <1>14 DEF Comes

(* ... to an integer.                                                      *)
LEMMA ComesToInt == ASSUME NEW s \in Seq(Int) PROVE Comes(s) \in Int
BY ComesToBoth

(* What is spelled, with its units: parts of nothing are left out.            *)
LEMMA PartsSaid ==
  ASSUME NEW p \in Nat, NEW q \in Nat, NEW r \in Nat, NEW s \in Nat,
         NEW a \in Nat, NEW b \in Nat, NEW c \in Nat, NEW d \in Nat,
         a # b, a # c, a # d, b # c, b # d, c # d,
         NEW n, n = p * a + q * b + r * c + s * d
  PROVE  Paper!Spells(Paper!Said({<<p, a>>, <<q, b>>, <<r, c>>, <<s, d>>}), n)
<1>1. PICK P, Q, R, S : P = <<p, a>> /\ Q = <<q, b>> /\ R = <<r, c>> /\ S = <<s, d>>
  OBVIOUS
<1>2. P # Q /\ P # R /\ P # S /\ Q # R /\ Q # S /\ R # S
  BY <1>1
<1>3. PICK U : U = {P, Q, R, S}
  OBVIOUS
<1>4. PICK W : W = Paper!Said(U)
  OBVIOUS
<1>5. W = {x \in U : x[1] # 0}
  BY <1>4 DEF Paper!Said
<1>6. PICK f : f = [x \in W |-> x[1] * x[2]]
  OBVIOUS
<1>7. PICK g : g = [x \in U |-> x[1] * x[2]]
  OBVIOUS
<1>8. g[P] = p * a /\ g[Q] = q * b /\ g[R] = r * c /\ g[S] = s * d
  BY <1>1, <1>3, <1>7
<1>9. p * a \in Int /\ q * b \in Int /\ r * c \in Int /\ s * d \in Int
  OBVIOUS
<1>10. IsFiniteSet({P}) /\ IsFiniteSet({P, Q}) /\ IsFiniteSet({P, Q, R}) /\ IsFiniteSet(U)
  <2>1. IsFiniteSet({P})
    BY FS_Singleton
  <2>2. IsFiniteSet({P} \cup {Q})
    BY <2>1, FS_AddElement
  <2>3. IsFiniteSet(({P} \cup {Q}) \cup {R})
    BY <2>2, FS_AddElement
  <2>4. IsFiniteSet((({P} \cup {Q}) \cup {R}) \cup {S})
    BY <2>3, FS_AddElement
  <2>5. {P} \cup {Q} = {P, Q} /\ {P, Q} \cup {R} = {P, Q, R} /\ {P, Q, R} \cup {S} = U
    BY <1>3
  <2>. QED  BY <2>1, <2>2, <2>3, <2>4, <2>5
<1>11. SumFunctionOnSet(g, {P}) = g[P]
  BY <1>8, <1>9, <1>10, SumOfOne
<1>12. SumFunctionOnSet(g, {P} \cup {Q}) = SumFunctionOnSet(g, {P}) + g[Q]
  <2>1. Q \notin {P} /\ \A y \in {P} \cup {Q} : g[y] \in Int
    BY <1>2, <1>8, <1>9, Zenon
  <2>. QED  BY <1>10, <2>1, SumAdd, Zenon
<1>13. SumFunctionOnSet(g, {P, Q} \cup {R}) = SumFunctionOnSet(g, {P, Q}) + g[R]
  <2>1. R \notin {P, Q} /\ \A y \in {P, Q} \cup {R} : g[y] \in Int
    BY <1>2, <1>8, <1>9
  <2>. QED  BY <1>10, <2>1, SumAdd
<1>14. SumFunctionOnSet(g, {P, Q, R} \cup {S}) = SumFunctionOnSet(g, {P, Q, R}) + g[S]
  <2>1. S \notin {P, Q, R} /\ \A y \in {P, Q, R} \cup {S} : g[y] \in Int
    BY <1>2, <1>8, <1>9
  <2>. QED  BY <1>10, <2>1, SumAdd
<1>15. {P} \cup {Q} = {P, Q} /\ {P, Q} \cup {R} = {P, Q, R} /\ {P, Q, R} \cup {S} = U
  BY <1>3
<1>16. SumFunctionOnSet(g, U) = n
  BY <1>8, <1>9, <1>11, <1>12, <1>13, <1>14, <1>15
<1>17. \A x \in U : g[x] \in Int
  BY <1>3, <1>8, <1>9
<1>18. W \in SUBSET U /\ \A x \in U \ W : g[x] = 0
  BY <1>1, <1>3, <1>5, <1>8
<1>19. SumFunctionOnSet(g, W) = SumFunctionOnSet(g, U)
  BY <1>10, <1>17, <1>18, SumOfSubset
<1>20. SumFunctionOnSet(f, W) = SumFunctionOnSet(g, W)
  <2>1. IsFiniteSet(W)
    BY <1>10, <1>18, FS_Subset
  <2>2. \A x \in W : f[x] = g[x]
    BY <1>6, <1>7, <1>18
  <2>. QED  BY <2>1, <2>2, SumSame
<1>21. Paper!Sum(f) = n
  <2>1. DOMAIN f = W
    BY <1>6
  <2>. QED  BY <1>16, <1>19, <1>20, <2>1, PaperTotal
<1>. QED  BY <1>1, <1>3, <1>4, <1>6, <1>21 DEF Paper!Spells

(* Every amount in the range of the units is said.                            *)
LEMMA WordsSay ==
  ASSUME NEW n \in Nat
  PROVE  /\ n \div 10000000 < 100 => Paper!Spells(Paper!AmountInWords(n), n)
         /\ n \div 1000000000 < 1000 => Paper!Spells(Paper!AmountInWordsIntl(n), n)
<1>1. ASSUME n \div 10000000 < 100 PROVE Paper!Spells(Paper!AmountInWords(n), n)
  <2>1. PICK p \in Nat : p = n \div 10000000
    BY SMT
  <2>2. PICK m \in Nat : m = n % 10000000 /\ n = 10000000 * p + m
    BY <2>1, SMT
  <2>3. PICK q \in Nat : q = m \div 100000
    BY SMT
  <2>4. PICK k \in Nat : k = m % 100000 /\ m = 100000 * q + k /\ k < 100000
    BY <2>3, SMT
  <2>5. n % 100000 = k
    <3>1. n = 100000 * (100 * p + q) + k
      BY <2>2, <2>4, SMT
    <3>2. 100 * p + q \in Nat
      BY SMT
    <3>. QED  BY <2>4, <3>1, <3>2, SMT
  <2>6. PICK r \in Nat : r = k \div 1000
    BY SMT
  <2>7. PICK s \in Nat : s = k % 1000 /\ k = 1000 * r + s /\ s < 1000
    BY <2>6, SMT
  <2>8. n % 1000 = s
    <3>1. n = 1000 * (10000 * p + 100 * q + r) + s
      BY <2>2, <2>4, <2>7, SMT
    <3>2. 10000 * p + 100 * q + r \in Nat
      BY SMT
    <3>. QED  BY <2>7, <3>1, <3>2, SMT
  <2>9. n = p * 10000000 + q * 100000 + r * 1000 + s * 1
    BY <2>2, <2>4, <2>7, SMT
  <2>10. Paper!Spells(Paper!Said({<<p, 10000000>>, <<q, 100000>>, <<r, 1000>>, <<s, 1>>}), n)
    <3>a. PICK a \in Nat : a = 10000000
      BY SMT
    <3>b. PICK b \in Nat : b = 100000
      BY SMT
    <3>c. PICK c \in Nat : c = 1000
      BY SMT
    <3>d. PICK d \in Nat : d = 1
      BY SMT
    <3>1. a \in Nat /\ b \in Nat /\ c \in Nat /\ d \in Nat /\ p \in Nat /\ q \in Nat /\ r \in Nat /\ s \in Nat
      BY <3>a, <3>b, <3>c, <3>d, <2>1, <2>3, <2>6, <2>7, SMT
    <3>2. a # b /\ a # c /\ a # d /\ b # c /\ b # d /\ c # d
      BY <3>a, <3>b, <3>c, <3>d, SMT
    <3>3. n = p * a + q * b + r * c + s * d
      BY <2>9, <3>a, <3>b, <3>c, <3>d, SMT
    <3>4. Paper!Spells(Paper!Said({<<p, a>>, <<q, b>>, <<r, c>>, <<s, d>>}), n)
      BY <3>1, <3>2, <3>3, PartsSaid
    <3>. QED  BY <3>4, <3>a, <3>b, <3>c, <3>d, SMT
  <2>11. (IF n \div 10000000 < 100 THEN n \div 10000000 ELSE 0) = p
    BY <1>1, <2>1, SMT
  <2>12. Paper!AmountInWords(n) = Paper!Said({<<p, 10000000>>, <<q, 100000>>, <<r, 1000>>, <<s, 1>>})
    <3>1. /\ (n % 10000000) \div 100000 = q /\ (n % 100000) \div 1000 = r /\ n % 1000 = s
          /\ (IF n \div 10000000 < 100 THEN n \div 10000000 ELSE 0) = p
      BY <2>2, <2>3, <2>5, <2>6, <2>8, <2>11, SMT
    <3>2. Paper!AmountInWords(n) =
            Paper!Said({<<IF n \div 10000000 < 100 THEN n \div 10000000 ELSE 0, 10000000>>,
                        <<(n % 10000000) \div 100000, 100000>>, <<(n % 100000) \div 1000, 1000>>, <<n % 1000, 1>>})
      BY SMT DEF Paper!AmountInWords
    <3>. QED  BY <3>1, <3>2, SMT
  <2>. QED  BY <2>10, <2>12, SMT
<1>2. ASSUME n \div 1000000000 < 1000 PROVE Paper!Spells(Paper!AmountInWordsIntl(n), n)
  <2>1. PICK p \in Nat : p = n \div 1000000000
    BY SMT
  <2>2. PICK m \in Nat : m = n % 1000000000 /\ n = 1000000000 * p + m /\ m < 1000000000
    BY <2>1, SMT
  <2>3. PICK q \in Nat : q = m \div 1000000
    BY SMT
  <2>4. PICK k \in Nat : k = m % 1000000 /\ m = 1000000 * q + k /\ k < 1000000
    BY <2>3, SMT
  <2>5. PICK r \in Nat : r = k \div 1000
    BY SMT
  <2>6. PICK s \in Nat : s = k % 1000 /\ k = 1000 * r + s /\ s < 1000
    BY <2>5, SMT
  <2>7. q < 1000 /\ r < 1000
    BY <2>2, <2>3, <2>4, <2>5, SMT
  <2>8. p % 1000 = p
    BY <1>2, <2>1, SMT
  <2>9. (n \div 1000000) % 1000 = q
    <3>1. n = 1000000 * (1000 * p + q) + k
      BY <2>2, <2>4, SMT
    <3>2. n \div 1000000 = 1000 * p + q
      BY <2>4, <3>1, SMT
    <3>. QED  BY <2>7, <3>2, SMT
  <2>10. (n \div 1000) % 1000 = r
    <3>1. n = 1000 * (1000000 * p + 1000 * q + r) + s
      BY <2>2, <2>4, <2>6, SMT
    <3>2. n \div 1000 = 1000000 * p + 1000 * q + r
      BY <2>6, <3>1, SMT
    <3>3. PICK w \in Nat : w = 1000 * p + q
      BY SMT
    <3>4. n \div 1000 = 1000 * w + r
      BY <3>2, <3>3, SMT
    <3>. QED  BY <2>7, <3>4, SMT
  <2>11. n % 1000 = s
    <3>1. PICK w \in Nat : w = 1000000 * p + 1000 * q + r
      BY SMT
    <3>2. n = 1000 * w + s
      BY <2>2, <2>4, <2>6, <3>1, SMT
    <3>. QED  BY <2>6, <3>2, SMT
  <2>12. n = p * 1000000000 + q * 1000000 + r * 1000 + s * 1
    BY <2>2, <2>4, <2>6, SMT
  <2>13. Paper!Spells(Paper!Said({<<p, 1000000000>>, <<q, 1000000>>, <<r, 1000>>, <<s, 1>>}), n)
    <3>a. PICK a \in Nat : a = 1000000000
      BY SMT
    <3>b. PICK b \in Nat : b = 1000000
      BY SMT
    <3>c. PICK c \in Nat : c = 1000
      BY SMT
    <3>d. PICK d \in Nat : d = 1
      BY SMT
    <3>1. a \in Nat /\ b \in Nat /\ c \in Nat /\ d \in Nat /\ p \in Nat /\ q \in Nat /\ r \in Nat /\ s \in Nat
      BY <3>a, <3>b, <3>c, <3>d, <2>1, <2>3, <2>5, <2>6, SMT
    <3>2. a # b /\ a # c /\ a # d /\ b # c /\ b # d /\ c # d
      BY <3>a, <3>b, <3>c, <3>d, SMT
    <3>3. n = p * a + q * b + r * c + s * d
      BY <2>12, <3>a, <3>b, <3>c, <3>d, SMT
    <3>4. Paper!Spells(Paper!Said({<<p, a>>, <<q, b>>, <<r, c>>, <<s, d>>}), n)
      BY <3>1, <3>2, <3>3, PartsSaid
    <3>. QED  BY <3>4, <3>a, <3>b, <3>c, <3>d, SMT
  <2>14. Paper!AmountInWordsIntl(n) = Paper!Said({<<p, 1000000000>>, <<q, 1000000>>, <<r, 1000>>, <<s, 1>>})
    <3>1. /\ (n \div 1000000000) % 1000 = p /\ (n \div 1000000) % 1000 = q /\ (n \div 1000) % 1000 = r
          /\ n % 1000 = s
      BY <2>1, <2>8, <2>9, <2>10, <2>11, SMT
    <3>2. Paper!AmountInWordsIntl(n) =
            Paper!Said({<<(n \div 1000000000) % 1000, 1000000000>>, <<(n \div 1000000) % 1000, 1000000>>,
                        <<(n \div 1000) % 1000, 1000>>, <<n % 1000, 1>>})
      BY SMT DEF Paper!AmountInWordsIntl
    <3>. QED  BY <3>1, <3>2, SMT
  <2>. QED  BY <2>13, <2>14, SMT
<1>. QED  BY <1>1, <1>2, SMT


-----------------------------------------------------------------------------
(* A block takes no more than it asks for, but for the words of the tax, which take
   a gap more, and none that must stand whole is taller than two hundred points
   but the rows, the tax table and the notes. *)
Whats == {"row", "total", "words", "tax", "label", "taxWords", "notes", "bank", "sign", "totals", "text", "bottom"}
Fitted(b) ==
  /\ b.what \notin {"label", "taxWords", "bottom"} => b.take <= b.need
  /\ b.what \in {"total", "words", "bank", "totals", "text", "sign", "taxWords"} => b.take <= 200
  /\ b.what = "taxWords" => b.take <= b.need + 4
  /\ b.what = "sign" => b.take + 12 <= b.need + b.slack
  /\ b.what = "label" => b.amount = 0
Blocks ==
  {b \in [what : Whats, need : Nat, take : Nat, slack : Nat, amount : Int] : Fitted(b)}

(* What a sequence of blocks prints.                                         *)
Printed(s) == [i \in DOMAIN s |-> s[i].amount]
Worth(s) == Comes(Printed(s))

(* Each block prints one amount.                                             *)
LEMMA PrintedInts ==
  ASSUME NEW s \in Seq(Blocks)
  PROVE  Printed(s) \in Seq(Int) /\ Len(Printed(s)) = Len(s) /\ \A i \in 1..Len(s) : Printed(s)[i] = s[i].amount
<1>1. PICK n \in Nat : n = Len(s)
  OBVIOUS
<1>2. DOMAIN s = 1..n /\ \A i \in 1..n : s[i] \in Blocks
  BY <1>1
<1>3. \A i \in 1..n : s[i].amount \in Int
  BY <1>2 DEF Blocks
<1>4. Printed(s) \in [1..n -> Int]
  BY <1>2, <1>3 DEF Printed
<1>5. Printed(s) \in Seq(Int)
  BY <1>4, SeqDef
<1>6. Len(Printed(s)) = n
  BY <1>4, <1>5, LenProperties
<1>. QED  BY <1>1, <1>2, <1>5, <1>6 DEF Printed

(* Two sequences of blocks print what each prints, ...                       *)
LEMMA WorthOfBoth ==
  ASSUME NEW s \in Seq(Blocks), NEW t \in Seq(Blocks)
  PROVE  s \o t \in Seq(Blocks) /\ Worth(s \o t) = Worth(s) + Worth(t) /\ Worth(s) \in Int /\ Worth(t) \in Int
<1>1. PICK u : u = s \o t
  OBVIOUS
<1>2. u \in Seq(Blocks) /\ Len(u) = Len(s) + Len(t)
  BY <1>1
<1>3. PICK a \in Seq(Int) : a = Printed(s) /\ Len(a) = Len(s) /\ \A i \in 1..Len(s) : a[i] = s[i].amount
  BY PrintedInts
<1>4. PICK b \in Seq(Int) : b = Printed(t) /\ Len(b) = Len(t) /\ \A i \in 1..Len(t) : b[i] = t[i].amount
  BY PrintedInts
<1>5. PICK c \in Seq(Int) : c = Printed(u) /\ Len(c) = Len(u) /\ \A i \in 1..Len(u) : c[i] = u[i].amount
  BY <1>2, PrintedInts
<1>6. PICK d \in Seq(Int) : d = a \o b /\ Len(d) = Len(a) + Len(b)
  BY ConcatProperties
<1>7. Len(d) = Len(c)
  BY <1>2, <1>3, <1>4, <1>5, <1>6
<1>8. \A i \in 1..Len(c) : c[i] = d[i]
  <2>. SUFFICES ASSUME NEW i \in 1..Len(c) PROVE c[i] = d[i]
    OBVIOUS
  <2>. PICK m \in Nat : m = Len(s)
    OBVIOUS
  <2>. PICK n \in Nat : n = Len(t)
    OBVIOUS
  <2>0. i \in 1..(m + n) /\ Len(a) = m /\ Len(b) = n
    BY <1>2, <1>3, <1>4, <1>5
  <2>1. CASE i \in 1..m
    <3>1. u[i] = s[i]
      BY <1>1, <2>1
    <3>2. d[i] = a[i]
      BY <1>6, <2>0, <2>1
    <3>. QED  BY <1>3, <1>5, <2>1, <3>1, <3>2
  <2>2. CASE i \notin 1..m
    <3>0. i - m \in 1..n
      BY <2>0, <2>2
    <3>1. u[i] = t[i - m]
      BY <1>1, <2>0, <2>2
    <3>2. d[i] = b[i - m]
      <4>1. PICK k \in 1..n : k = i - m
        BY <3>0, Zenon
      <4>2. k \in 1..Len(b) /\ i = Len(a) + k
        BY <2>0, <4>1
      <4>3. (a \o b)[Len(a) + k] = b[k]
        BY <4>2, JoinedAt, Zenon
      <4>. QED  BY <1>6, <4>1, <4>2, <4>3, Zenon
    <3>. QED  BY <1>4, <1>5, <3>0, <3>1, <3>2
  <2>. QED  BY <2>1, <2>2
<1>9. c = d
  BY <1>7, <1>8, SeqEqual
<1>10. Comes(d) = Comes(a) + Comes(b) /\ Comes(a) \in Int /\ Comes(b) \in Int
  BY <1>6, ComesToBoth
<1>. QED  BY <1>1, <1>2, <1>3, <1>4, <1>5, <1>9, <1>10 DEF Worth

(* A sequence of one.                                                        *)
LEMMA AsSequence == ASSUME NEW S, NEW e \in S PROVE <<e>> \in Seq(S)
OBVIOUS

(* ... one block its amount, ...                                             *)
LEMMA WorthOfOne ==
  ASSUME NEW b \in Blocks
  PROVE  <<b>> \in Seq(Blocks) /\ Worth(<<b>>) = b.amount
<1>1. PICK s \in Seq(Blocks) : s = <<b>>
  BY AsSequence
<1>2. DOMAIN s = {1} /\ s[1] = b
  BY <1>1
<1>3. Printed(s) = [i \in {1} |-> s[i].amount]
  BY <1>2 DEF Printed
<1>4. DOMAIN Printed(s) = {1} /\ Printed(s)[1] = b.amount
  BY <1>2, <1>3
<1>5. b.amount \in Int
  BY DEF Blocks
<1>6. IsFiniteSet({1}) /\ 1 \in {1} /\ \A y \in {1} \ {1} : Printed(s)[y] = 0
  BY FS_Singleton
<1>7. SumFunctionOnSet(Printed(s), {1}) = Printed(s)[1]
  BY <1>4, <1>5, <1>6, SumOfOne
<1>. QED  BY <1>1, <1>4, <1>7 DEF Worth, Comes

(* ... none nothing, ...                                                     *)
LEMMA WorthOfNone == <<>> \in Seq(Blocks) /\ Worth(<<>>) = 0
<1>1. PICK s : s = <<>>
  OBVIOUS
<1>2. DOMAIN s = {}
  BY <1>1
<1>3. DOMAIN Printed(s) = {}
  BY <1>2 DEF Printed
<1>. QED  BY <1>1, <1>3, SumEmpty DEF Worth, Comes

(* ... and the first of them its own besides what the others print.          *)
LEMMA WorthOfNext ==
  ASSUME NEW s \in Seq(Blocks), s # <<>>
  PROVE  /\ Head(s) \in Blocks /\ Tail(s) \in Seq(Blocks)
         /\ Worth(s) = Head(s).amount + Worth(Tail(s)) /\ Worth(Tail(s)) \in Int /\ Head(s).amount \in Int
<1>1. PICK h \in Blocks : h = Head(s)
  BY HeadTailProperties
<1>2. PICK t \in Seq(Blocks) : t = Tail(s)
  BY HeadTailProperties
<1>3. s = <<h>> \o t
  BY <1>1, <1>2
<1>4. PICK o \in Seq(Blocks) : o = <<h>> /\ Worth(o) = h.amount
  BY WorthOfOne
<1>5. Worth(o \o t) = Worth(o) + Worth(t) /\ Worth(o) \in Int /\ Worth(t) \in Int
  BY WorthOfBoth
<1>. QED  BY <1>1, <1>2, <1>3, <1>4, <1>5

(* The rows of a table print their amounts.                                  *)
LEMMA WorthOfRows ==
  ASSUME NEW amounts \in Seq(Int), NEW tall, \A i \in DOMAIN amounts : tall[i] \in Nat, NEW slack \in Nat
  PROVE  /\ Paper!Rows("row", amounts, tall, slack) \in Seq(Blocks)
         /\ Worth(Paper!Rows("row", amounts, tall, slack)) = Comes(amounts)
<1>1. PICK n \in Nat : n = Len(amounts)
  OBVIOUS
<1>2. PICK s : s = Paper!Rows("row", amounts, tall, slack)
  OBVIOUS
<1>3. DOMAIN amounts = 1..n /\ \A i \in 1..n : amounts[i] \in Int
  BY <1>1
<1>4. s = [i \in 1..n |-> [what |-> "row", need |-> tall[i], take |-> tall[i], slack |-> slack, amount |-> amounts[i]]]
  BY <1>2, <1>3 DEF Paper!Rows, Paper!Block
<1>5. ASSUME NEW i \in 1..n PROVE s[i] \in Blocks
  <2>1. PICK h \in Nat : h = tall[i]
    BY <1>3
  <2>2. PICK v \in Int : v = amounts[i]
    BY <1>3
  <2>3. s[i] = [what |-> "row", need |-> h, take |-> h, slack |-> slack, amount |-> v]
    BY <1>4, <2>1, <2>2
  <2>. QED  BY <2>3 DEF Blocks, Fitted, Whats
<1>6. s \in Seq(Blocks)
  <2>1. s \in [1..n -> Blocks]
    BY <1>4, <1>5
  <2>. QED  BY <2>1, SeqDef
<1>7. Printed(s) = amounts
  <2>1. DOMAIN s = 1..n /\ \A i \in 1..n : s[i].amount = amounts[i]
    BY <1>4
  <2>2. Printed(s) = [i \in 1..n |-> amounts[i]]
    BY <2>1 DEF Printed
  <2>. QED  BY <1>3, <2>2
<1>. QED  BY <1>2, <1>6, <1>7 DEF Worth

(* The amounts of the lines of a document.                                   *)
LineTaxable(doc) == [i \in DOMAIN doc.lines |-> doc.lines[i].taxable]
LineCgst(doc) == [i \in DOMAIN doc.lines |-> doc.lines[i].cgst]
LineSgst(doc) == [i \in DOMAIN doc.lines |-> doc.lines[i].sgst]
LineIgst(doc) == [i \in DOMAIN doc.lines |-> doc.lines[i].igst]

(* Its lines are a sequence of lines the calculator made.                    *)
LEMMA SavedLines ==
  ASSUME NEW doc \in Documents
  PROVE  /\ DOMAIN doc.lines = 1..Len(doc.lines) /\ Len(doc.lines) \in Nat /\ IsFiniteSet(DOMAIN doc.lines)
         /\ \A i \in DOMAIN doc.lines : Paper!LineSaved(doc.lines[i], doc.inter)
         /\ doc.gross \in Nat /\ doc.freight \in Nat /\ doc.other \in Nat /\ doc.notes \in Nat
         /\ doc.bill = Paper!Calculated(doc.lines, doc.freight + doc.other)
<1>1. Paper!Saved(doc)
  BY PaperAssumption
<1>2. PICK S : S = {doc.lines[i] : i \in DOMAIN doc.lines}
  OBVIOUS
<1>3. PICK lines : lines = doc.lines
  OBVIOUS
<1>4. lines \in Seq(S)
  BY <1>1, <1>2, <1>3, Zenon DEF Paper!Saved
<1>5. DOMAIN lines = 1..Len(lines) /\ Len(lines) \in Nat
  BY <1>4
<1>6. IsFiniteSet(1..Len(lines))
  BY <1>5, FS_Interval
<1>. QED  BY <1>1, <1>3, <1>5, <1>6 DEF Paper!Saved

(* Its bill adds up, its tax is that of one side of the border, and there is no SGST
   without CGST. *)
LEMMA SavedBill ==
  ASSUME NEW doc \in Documents
  PROVE  /\ doc.bill.taxable = SumFunctionOnSet(LineTaxable(doc), DOMAIN doc.lines)
         /\ doc.bill.cgst = SumFunctionOnSet(LineCgst(doc), DOMAIN doc.lines)
         /\ doc.bill.sgst = SumFunctionOnSet(LineSgst(doc), DOMAIN doc.lines)
         /\ doc.bill.igst = SumFunctionOnSet(LineIgst(doc), DOMAIN doc.lines)
         /\ doc.bill.taxable \in Nat /\ doc.bill.cgst \in Nat /\ doc.bill.sgst \in Nat /\ doc.bill.igst \in Nat
         /\ doc.bill.extra = doc.freight + doc.other
         /\ doc.bill.roundOff \in Int /\ doc.bill.total \in Nat
         /\ doc.bill.total = doc.bill.taxable + doc.bill.cgst + doc.bill.sgst + doc.bill.igst
                               + doc.freight + doc.other + doc.bill.roundOff
         /\ IF doc.inter THEN doc.bill.cgst = 0 ELSE doc.bill.igst = 0
         /\ doc.bill.cgst = 0 => doc.bill.sgst = 0
<1>1. PICK D : D = DOMAIN doc.lines
  OBVIOUS
<1>2. IsFiniteSet(D) /\ \A i \in D : Paper!LineSaved(doc.lines[i], doc.inter)
  BY <1>1, SavedLines
<1>3. PICK t, c, s, g : t = LineTaxable(doc) /\ c = LineCgst(doc) /\ s = LineSgst(doc) /\ g = LineIgst(doc)
  OBVIOUS
<1>4. /\ \A i \in D : t[i] = doc.lines[i].taxable /\ c[i] = doc.lines[i].cgst /\ s[i] = doc.lines[i].sgst
                        /\ g[i] = doc.lines[i].igst
  BY <1>1, <1>3 DEF LineTaxable, LineCgst, LineSgst, LineIgst
<1>5. /\ \A i \in D : t[i] \in Nat
      /\ \A i \in D : c[i] \in Nat
      /\ \A i \in D : s[i] \in Nat
      /\ \A i \in D : g[i] \in Nat
  BY <1>2, <1>4 DEF Paper!LineSaved
<1>6. PICK b : b = doc.bill
  OBVIOUS
<1>7. PICK extra \in Nat : extra = doc.freight + doc.other
  BY SavedLines
<1>8. /\ b.taxable = SumFunctionOnSet(t, D) /\ b.cgst = SumFunctionOnSet(c, D)
      /\ b.sgst = SumFunctionOnSet(s, D) /\ b.igst = SumFunctionOnSet(g, D)
      /\ b.extra = extra
      /\ b.total = 100 * Paper!Round(b.taxable + b.cgst + b.sgst + b.igst + extra, 100)
      /\ b.roundOff = b.total - (b.taxable + b.cgst + b.sgst + b.igst + extra)
  <2>1. b = Paper!Calculated(doc.lines, extra)
    BY <1>6, <1>7, SavedLines
  <2>2. \A f, S : Paper!SumFunctionOnSet(f, S) = SumFunctionOnSet(f, S)
    BY PaperSum
  <2>. QED  BY <1>1, <1>3, <2>1, <2>2, SMT
              DEF Paper!Calculated, Paper!SumOver, LineTaxable, LineCgst, LineSgst, LineIgst, Paper!Rupee
<1>9. b.taxable \in Nat /\ b.cgst \in Nat /\ b.sgst \in Nat /\ b.igst \in Nat
  <2>1. SumFunctionOnSet(t, D) \in Nat /\ SumFunctionOnSet(c, D) \in Nat
    BY <1>2, <1>5, SumNat
  <2>2. SumFunctionOnSet(s, D) \in Nat /\ SumFunctionOnSet(g, D) \in Nat
    BY <1>2, <1>5, SumNat
  <2>. QED  BY <1>8, <2>1, <2>2
<1>10. b.total \in Nat /\ b.roundOff \in Int
         /\ b.total = b.taxable + b.cgst + b.sgst + b.igst + doc.freight + doc.other + b.roundOff
  <2>1. PICK exact \in Nat : exact = b.taxable + b.cgst + b.sgst + b.igst + extra
    BY <1>9
  <2>2. PICK r \in Nat : r = Paper!Round(exact, 100)
    BY SMT DEF Paper!Round
  <2>3. b.total = 100 * r /\ b.roundOff = 100 * r - exact
    BY <1>8, <2>1, <2>2
  <2>4. b.total = exact + b.roundOff
    BY <2>3
  <2>5. PICK freight \in Nat, other \in Nat : freight = doc.freight /\ other = doc.other
    BY SavedLines
  <2>6. PICK p \in Nat, q \in Nat, u \in Nat, v \in Nat :
          p = b.taxable /\ q = b.cgst /\ u = b.sgst /\ v = b.igst
    BY <1>9
  <2>7. exact = p + q + u + v + freight + other
    BY <1>7, <2>1, <2>5, <2>6
  <2>8. b.total \in Nat /\ b.roundOff \in Int
    BY <2>3
  <2>. QED  BY <2>4, <2>5, <2>6, <2>7, <2>8
<1>11. IF doc.inter THEN b.cgst = 0 ELSE b.igst = 0
  <2>1. CASE doc.inter
    <3>1. \A i \in D : c[i] = 0
      BY <1>2, <1>4, <2>1 DEF Paper!LineSaved
    <3>2. SumFunctionOnSet(c, D) = 0
      BY <1>2, <3>1, SumZero
    <3>. QED  BY <1>8, <2>1, <3>2
  <2>2. CASE ~ doc.inter
    <3>1. \A i \in D : g[i] = 0
      BY <1>2, <1>4, <2>2 DEF Paper!LineSaved
    <3>2. SumFunctionOnSet(g, D) = 0
      BY <1>2, <3>1, SumZero
    <3>. QED  BY <1>8, <2>2, <3>2
  <2>. QED  BY <2>1, <2>2
<1>12. ASSUME b.cgst = 0 PROVE b.sgst = 0
  <2>1. \A i \in D : c[i] <= SumFunctionOnSet(c, D)
    BY <1>2, <1>5, SumNat
  <2>2. \A i \in D : c[i] = 0
    BY <1>5, <1>8, <1>12, <2>1
  <2>3. \A i \in D : s[i] = 0
    BY <1>2, <1>4, <2>2 DEF Paper!LineSaved
  <2>4. SumFunctionOnSet(s, D) = 0
    BY <1>2, <2>3, SumZero
  <2>. QED  BY <1>8, <2>4
<1>13. b.taxable = SumFunctionOnSet(LineTaxable(doc), DOMAIN doc.lines)
       /\ b.cgst = SumFunctionOnSet(LineCgst(doc), DOMAIN doc.lines)
       /\ b.sgst = SumFunctionOnSet(LineSgst(doc), DOMAIN doc.lines)
       /\ b.igst = SumFunctionOnSet(LineIgst(doc), DOMAIN doc.lines)
       /\ b.extra = doc.freight + doc.other
  BY <1>1, <1>3, <1>7, <1>8, Zenon
<1>. QED  BY <1>6, <1>9, <1>10, <1>11, <1>12, <1>13

(* A sequence of two, ...                                                     *)
LEMMA AsPair ==
  ASSUME NEW S, NEW a \in S, NEW b \in S
  PROVE  <<a>> \o <<b>> = <<a, b>>
<1>1. PICK s \in Seq(S) : s = <<a>>
  BY AsSequence
<1>2. PICK t \in Seq(S) : t = <<b>>
  BY AsSequence
<1>. PICK u : u = <<a, b>>
  OBVIOUS
<1>. PICK v : v = s \o t
  OBVIOUS
<1>3. u \in Seq(S)
  OBVIOUS
<1>4. v \in Seq(S) /\ Len(v) = Len(s) + Len(t)
             /\ \A i \in 1..(Len(s) + Len(t)) : v[i] = IF i <= Len(s) THEN s[i] ELSE t[i - Len(s)]
  BY ConcatProperties
<1>5. Len(s) = 1 /\ Len(t) = 1 /\ Len(u) = 2 /\ s[1] = a /\ t[1] = b /\ u[1] = a /\ u[2] = b
  BY <1>1, <1>2, <1>3
<1>6. Len(v) = Len(u) /\ \A i \in 1..Len(u) : u[i] = v[i]
  BY <1>4, <1>5
<1>7. u = v
  BY <1>3, <1>4, <1>6, SeqEqual, Zenon
<1>. QED  BY <1>1, <1>2, <1>3, <1>4, <1>7

(* ... and of three.                                                       *)
LEMMA AsTriple ==
  ASSUME NEW S, NEW a \in S, NEW b \in S, NEW c \in S
  PROVE  <<a, b>> \o <<c>> = <<a, b, c>>
<1>. PICK s : s = <<a, b>>
  OBVIOUS
<1>. PICK t : t = <<c>>
  OBVIOUS
<1>. PICK u : u = <<a, b, c>>
  OBVIOUS
<1>. PICK v : v = s \o t
  OBVIOUS
<1>1. s \in Seq(S) /\ t \in Seq(S) /\ u \in Seq(S)
  OBVIOUS
<1>2. v \in Seq(S) /\ Len(v) = Len(s) + Len(t)
             /\ \A i \in 1..(Len(s) + Len(t)) : v[i] = IF i <= Len(s) THEN s[i] ELSE t[i - Len(s)]
  BY <1>1, ConcatProperties
<1>3. Len(s) = 2 /\ Len(t) = 1 /\ Len(u) = 3 /\ s[1] = a /\ s[2] = b /\ t[1] = c
        /\ u[1] = a /\ u[2] = b /\ u[3] = c
  OBVIOUS
<1>4. Len(v) = Len(u) /\ \A i \in 1..Len(u) : u[i] = v[i]
  BY <1>2, <1>3
<1>5. u = v
  BY <1>1, <1>2, <1>4, SeqEqual
<1>. QED  BY <1>5

(* Two amounts come to their sum, and what is joined to the sums of the parts. *)
LEMMA ComesToTwo ==
  ASSUME NEW a \in Int, NEW b \in Int
  PROVE  <<a, b>> \in Seq(Int) /\ Comes(<<a, b>>) = a + b
<1>1. PICK s \in Seq(Int) : s = <<a>>
  BY AsSequence
<1>2. PICK t \in Seq(Int) : t = <<b>>
  BY AsSequence
<1>3. PICK u : u = s \o t
  OBVIOUS
<1>4. u = <<a, b>>
  BY <1>1, <1>2, <1>3, AsPair
<1>5. Comes(u) = Comes(s) + Comes(t) /\ u \in Seq(Int)
  BY <1>3, ComesToBoth
<1>6. Comes(s) = a /\ Comes(t) = b
  BY <1>1, <1>2, ComesToOne
<1>. QED  BY <1>4, <1>5, <1>6

LEMMA ComesJoined ==
  ASSUME NEW s, NEW t, s \in Seq(Int), t \in Seq(Int)
  PROVE  /\ s \o t \in Seq(Int) /\ Comes(s \o t) = Comes(s) + Comes(t) /\ Comes(s) \in Int /\ Comes(t) \in Int
         /\ Len(s \o t) = Len(s) + Len(t) /\ Len(s) \in Nat /\ Len(t) \in Nat
BY ComesToBoth, ConcatProperties

(* The row of a charge comes to the charge, that of the rounding to the rounding, and
   those of the tax to the tax. *)
LEMMA ComesPositive ==
  ASSUME NEW amount \in Nat
  PROVE  Paper!Positive(amount) \in Seq(Int) /\ Comes(Paper!Positive(amount)) = amount
<1>1. CASE amount > 0
  <2>1. Paper!Positive(amount) = <<amount>> /\ <<amount>> \in Seq(Int)
    BY <1>1 DEF Paper!Positive
  <2>. QED  BY <2>1, ComesToOne
<1>2. CASE ~ amount > 0
  <2>1. Paper!Positive(amount) = <<>> /\ <<>> \in Seq(Int) /\ amount = 0
    BY <1>2 DEF Paper!Positive
  <2>. QED  BY <2>1, ComesToNothing
<1>. QED  BY <1>1, <1>2

LEMMA ComesRoundOff ==
  ASSUME NEW doc \in Documents
  PROVE  Paper!RoundOffRow(doc) \in Seq(Int) /\ Comes(Paper!RoundOffRow(doc)) = doc.bill.roundOff
<1>1. PICK r \in Int : r = doc.bill.roundOff
  BY SavedBill
<1>2. CASE r # 0
  <2>1. Paper!RoundOffRow(doc) = <<r>> /\ <<r>> \in Seq(Int)
    BY <1>1, <1>2 DEF Paper!RoundOffRow
  <2>. QED  BY <1>1, <2>1, ComesToOne
<1>3. CASE r = 0
  <2>1. Paper!RoundOffRow(doc) = <<>> /\ <<>> \in Seq(Int)
    BY <1>1, <1>3 DEF Paper!RoundOffRow
  <2>. QED  BY <1>1, <1>3, <2>1, ComesToNothing
<1>. QED  BY <1>2, <1>3

LEMMA ComesTaxes ==
  ASSUME NEW doc \in Documents
  PROVE  Paper!TaxRows(doc) \in Seq(Int) /\ Comes(Paper!TaxRows(doc)) = Paper!TaxOf(doc)
<1>1. PICK c, s, g \in Nat : c = doc.bill.cgst /\ s = doc.bill.sgst /\ g = doc.bill.igst
  BY SavedBill
<1>2. IF doc.inter THEN c = 0 /\ s = 0 ELSE g = 0
  BY <1>1, SavedBill
<1>3. Paper!TaxOf(doc) = c + s + g
  BY <1>1 DEF Paper!TaxOf
<1>4. CASE doc.inter
  <2>1. Paper!TaxRows(doc) = <<g>> /\ <<g>> \in Seq(Int) /\ c + s + g = g
    BY <1>1, <1>2, <1>4 DEF Paper!TaxRows
  <2>. QED  BY <1>3, <2>1, ComesToOne
<1>5. CASE ~ doc.inter
  <2>1. Paper!TaxRows(doc) = <<c, s>> /\ c + s + g = c + s
    BY <1>1, <1>2, <1>5 DEF Paper!TaxRows
  <2>. QED  BY <1>3, <2>1, ComesToTwo
<1>. QED  BY <1>4, <1>5

(* The grid comes to the total, without the tax where it is not shown.       *)
LEMMA TallyWorth ==
  ASSUME NEW doc \in Documents, NEW l, NEW heights \in [DOMAIN doc.lines -> Heights]
  PROVE  /\ Paper!TallyTable(doc, l, heights) \in Seq(Blocks)
         /\ Worth(Paper!TallyTable(doc, l, heights)) =
              doc.bill.total - (IF Paper!ShowGst(doc, l) THEN 0 ELSE Paper!TaxOf(doc))
<1>1. PICK n \in Nat : n = Len(doc.lines) /\ DOMAIN doc.lines = 1..n
  BY SavedLines
<1>2. PICK first : first = [i \in DOMAIN doc.lines |-> doc.lines[i].taxable]
  OBVIOUS
<1>3. first \in Seq(Int) /\ Comes(first) = doc.bill.taxable
  <2>1. first = LineTaxable(doc) /\ DOMAIN first = 1..n
    BY <1>1, <1>2 DEF LineTaxable
  <2>2. \A i \in 1..n : first[i] \in Int
    BY <1>1, <1>2, SavedLines DEF Paper!LineSaved
  <2>3. first \in [1..n -> Int]
    BY <1>1, <1>2, <2>2
  <2>4. doc.bill.taxable = SumFunctionOnSet(first, DOMAIN first)
    BY <1>1, <2>1, SavedBill
  <2>. QED  BY <2>3, <2>4, SeqDef DEF Comes
<1>4. PICK taxes : taxes = IF Paper!ShowGst(doc, l) THEN Paper!TaxRows(doc) ELSE <<>>
  OBVIOUS
<1>5. taxes \in Seq(Int) /\ Comes(taxes) = IF Paper!ShowGst(doc, l) THEN Paper!TaxOf(doc) ELSE 0
  <2>1. CASE Paper!ShowGst(doc, l)
    BY <1>4, <2>1, ComesTaxes
  <2>2. CASE ~ Paper!ShowGst(doc, l)
    <3>1. taxes = <<>> /\ <<>> \in Seq(Int)
      BY <1>4, <2>2
    <3>. QED  BY <2>2, <3>1, ComesToNothing
  <2>. QED  BY <2>1, <2>2
<1>6. PICK freight \in Seq(Int) : freight = Paper!Positive(doc.freight) /\ Comes(freight) = doc.freight
  BY SavedLines, ComesPositive
<1>7. PICK other \in Seq(Int) : other = Paper!Positive(doc.other) /\ Comes(other) = doc.other
  BY SavedLines, ComesPositive
<1>8. PICK off \in Seq(Int) : off = Paper!RoundOffRow(doc) /\ Comes(off) = doc.bill.roundOff
  BY ComesRoundOff
<1>9. PICK m1 : m1 = taxes \o freight
  OBVIOUS
<1>10. PICK m2 : m2 = m1 \o other
  OBVIOUS
<1>11. PICK more : more = m2 \o off
  OBVIOUS
<1>12. m1 \in Seq(Int) /\ Comes(m1) = Comes(taxes) + Comes(freight) /\ Comes(taxes) \in Int /\ Comes(freight) \in Int
  BY <1>5, <1>9, ComesJoined
<1>13. m2 \in Seq(Int) /\ Comes(m2) = Comes(m1) + Comes(other) /\ Comes(other) \in Int
  BY <1>10, <1>12, ComesJoined
<1>14. more \in Seq(Int) /\ Comes(more) = Comes(m2) + Comes(off) /\ Comes(off) \in Int
  BY <1>11, <1>13, ComesJoined
<1>15. PICK rows \in Seq(Blocks) : rows = Paper!Rows("row", first, heights, 6) /\ Worth(rows) = Comes(first)
  <2>1. \A i \in DOMAIN first : heights[i] \in Nat
    BY <1>2, PaperAssumption
  <2>. QED  BY <1>3, <2>1, WorthOfRows
<1>16. PICK tall : tall = [i \in DOMAIN more |-> 14]
  OBVIOUS
<1>17. PICK after \in Seq(Blocks) : after = Paper!Rows("row", more, tall, 6) /\ Worth(after) = Comes(more)
  <2>1. \A i \in DOMAIN more : tall[i] \in Nat
    BY <1>16
  <2>. QED  BY <1>14, <2>1, WorthOfRows
<1>18. PICK b \in Blocks : b = Paper!Block("total", 22, 22, 6, 0) /\ b.amount = 0
  <2>1. PICK b : b = [what |-> "total", need |-> 22, take |-> 22, slack |-> 6, amount |-> 0]
    OBVIOUS
  <2>2. b \in Blocks
    BY <2>1 DEF Blocks, Fitted, Whats
  <2>. QED  BY <2>1, <2>2 DEF Paper!Block
<1>19. PICK last \in Seq(Blocks) : last = <<b>> /\ Worth(last) = 0
  BY <1>18, WorthOfOne
<1>20. PICK upto \in Seq(Blocks) : upto = rows \o after /\ Worth(upto) = Worth(rows) + Worth(after)
  BY WorthOfBoth
<1>21. PICK table \in Seq(Blocks) : table = upto \o last /\ Worth(table) = Worth(upto) + Worth(last)
  BY WorthOfBoth
<1>22. Paper!TallyTable(doc, l, heights) = table
  BY <1>2, <1>4, <1>6, <1>7, <1>8, <1>9, <1>10, <1>11, <1>15, <1>16, <1>17, <1>18, <1>19, <1>20, <1>21, Zenon
     DEF Paper!TallyTable
<1>23. PICK t, c, s, g \in Nat : t = doc.bill.taxable /\ c = doc.bill.cgst /\ s = doc.bill.sgst /\ g = doc.bill.igst
  BY SavedBill
<1>24. PICK tt \in Nat, r \in Int : tt = doc.bill.total /\ r = doc.bill.roundOff
  BY SavedBill
<1>25. PICK fr, ot \in Nat : fr = doc.freight /\ ot = doc.other
  BY SavedLines
<1>26. tt = t + c + s + g + fr + ot + r
  BY <1>23, <1>24, <1>25, SavedBill
<1>27. Paper!TaxOf(doc) = c + s + g
  BY <1>23 DEF Paper!TaxOf
<1>28. Worth(table) = t + (IF Paper!ShowGst(doc, l) THEN c + s + g ELSE 0) + fr + ot + r
  <2>1. Comes(first) = t /\ Comes(taxes) = (IF Paper!ShowGst(doc, l) THEN c + s + g ELSE 0)
        /\ Comes(freight) = fr /\ Comes(other) = ot /\ Comes(off) = r
    BY <1>3, <1>5, <1>6, <1>7, <1>8, <1>23, <1>24, <1>25, <1>27
  <2>2. Worth(table) = Comes(first) + (((Comes(taxes) + Comes(freight)) + Comes(other)) + Comes(off)) + 0
    BY <1>12, <1>13, <1>14, <1>15, <1>17, <1>19, <1>20, <1>21
  <2>. QED  BY <2>1, <2>2
<1>29. Worth(table) = tt - (IF Paper!ShowGst(doc, l) THEN 0 ELSE c + s + g)
  BY <1>26, <1>28
<1>. QED  BY <1>22, <1>24, <1>27, <1>29

(* Blocks that print no amount.                                              *)
Silent(s) == s \in Seq(Blocks) /\ Worth(s) = 0

(* Two such sequences joined, one such block, and none.                      *)
LEMMA SilentJoined == ASSUME NEW s, NEW t, Silent(s), Silent(t) PROVE Silent(s \o t)
<1>1. s \in Seq(Blocks) /\ t \in Seq(Blocks) /\ Worth(s) = 0 /\ Worth(t) = 0
  BY DEF Silent
<1>2. s \o t \in Seq(Blocks) /\ Worth(s \o t) = Worth(s) + Worth(t)
  BY <1>1, WorthOfBoth
<1>. QED  BY <1>1, <1>2 DEF Silent

LEMMA SilentBlock ==
  ASSUME NEW what \in Whats, NEW need \in Nat, NEW take \in Nat, NEW slack \in Nat,
         Fitted([what |-> what, need |-> need, take |-> take, slack |-> slack, amount |-> 0])
  PROVE  Silent(<<Paper!Block(what, need, take, slack, 0)>>)
<1>1. PICK b : b = [what |-> what, need |-> need, take |-> take, slack |-> slack, amount |-> 0]
  OBVIOUS
<1>2. b \in Blocks /\ b.amount = 0
  BY <1>1 DEF Blocks
<1>3. b = Paper!Block(what, need, take, slack, 0)
  BY <1>1 DEF Paper!Block
<1>. QED  BY <1>2, <1>3, WorthOfOne DEF Silent

LEMMA SilentNone == Silent(<<>>)
BY WorthOfNone DEF Silent

(* The codes of a document are finitely many.                                *)
LEMMA FewCodes ==
  ASSUME NEW doc \in Documents
  PROVE  IsFiniteSet(Paper!Hsns(doc)) /\ Paper!Cardinality(Paper!Hsns(doc)) \in Nat
<1>1. PICK D : D = DOMAIN doc.lines
  OBVIOUS
<1>2. PICK name : name = [i \in D |-> doc.lines[i].hsn]
  OBVIOUS
<1>3. PICK V : V = Paper!Hsns(doc)
  OBVIOUS
<1>4. V = {doc.lines[i].hsn : i \in D}
  BY <1>1, <1>3 DEF Paper!Hsns
<1>5. V = {name[i] : i \in D}
  BY <1>2, <1>4
<1>6. [i \in D |-> name[i]] \in Surjection(D, V)
  BY <1>5 DEF Surjection
<1>7. IsFiniteSet(D)
  BY <1>1, SavedLines
<1>8. IsFiniteSet(V)
  BY <1>6, <1>7, FS_Surjection
<1>9. Cardinality(V) \in Nat
  BY <1>8, FS_CardinalityType
<1>10. \A S : Paper!Cardinality(S) = Cardinality(S)
  BY DEF Paper!Cardinality, Cardinality
<1>. QED  BY <1>3, <1>8, <1>9, <1>10

(* What stands below the grid prints no amount.                              *)
LEMMA SectionsSilent ==
  ASSUME NEW doc \in Documents, NEW l
  PROVE  Silent(Paper!TallySections(doc, l))
<1>1. Silent(<<Paper!Block("words", 26, 26, 6, 0)>>)
  BY SilentBlock DEF Fitted, Whats
<1>2. Silent(Paper!TallyTax(doc))
  <2>1. PICK n \in Nat : n = Paper!Cardinality(Paper!Hsns(doc))
    BY FewCodes
  <2>2. PICK tall \in Nat : tall = 32 + 14 * n
    OBVIOUS
  <2>3. Silent(<<Paper!Block("tax", tall + 18, tall + 16, 6, 0)>>)
    <3>1. tall + 18 \in Nat /\ tall + 16 \in Nat
      OBVIOUS
    <3>2. Fitted([what |-> "tax", need |-> tall + 18, take |-> tall + 16, slack |-> 6, amount |-> 0])
      BY DEF Fitted
    <3>. QED  BY <3>1, <3>2, SilentBlock DEF Whats
  <2>4. Silent(<<Paper!Block("label", 12, 0, 0, 0)>>)
    BY SilentBlock DEF Fitted, Whats
  <2>5. Silent(<<Paper!Block("taxWords", 13, 13 + Paper!WordsGap, 0, 0)>>)
    <3>1. Silent(<<Paper!Block("taxWords", 13, 17, 0, 0)>>)
      BY SilentBlock DEF Fitted, Whats
    <3>2. 13 + Paper!WordsGap = 17
      BY DEF Paper!WordsGap
    <3>. QED  BY <3>1, <3>2, Zenon
  <2>. PICK a : a = Paper!Block("tax", tall + 18, tall + 16, 6, 0)
    OBVIOUS
  <2>. PICK b : b = Paper!Block("label", 12, 0, 0, 0)
    OBVIOUS
  <2>. PICK c : c = Paper!Block("taxWords", 13, 13 + Paper!WordsGap, 0, 0)
    OBVIOUS
  <2>6. Paper!TallyTax(doc) = <<a, b, c>>
    BY <2>1, <2>2 DEF Paper!TallyTax
  <2>7. Silent(<<a>>) /\ Silent(<<b>>) /\ Silent(<<c>>)
    BY <2>3, <2>4, <2>5
  <2>. PICK S : S = {a, b, c}
    OBVIOUS
  <2>8. <<a>> \o <<b>> = <<a, b>>
    <3>1. a \in S /\ b \in S
      OBVIOUS
    <3>. QED  BY <3>1, AsPair
  <2>9. <<a, b>> \o <<c>> = <<a, b, c>>
    <3>1. a \in S /\ b \in S /\ c \in S
      OBVIOUS
    <3>. QED  BY <3>1, AsTriple
  <2>10. Silent(<<a, b>>)
    <3>1. Silent(<<a>> \o <<b>>)
      BY <2>7, SilentJoined
    <3>. QED  BY <2>8, <3>1, Zenon
  <2>11. Silent(<<a, b, c>>)
    <3>1. Silent(<<a, b>> \o <<c>>)
      BY <2>7, <2>10, SilentJoined
    <3>. QED  BY <2>9, <3>1, Zenon
  <2>. QED  BY <2>6, <2>11
<1>3. PICK tax : tax = IF Paper!ShowGst(doc, l) THEN Paper!TallyTax(doc) ELSE <<>>
  OBVIOUS
<1>4. Silent(tax)
  <2>1. CASE Paper!ShowGst(doc, l)
    BY <1>2, <1>3, <2>1
  <2>2. CASE ~ Paper!ShowGst(doc, l)
    BY <1>3, <2>2, SilentNone
  <2>. QED  BY <2>1, <2>2
<1>5. Silent(Paper!TallyNotes(doc))
  <2>1. PICK n \in Nat : n = doc.notes
    BY SavedLines
  <2>2. PICK tall \in Nat : tall = 8 + 10 * n
    OBVIOUS
  <2>3. Silent(<<Paper!Block("notes", tall, tall, 6, 0)>>)
    <3>1. Fitted([what |-> "notes", need |-> tall, take |-> tall, slack |-> 6, amount |-> 0])
      BY DEF Fitted
    <3>. QED  BY <3>1, SilentBlock DEF Whats
  <2>4. CASE n > 0
    <3>1. Paper!TallyNotes(doc) = <<Paper!Block("notes", tall, tall, 6, 0)>>
      BY <2>1, <2>2, <2>4 DEF Paper!TallyNotes
    <3>. QED  BY <2>3, <3>1, Zenon
  <2>5. CASE ~ n > 0
    <3>1. Paper!TallyNotes(doc) = <<>>
      BY <2>1, <2>5 DEF Paper!TallyNotes
    <3>. QED  BY SilentNone, <3>1, Zenon
  <2>. QED  BY <2>4, <2>5
<1>6. Silent(Paper!TallyBank(doc))
  <2>1. Silent(<<Paper!Block("bank", 30, 30, 6, 0)>>)
    BY SilentBlock DEF Fitted, Whats
  <2>2. CASE doc.bank
    <3>1. Paper!TallyBank(doc) = <<Paper!Block("bank", 30, 30, 6, 0)>>
      BY <2>2 DEF Paper!TallyBank
    <3>. QED  BY <2>1, <3>1, Zenon
  <2>3. CASE ~ doc.bank
    <3>1. Paper!TallyBank(doc) = <<>>
      BY <2>3 DEF Paper!TallyBank
    <3>. QED  BY SilentNone, <3>1, Zenon
  <2>. QED  BY <2>2, <2>3
<1>7. Silent(Paper!TallySign(l))
  <2>1. Silent(<<Paper!Block("sign", 84 + 16, 84, 6, 0)>>) /\ Silent(<<Paper!Block("sign", 56 + 16, 56, 6, 0)>>)
    BY SilentBlock DEF Fitted, Whats
  <2>2. CASE l.qr
    <3>1. Paper!TallySign(l) = <<Paper!Block("sign", 84 + 16, 84, 6, 0)>>
      BY <2>2 DEF Paper!TallySign
    <3>. QED  BY <2>1, <3>1, Zenon
  <2>3. CASE ~ l.qr
    <3>1. Paper!TallySign(l) = <<Paper!Block("sign", 56 + 16, 56, 6, 0)>>
      BY <2>3 DEF Paper!TallySign
    <3>. QED  BY <2>1, <3>1, Zenon
  <2>. QED  BY <2>2, <2>3
<1>8. PICK s1 : s1 = <<Paper!Block("words", 26, 26, 6, 0)>> \o tax
  OBVIOUS
<1>9. PICK s2 : s2 = s1 \o Paper!TallyNotes(doc)
  OBVIOUS
<1>10. PICK s3 : s3 = s2 \o Paper!TallyBank(doc)
  OBVIOUS
<1>11. PICK s4 : s4 = s3 \o Paper!TallySign(l)
  OBVIOUS
<1>12. Silent(s1)
  BY <1>1, <1>4, <1>8, SilentJoined
<1>13. Silent(s2)
  BY <1>5, <1>9, <1>12, SilentJoined
<1>14. Silent(s3)
  BY <1>6, <1>10, <1>13, SilentJoined
<1>15. Silent(s4)
  BY <1>7, <1>11, <1>14, SilentJoined
<1>16. Paper!TallySections(doc, l) = s4
  BY <1>3, <1>8, <1>9, <1>10, <1>11, Zenon DEF Paper!TallySections
<1>. QED  BY <1>15, <1>16

(* The rows of the other templates print no amount, ...                      *)
LEMMA PlainRowsSilent ==
  ASSUME NEW doc \in Documents, NEW heights \in [DOMAIN doc.lines -> Heights]
  PROVE  Silent(Paper!PlainTable(doc, heights))
<1>1. PICK n \in Nat : n = Len(doc.lines) /\ DOMAIN doc.lines = 1..n
  BY SavedLines
<1>2. PICK zeros : zeros = [i \in DOMAIN doc.lines |-> 0]
  OBVIOUS
<1>3. zeros \in Seq(Int) /\ DOMAIN zeros = 1..n /\ \A i \in 1..n : zeros[i] = 0
  <2>1. zeros \in [1..n -> Int]
    BY <1>1, <1>2
  <2>. QED  BY <1>1, <1>2, <2>1, SeqDef
<1>4. Comes(zeros) = 0
  BY <1>3, FS_Interval, SumZero DEF Comes
<1>5. \A i \in DOMAIN zeros : heights[i] \in Nat
  BY <1>2, PaperAssumption
<1>6. /\ Paper!Rows("row", zeros, heights, 4) \in Seq(Blocks)
      /\ Worth(Paper!Rows("row", zeros, heights, 4)) = Comes(zeros)
  BY <1>3, <1>5, WorthOfRows
<1>7. Paper!PlainTable(doc, heights) = Paper!Rows("row", zeros, heights, 4)
  BY <1>2, Zenon DEF Paper!PlainTable
<1>. QED  BY <1>4, <1>6, <1>7, Zenon DEF Silent

(* ... nor do words, notes and terms, ...                                    *)
LEMMA TextsSilent ==
  ASSUME NEW n \in Nat
  PROVE  Silent(Paper!Texts(n, 10))
<1>1. PICK b : b = [what |-> "text", need |-> 10, take |-> 10, slack |-> 0, amount |-> 0]
  OBVIOUS
<1>2. b \in Blocks /\ b.amount = 0
  BY <1>1 DEF Blocks, Fitted, Whats
<1>3. PICK s : s = Paper!Texts(n, 10)
  OBVIOUS
<1>4. s = [i \in 1..n |-> b]
  BY <1>1, <1>3 DEF Paper!Texts, Paper!Block
<1>5. s \in Seq(Blocks)
  <2>1. s \in [1..n -> Blocks]
    BY <1>2, <1>4
  <2>. QED  BY <2>1, SeqDef
<1>6. DOMAIN Printed(s) = 1..n /\ \A i \in 1..n : Printed(s)[i] = 0
  BY <1>2, <1>4 DEF Printed
<1>7. Worth(s) = 0
  BY <1>6, FS_Interval, SumZero DEF Worth, Comes
<1>. QED  BY <1>3, <1>5, <1>7 DEF Silent

(* ... and the totals print what the layout does not leave out.              *)
LEMMA TotalsPrint ==
  ASSUME NEW doc \in Documents, NEW l
  PROVE  /\ Paper!PlainAmounts(doc, l) \in Seq(Int) /\ Len(Paper!PlainAmounts(doc, l)) <= 5
         /\ (IF Paper!Simple(doc, l) THEN Len(Paper!PlainAmounts(doc, l)) >= 2 ELSE TRUE)
         /\ Comes(Paper!PlainAmounts(doc, l)) =
              doc.bill.total - (doc.freight + doc.other + (IF Paper!Simple(doc, l) THEN Paper!TaxOf(doc) ELSE 0))
<1>1. PICK t, c, s, g \in Nat : t = doc.bill.taxable /\ c = doc.bill.cgst /\ s = doc.bill.sgst /\ g = doc.bill.igst
  BY SavedBill
<1>2. PICK tt \in Nat, r \in Int : tt = doc.bill.total /\ r = doc.bill.roundOff
  BY SavedBill
<1>3. PICK fr, ot, gr \in Nat : fr = doc.freight /\ ot = doc.other /\ gr = doc.gross
  BY SavedLines
<1>4. tt = t + c + s + g + fr + ot + r
  BY <1>1, <1>2, <1>3, SavedBill
<1>5. Paper!TaxOf(doc) = c + s + g
  BY <1>1 DEF Paper!TaxOf
<1>6. PICK off : off = Paper!RoundOffRow(doc)
  OBVIOUS
<1>7. off \in Seq(Int) /\ Comes(off) = r /\ Len(off) <= 1
  <2>1. off \in Seq(Int) /\ Comes(off) = r
    BY <1>2, <1>6, ComesRoundOff
  <2>2. off = <<r>> \/ off = <<>>
    BY <1>2, <1>6 DEF Paper!RoundOffRow
  <2>3. Len(off) <= 1
    <3>1. Len(<<r>>) = 1 /\ Len(<<>>) = 0
      OBVIOUS
    <3>2. Len(off) = 1 \/ Len(off) = 0
      BY <2>2, <3>1, Zenon
    <3>. QED  BY <3>2
  <2>. QED  BY <2>1, <2>3, Zenon
<1>8. PICK all : all = Paper!PlainAmounts(doc, l)
  OBVIOUS
<1>9. CASE Paper!Simple(doc, l)
  <2>1. PICK first : first = <<gr, t - gr>>
    OBVIOUS
  <2>2. first \in Seq(Int) /\ Comes(first) = gr + (t - gr) /\ Len(first) = 2
    <3>1. gr \in Int /\ t - gr \in Int
      OBVIOUS
    <3>. QED  BY <2>1, <3>1, ComesToTwo
  <2>3. all = (first \o <<>>) \o off
    <3>1. PICK a : a = IF Paper!Simple(doc, l) THEN <<doc.gross, doc.bill.taxable - doc.gross>> ELSE <<doc.bill.taxable>>
      OBVIOUS
    <3>2. PICK b : b = IF Paper!Simple(doc, l) THEN <<>>
                       ELSE (IF doc.bill.cgst > 0 THEN <<doc.bill.cgst, doc.bill.sgst>> ELSE <<>>) \o Paper!Positive(doc.bill.igst)
      OBVIOUS
    <3>3. all = (a \o b) \o off
      BY <1>6, <1>8, <3>1, <3>2, Zenon DEF Paper!PlainAmounts
    <3>4. b = <<>>
      BY <1>9, <3>2, Zenon
    <3>5. a = <<doc.gross, doc.bill.taxable - doc.gross>>
      BY <1>9, <3>1, Zenon
    <3>6. a = first
      BY <1>1, <1>3, <2>1, <3>5
    <3>. QED  BY <3>3, <3>4, <3>6
  <2>4. first \o <<>> = first
    BY <2>2, ConcatEmptySeq
  <2>5. all = first \o off
    BY <2>3, <2>4
  <2>6. all \in Seq(Int) /\ Comes(all) = Comes(first) + Comes(off)
    BY <1>7, <2>2, <2>5, ComesJoined
  <2>7. Len(all) = 2 + Len(off) /\ Len(off) \in Nat
    BY <1>7, <2>2, <2>5, ComesJoined
  <2>8. Comes(all) = t + r
    BY <1>7, <2>2, <2>6
  <2>9. Comes(all) = tt - (fr + ot + (c + s + g))
    BY <1>4, <2>8
  <2>. QED  BY <1>2, <1>3, <1>5, <1>7, <1>8, <1>9, <2>6, <2>7, <2>9
<1>10. CASE ~ Paper!Simple(doc, l)
  <2>1. PICK first : first = <<t>>
    OBVIOUS
  <2>2. first \in Seq(Int) /\ Comes(first) = t /\ Len(first) = 1
    BY <2>1, AsSequence, ComesToOne
  <2>3. PICK home : home = IF c > 0 THEN <<c, s>> ELSE <<>>
    OBVIOUS
  <2>4. home \in Seq(Int) /\ Comes(home) = c + s /\ Len(home) <= 2
    <3>1. CASE c > 0
      <4>1. home = <<c, s>>
        BY <2>3, <3>1
      <4>2. c \in Int /\ s \in Int
        OBVIOUS
      <4>3. <<c, s>> \in Seq(Int) /\ Comes(<<c, s>>) = c + s
        BY <4>2, ComesToTwo
      <4>. QED  BY <4>1, <4>3
    <3>2. CASE ~ c > 0
      <4>1. c = 0 /\ s = 0
        BY <1>1, <3>2, SavedBill
      <4>2. home = <<>> /\ <<>> \in Seq(Int)
        BY <2>3, <3>2
      <4>. QED  BY <4>1, <4>2, ComesToNothing
    <3>. QED  BY <3>1, <3>2
  <2>5. PICK away : away = Paper!Positive(g)
    OBVIOUS
  <2>6. away \in Seq(Int) /\ Comes(away) = g /\ Len(away) <= 1
    <3>1. away \in Seq(Int) /\ Comes(away) = g
      BY <2>5, ComesPositive
    <3>2. away = <<g>> \/ away = <<>>
      BY <2>5 DEF Paper!Positive
    <3>3. Len(away) <= 1
      <4>1. Len(<<g>>) = 1 /\ Len(<<>>) = 0
        OBVIOUS
      <4>2. CASE away = <<g>>
        BY <4>1, <4>2
      <4>3. CASE away = <<>>
        BY <4>3
      <4>. QED  BY <3>2, <4>2, <4>3, Zenon
    <3>. QED  BY <3>1, <3>3
  <2>7. PICK taxes : taxes = home \o away
    OBVIOUS
  <2>8. taxes \in Seq(Int) /\ Comes(taxes) = Comes(home) + Comes(away) /\ Len(taxes) <= 3 /\ Len(taxes) \in Nat
    <3>1. taxes \in Seq(Int) /\ Comes(taxes) = Comes(home) + Comes(away)
      BY <2>4, <2>6, <2>7, ComesJoined
    <3>2. Len(taxes) = Len(home) + Len(away) /\ Len(home) \in Nat /\ Len(away) \in Nat
      BY <2>4, <2>6, <2>7, ComesJoined
    <3>. QED  BY <2>4, <2>6, <3>1, <3>2
  <2>9. PICK upto : upto = first \o taxes
    OBVIOUS
  <2>10. upto \in Seq(Int) /\ Comes(upto) = Comes(first) + Comes(taxes) /\ Len(upto) <= 4 /\ Len(upto) \in Nat
    <3>1. upto \in Seq(Int) /\ Comes(upto) = Comes(first) + Comes(taxes)
      BY <2>2, <2>8, <2>9, ComesJoined
    <3>2. Len(upto) = Len(first) + Len(taxes)
      BY <2>2, <2>8, <2>9, ComesJoined
    <3>3. Len(first) = 1 /\ Len(taxes) <= 3 /\ Len(taxes) \in Nat
      BY <2>2, <2>8
    <3>4. Len(upto) <= 4 /\ Len(upto) \in Nat
      BY <3>2, <3>3
    <3>. QED  BY <3>1, <3>4
  <2>11. all = upto \o off
    BY <1>1, <1>6, <1>8, <1>10, <2>1, <2>3, <2>5, <2>7, <2>9 DEF Paper!PlainAmounts
  <2>12. all \in Seq(Int) /\ Comes(all) = Comes(upto) + Comes(off) /\ Len(all) <= 5
    <3>1. all \in Seq(Int) /\ Comes(all) = Comes(upto) + Comes(off)
      BY <1>7, <2>10, <2>11, ComesJoined
    <3>2. Len(all) = Len(upto) + Len(off) /\ Len(off) \in Nat
      BY <1>7, <2>10, <2>11, ComesJoined
    <3>. QED  BY <1>7, <2>10, <3>1, <3>2
  <2>13. Comes(all) = t + ((c + s) + g) + r
    BY <1>7, <2>2, <2>4, <2>6, <2>8, <2>10, <2>12
  <2>14. Comes(all) = tt - (fr + ot + 0)
    BY <1>4, <2>13
  <2>. QED  BY <1>2, <1>3, <1>5, <1>8, <1>10, <2>12, <2>14
<1>. QED  BY <1>9, <1>10

(* The other templates come to what they do not leave out.                   *)
LEMMA PlainWorth ==
  ASSUME NEW doc \in Documents, NEW l
  PROVE  /\ Paper!PlainSections(doc, l) \in Seq(Blocks)
         /\ Worth(Paper!PlainSections(doc, l)) =
              doc.bill.total - (doc.freight + doc.other + (IF Paper!Simple(doc, l) THEN Paper!TaxOf(doc) ELSE 0))
<1>1. PICK amounts : amounts = Paper!PlainAmounts(doc, l)
  OBVIOUS
<1>2. PICK discount \in 0..1 : discount = IF doc.gross > doc.bill.taxable THEN 1 ELSE 0
  OBVIOUS
<1>3. PICK after \in 0..2 : after = IF l.balance /\ doc.kind = "invoice" THEN 2 ELSE 0
  OBVIOUS
<1>4. PICK box \in Nat : box <= 30 /\ box = IF l.template = "boxed" THEN 30 ELSE 28
  OBVIOUS
<1>5. PICK n \in Nat : n = Len(amounts) /\ n <= 5 /\ (IF Paper!Simple(doc, l) THEN n >= 2 ELSE TRUE)
  BY <1>1, TotalsPrint
<1>6. PICK cut \in Nat : cut = IF Paper!Simple(doc, l) THEN 2 ELSE 0
  OBVIOUS
<1>7. PICK many \in Nat : many = 2 + discount + n - cut /\ many <= 8
  <2>1. CASE Paper!Simple(doc, l)
    <3>1. cut = 2 /\ n >= 2
      BY <1>5, <1>6, <2>1
    <3>2. 2 + discount + n - cut \in Nat /\ 2 + discount + n - cut <= 8
      BY <1>2, <1>5, <3>1
    <3>. QED  BY <3>2
  <2>2. CASE ~ Paper!Simple(doc, l)
    <3>1. cut = 0
      BY <1>6, <2>2
    <3>2. 2 + discount + n - cut \in Nat /\ 2 + discount + n - cut <= 8
      BY <1>2, <1>5, <3>1
    <3>. QED  BY <3>2
  <2>. QED  BY <2>1, <2>2
<1>8. PICK tall \in Nat : tall = 6 + 15 * many + box + 14 * after
  OBVIOUS
<1>9. tall <= 200
  BY <1>3, <1>4, <1>7, <1>8
<1>10. PICK amount \in Int : amount = Paper!Sum(amounts) /\ amount = Comes(amounts)
  <2>1. amounts \in Seq(Int)
    BY <1>1, TotalsPrint
  <2>2. Comes(amounts) \in Int
    BY <2>1, ComesToInt
  <2>3. Paper!Sum(amounts) = Comes(amounts)
    BY PaperTotal DEF Comes
  <2>. QED  BY <2>2, <2>3
<1>11. PICK b \in Blocks : b = Paper!Block("totals", 200, tall, 0, amount) /\ b.amount = amount
  <2>1. PICK b : b = [what |-> "totals", need |-> 200, take |-> tall, slack |-> 0, amount |-> amount]
    OBVIOUS
  <2>2. b \in Blocks
    BY <1>9, <2>1 DEF Blocks, Fitted, Whats
  <2>. QED  BY <2>1, <2>2 DEF Paper!Block
<1>12. PICK first \in Seq(Blocks) : first = <<b>> /\ Worth(first) = amount
  BY <1>11, WorthOfOne
<1>13. Paper!PlainTotals(doc, l) = first
  <2>1. Paper!PlainTotals(doc, l) =
          <<Paper!Block("totals", Paper!TotalsRoom,
              6 + 15 * (2 + (IF doc.gross > doc.bill.taxable THEN 1 ELSE 0) + Len(Paper!PlainAmounts(doc, l))
                          - (IF Paper!Simple(doc, l) THEN 2 ELSE 0))
                + (IF l.template = "boxed" THEN 30 ELSE 28)
                + 14 * (IF l.balance /\ doc.kind = "invoice" THEN 2 ELSE 0),
              0, Paper!Sum(Paper!PlainAmounts(doc, l)))>>
    BY Zenon DEF Paper!PlainTotals
  <2>2. Paper!PlainTotals(doc, l) =
          <<Paper!Block("totals", Paper!TotalsRoom, 6 + 15 * (2 + discount + n - cut) + box + 14 * after, 0, amount)>>
    BY <1>1, <1>2, <1>3, <1>4, <1>5, <1>6, <1>10, <2>1
  <2>3. Paper!PlainTotals(doc, l) = <<Paper!Block("totals", Paper!TotalsRoom, tall, 0, amount)>>
    BY <1>7, <1>8, <2>2
  <2>. QED  BY <1>11, <1>12, <2>3, Zenon DEF Paper!TotalsRoom
<1>14. PICK m \in Nat : m = 1 + doc.notes
  BY SavedLines
<1>15. PICK texts \in Seq(Blocks) : texts = Paper!Texts(m, 10) /\ Worth(texts) = 0
  BY TextsSilent DEF Silent
<1>16. PICK end \in Seq(Blocks) : end = <<Paper!Block("bottom", 0, 0, 0, 0)>> /\ Worth(end) = 0
  <2>1. Silent(<<Paper!Block("bottom", 0, 0, 0, 0)>>)
    BY SilentBlock DEF Fitted, Whats
  <2>. QED  BY <2>1 DEF Silent
<1>17. PICK upto \in Seq(Blocks) : upto = first \o texts /\ Worth(upto) = Worth(first) + Worth(texts)
  BY WorthOfBoth
<1>18. PICK all \in Seq(Blocks) : all = upto \o end /\ Worth(all) = Worth(upto) + Worth(end)
  BY WorthOfBoth
<1>19. Paper!PlainSections(doc, l) = all
  BY <1>13, <1>14, <1>15, <1>16, <1>17, <1>18, Zenon DEF Paper!PlainSections
<1>20. Worth(all) = amount
  <2>1. Worth(upto) = amount + 0
    BY <1>12, <1>15, <1>17, Zenon
  <2>2. Worth(all) = (amount + 0) + 0
    BY <1>16, <1>18, <2>1, Zenon
  <2>. QED  BY <1>10, <2>2
<1>. QED  BY <1>1, <1>10, <1>19, <1>20, TotalsPrint

(* The tax by code adds up to the value and the tax of the document ...      *)
LEMMA CodesAddUp ==
  ASSUME NEW doc \in Documents
  PROVE  /\ doc.bill.taxable = Paper!Sum([hsn \in Paper!Hsns(doc) |-> Paper!HsnRow(doc, hsn).taxable])
         /\ Paper!TaxOf(doc) = Paper!Sum([hsn \in Paper!Hsns(doc) |-> Paper!HsnRow(doc, hsn).tax])
<1>1. PICK D : D = DOMAIN doc.lines
  OBVIOUS
<1>2. PICK V : V = Paper!Hsns(doc)
  OBVIOUS
<1>3. IsFiniteSet(D) /\ IsFiniteSet(V)
  BY <1>1, <1>2, SavedLines, FewCodes
<1>4. PICK key : key = [i \in D |-> doc.lines[i].hsn]
  OBVIOUS
<1>5. PICK group : group = [v \in V |-> {i \in D : doc.lines[i].hsn = v}]
  OBVIOUS
<1>6. Grouping(group, key, D, V)
  <2>1. V = {doc.lines[i].hsn : i \in D}
    BY <1>1, <1>2 DEF Paper!Hsns
  <2>. QED  BY <1>4, <1>5, <2>1 DEF Grouping
<1>7. PICK t, c, s, g : t = LineTaxable(doc) /\ c = LineCgst(doc) /\ s = LineSgst(doc) /\ g = LineIgst(doc)
  OBVIOUS
<1>8. \A i \in D : t[i] = doc.lines[i].taxable /\ c[i] = doc.lines[i].cgst /\ s[i] = doc.lines[i].sgst
                     /\ g[i] = doc.lines[i].igst
  BY <1>1, <1>7 DEF LineTaxable, LineCgst, LineSgst, LineIgst
<1>9. PICK cs : cs = [i \in D |-> c[i] + s[i]]
  OBVIOUS
<1>10. /\ \A i \in D : t[i] \in Int
       /\ \A i \in D : c[i] \in Int /\ s[i] \in Int /\ cs[i] = c[i] + s[i]
       /\ \A i \in D : g[i] \in Int
       /\ \A i \in D : cs[i] \in Int
  <2>1. \A i \in D : Paper!LineSaved(doc.lines[i], doc.inter)
    BY <1>1, SavedLines
  <2>2. \A i \in D : t[i] \in Nat /\ c[i] \in Nat /\ s[i] \in Nat /\ g[i] \in Nat
    BY <1>8, <2>1 DEF Paper!LineSaved
  <2>3. \A i \in D : cs[i] = c[i] + s[i]
    BY <1>9
  <2>4. \A i \in D : cs[i] \in Int
    BY <2>2, <2>3
  <2>. QED  BY <2>2, <2>3, <2>4
<1>11. /\ doc.bill.taxable = SumFunctionOnSet(t, D) /\ doc.bill.cgst = SumFunctionOnSet(c, D)
       /\ doc.bill.sgst = SumFunctionOnSet(s, D) /\ doc.bill.igst = SumFunctionOnSet(g, D)
  BY <1>1, <1>7, SavedBill
<1>12. SumFunctionOnSet(cs, D) = SumFunctionOnSet(c, D) + SumFunctionOnSet(s, D)
  BY <1>3, <1>10, SumPlus
<1>13. ASSUME NEW v \in V
       PROVE  /\ Paper!HsnRow(doc, v).taxable = SumFunctionOnSet(t, group[v])
              /\ Paper!HsnRow(doc, v).tax =
                   IF doc.inter THEN SumFunctionOnSet(g, group[v]) ELSE SumFunctionOnSet(cs, group[v])
  <2>1. PICK own : own = group[v]
    OBVIOUS
  <2>2. own = {i \in DOMAIN doc.lines : doc.lines[i].hsn = v}
    BY <1>1, <1>5, <2>1
  <2>3. own \in SUBSET D
    BY <1>1, <2>2
  <2>4. IsFiniteSet(own)
    BY <1>3, <2>3, FS_Subset
  <2>5. PICK t1 : t1 = [i \in own |-> doc.lines[i].taxable]
    OBVIOUS
  <2>6. PICK g1 : g1 = [i \in own |-> doc.lines[i].igst]
    OBVIOUS
  <2>7. PICK c1 : c1 = [i \in own |-> doc.lines[i].cgst + doc.lines[i].sgst]
    OBVIOUS
  <2>8. PICK row1 : row1 = Paper!HsnRow(doc, v)
    OBVIOUS
  <2>9. row1.taxable = Paper!Sum(t1) /\ row1.tax = IF doc.inter THEN Paper!Sum(g1) ELSE Paper!Sum(c1)
    BY <2>2, <2>5, <2>6, <2>7, <2>8 DEF Paper!HsnRow
  <2>10. Paper!Sum(t1) = SumFunctionOnSet(t1, own)
    BY <2>5, PaperTotal
  <2>11. Paper!Sum(g1) = SumFunctionOnSet(g1, own)
    BY <2>6, PaperTotal
  <2>12. Paper!Sum(c1) = SumFunctionOnSet(c1, own)
    BY <2>7, PaperTotal
  <2>13. SumFunctionOnSet(t1, own) = SumFunctionOnSet(t, own)
    <3>1. \A i \in own : t1[i] = t[i]
      BY <1>8, <2>3, <2>5
    <3>. QED  BY <2>4, <3>1, SumSame
  <2>14. SumFunctionOnSet(g1, own) = SumFunctionOnSet(g, own)
    <3>1. \A i \in own : g1[i] = g[i]
      BY <1>8, <2>3, <2>6
    <3>. QED  BY <2>4, <3>1, SumSame
  <2>15. SumFunctionOnSet(c1, own) = SumFunctionOnSet(cs, own)
    <3>1. \A i \in own : c1[i] = cs[i]
      BY <1>8, <1>9, <2>3, <2>7
    <3>. QED  BY <2>4, <3>1, SumSame
  <2>. QED  BY <2>1, <2>8, <2>9, <2>10, <2>11, <2>12, <2>13, <2>14, <2>15
<1>14. PICK f : f = [v \in V |-> Paper!HsnRow(doc, v).taxable]
  OBVIOUS
<1>15. PICK h : h = [v \in V |-> Paper!HsnRow(doc, v).tax]
  OBVIOUS
<1>16. Paper!Sum(f) = SumFunctionOnSet(f, V)
  BY <1>14, PaperTotal
<1>17. Paper!Sum(h) = SumFunctionOnSet(h, V)
  BY <1>15, PaperTotal
<1>18. SumFunctionOnSet(f, V) = SumFunctionOnSet(t, D)
  <2>1. \A v \in V : f[v] = SumFunctionOnSet(t, group[v])
    BY <1>13, <1>14
  <2>. QED  BY <1>3, <1>6, <1>10, <2>1, SumGrouped
<1>19. Paper!TaxOf(doc) = SumFunctionOnSet(h, V)
  <2>1. PICK C \in Nat : C = doc.bill.cgst
    BY SavedBill
  <2>2. PICK S \in Nat : S = doc.bill.sgst
    BY SavedBill
  <2>3. PICK G \in Nat : G = doc.bill.igst
    BY SavedBill
  <2>4. Paper!TaxOf(doc) = C + S + G
    BY <2>1, <2>2, <2>3 DEF Paper!TaxOf
  <2>5. CASE doc.inter
    <3>1. C = 0 /\ S = 0
      BY <2>1, <2>2, <2>5, SavedBill
    <3>2. \A v \in V : h[v] = SumFunctionOnSet(g, group[v])
      BY <1>13, <1>15, <2>5
    <3>3. SumFunctionOnSet(h, V) = SumFunctionOnSet(g, D)
      BY <1>3, <1>6, <1>10, <3>2, SumGrouped
    <3>. QED  BY <1>11, <2>3, <2>4, <3>1, <3>3
  <2>6. CASE ~ doc.inter
    <3>1. G = 0
      BY <2>3, <2>6, SavedBill
    <3>2. \A v \in V : h[v] = SumFunctionOnSet(cs, group[v])
      BY <1>13, <1>15, <2>6
    <3>3. SumFunctionOnSet(h, V) = SumFunctionOnSet(cs, D)
      BY <1>3, <1>6, <1>10, <3>2, SumGrouped
    <3>. QED  BY <1>11, <1>12, <2>1, <2>2, <2>4, <3>1, <3>3
  <2>. QED  BY <2>5, <2>6
<1>. QED  BY <1>2, <1>11, <1>14, <1>15, <1>16, <1>17, <1>18, <1>19

(* ... and the cells of a row to its total.                                  *)
LEMMA CellsAddUp ==
  ASSUME NEW doc \in Documents, NEW l, Paper!ShowGst(doc, l), NEW i \in DOMAIN doc.lines
  PROVE  Paper!Cell(doc.lines[i], "total") =
           Paper!Sum([column \in Paper!Columns(doc, l) \ {"total"} |-> Paper!Cell(doc.lines[i], column)])
<1>1. PICK line : line = doc.lines[i]
  OBVIOUS
<1>2. Paper!LineSaved(line, doc.inter)
  BY <1>1, SavedLines
<1>3. PICK t, c, s, g \in Nat : t = line.taxable /\ c = line.cgst /\ s = line.sgst /\ g = line.igst
  BY <1>2 DEF Paper!LineSaved
<1>4. line.total = t + c + s + g
  BY <1>2, <1>3 DEF Paper!LineSaved
<1>5. Paper!Columns(doc, l) = {"total", "taxable", "tax"}
  <2>1. ~ Paper!Simple(doc, l)
    BY DEF Paper!ShowGst
  <2>. QED  BY <2>1 DEF Paper!Columns
<1>6. Paper!Columns(doc, l) \ {"total"} = {"taxable", "tax"}
  BY <1>5
<1>7. PICK f : f = [column \in {"taxable", "tax"} |-> Paper!Cell(line, column)]
  OBVIOUS
<1>8. f["taxable"] = t /\ f["tax"] = c + s + g
  BY <1>3, <1>7 DEF Paper!Cell
<1>9. Paper!Sum(f) = SumFunctionOnSet(f, {"taxable", "tax"})
  BY <1>7, PaperTotal
<1>10. SumFunctionOnSet(f, {"taxable", "tax"}) = t + (c + s + g)
  <2>1. IsFiniteSet({"taxable"}) /\ {"taxable"} \cup {"tax"} = {"taxable", "tax"}
    BY FS_Singleton
  <2>2. t \in Int /\ c + s + g \in Int
    OBVIOUS
  <2>3. SumFunctionOnSet(f, {"taxable"}) = f["taxable"]
    <3>. PICK word : word = "taxable"
      OBVIOUS
    <3>1. f[word] \in Int /\ IsFiniteSet({word})
      BY <1>8, <2>1, <2>2
    <3>2. SumFunctionOnSet(f, {word}) = f[word]
      BY <3>1, SumOfOne
    <3>. QED  BY <3>2
  <2>4. SumFunctionOnSet(f, {"taxable"} \cup {"tax"}) = SumFunctionOnSet(f, {"taxable"}) + f["tax"]
    <3>1. "tax" \notin {"taxable"}
      OBVIOUS
    <3>2. \A word \in {"taxable"} \cup {"tax"} : f[word] \in Int
      BY <1>8, <2>2
    <3>. QED  BY <2>1, <3>1, <3>2, SumAdd
  <2>. QED  BY <1>8, <2>1, <2>3, <2>4
<1>11. Paper!Cell(line, "total") = t + c + s + g
  BY <1>4 DEF Paper!Cell
<1>12. t + c + s + g = t + (c + s + g)
  OBVIOUS
<1>. QED  BY <1>1, <1>6, <1>7, <1>9, <1>10, <1>11, <1>12

-----------------------------------------------------------------------------
(* A page holds the head of a table and any block of two hundred points.     *)
LEMMA Sizes ==
  ASSUME NEW l
  PROVE  /\ Paper!Margin(l) \in Nat /\ Paper!Heading(l) \in Nat /\ Paper!Bottom(l) \in Int
         /\ Paper!Margin(l) + Paper!Heading(l) + 200 <= Paper!Bottom(l) - 12
         /\ Paper!TallyTop(l) \in Int
<1>1. PICK m \in Nat : m = Paper!Margin(l) /\ m <= 40
  BY DEF Paper!Margin
<1>2. PICK h \in Nat : h = Paper!Heading(l) /\ h <= 22
  BY DEF Paper!Heading
<1>3. PICK e \in Int : e = Paper!Bottom(l) /\ 595 - m <= e
  BY <1>1 DEF Paper!Bottom
<1>4. Paper!TallyTop(l) \in Int
  BY <1>1 DEF Paper!TallyTop
<1>. QED  BY <1>1, <1>2, <1>3, <1>4

(* Where a block that was drawn stands, with the cursor at y below it and its top above. *)
Stands(l, done, y, top) ==
  /\ done \in {"total", "words", "bank", "totals", "text"} => y <= Paper!Bottom(l)
  /\ done \in {"row", "tax", "notes"} => y <= Paper!Bottom(l) \/ y - top > Paper!PageRoom(l, done)
  /\ done = "taxWords" => y - Paper!WordsGap <= Paper!Bottom(l)
  /\ done = "sign" => y <= Paper!Bottom(l) - 12

(* A block that fits below the cursor stands as it should, ...               *)
LEMMA FittingStands ==
  ASSUME NEW l, NEW b \in Blocks, NEW y \in Int, y + b.need <= Paper!Bottom(l) - b.slack
  PROVE  Stands(l, b.what, y + b.take, y)
<1>1. PICK e \in Int : e = Paper!Bottom(l)
  BY Sizes
<1>2. b.need \in Nat /\ b.take \in Nat /\ b.slack \in Nat /\ b.what \in Whats /\ Fitted(b)
  BY DEF Blocks
<1>3. PICK need, take, slack \in Nat : need = b.need /\ take = b.take /\ slack = b.slack
  BY <1>2
<1>4. y + need <= e - slack
  BY <1>1, <1>3
<1>5. b.what \in {"total", "words", "bank", "totals", "text", "row", "tax", "notes"} => y + take <= e
  BY <1>2, <1>3, <1>4 DEF Fitted
<1>6. b.what = "taxWords" => y + take - 4 <= e
  BY <1>2, <1>3, <1>4 DEF Fitted
<1>7. b.what = "sign" => y + take <= e - 12
  BY <1>2, <1>3, <1>4 DEF Fitted
<1>. QED  BY <1>1, <1>3, <1>5, <1>6, <1>7 DEF Stands, Paper!WordsGap

(* ... and so does one on top of the next page.                              *)
LEMMA TurnedStands ==
  ASSUME NEW l, NEW b \in Blocks, NEW top \in Int,
         top = Paper!Margin(l) + (IF b.what \in {"row", "total"} THEN Paper!Heading(l) ELSE 0)
  PROVE  Stands(l, b.what, top + b.take, top)
<1>1. PICK e \in Int : e = Paper!Bottom(l)
  BY Sizes
<1>2. PICK m, h \in Nat : m = Paper!Margin(l) /\ h = Paper!Heading(l) /\ m + h + 200 <= e - 12
  BY <1>1, Sizes
<1>3. PICK take \in Nat : take = b.take
  BY DEF Blocks
<1>4. top <= m + h /\ top = m + (IF b.what \in {"row", "total"} THEN h ELSE 0)
  BY <1>2
<1>5. Fitted(b)
  BY DEF Blocks
<1>6. b.what \in {"total", "words", "bank", "totals", "text", "sign", "taxWords"} => top + take <= e - 12
  BY <1>2, <1>3, <1>4, <1>5 DEF Fitted
<1>7. b.what \in {"row", "tax", "notes"} =>
        top + take <= e \/ (top + take) - top > e - m - (IF b.what \in {"row", "total"} THEN h ELSE 0)
  BY <1>1, <1>2, <1>3, <1>4
<1>8. e - m - (IF b.what \in {"row", "total"} THEN h ELSE 0) = Paper!PageRoom(l, b.what)
  BY <1>1, <1>2 DEF Paper!PageRoom
<1>9. b.what \in {"row", "tax", "notes"} => top + take <= e \/ (top + take) - top > Paper!PageRoom(l, b.what)
  BY <1>7, <1>8
<1>. QED  BY <1>1, <1>3, <1>6, <1>9 DEF Stands, Paper!WordsGap

-----------------------------------------------------------------------------
(* A document being drawn is one of the documents, on some page: what was printed and
   what is to be drawn come to its total but for what the layout leaves out, and
   the block drawn last stands as it should. *)
PaperFields == {"at", "doc", "layout", "page", "sum", "y", "top", "done", "todo"}
Due(doc, l) == doc.bill.total - Paper!Unprinted(doc, l)
PaperRow(p) ==
  /\ DOMAIN p = PaperFields
  /\ p.at \in {"drawing", "done"} /\ p.doc \in Documents /\ p.page \in Nat \ {0}
  /\ p.sum \in Int /\ p.y \in Int /\ p.top \in Int /\ p.todo \in Seq(Blocks)
  /\ p.at = "done" => p.todo = <<>>
  /\ p.sum + Worth(p.todo) = Due(p.doc, p.layout)
  /\ Stands(p.layout, p.done, p.y, p.top)

PaperInv == print = Paper!Idle \/ PaperRow(print)

(* What the layout leaves out, and what its blocks print.                    *)
LEMMA TallyDue ==
  ASSUME NEW doc \in Documents, NEW l, Paper!IsTally(l), NEW heights \in [DOMAIN doc.lines -> Heights],
         NEW todo, todo = Paper!TallyTable(doc, l, heights) \o Paper!TallySections(doc, l)
  PROVE  todo \in Seq(Blocks) /\ 0 + Worth(todo) = Due(doc, l)
<1>1. PICK s \in Seq(Blocks) : s = Paper!TallyTable(doc, l, heights)
  BY TallyWorth
<1>2. Worth(s) = doc.bill.total - (IF Paper!ShowGst(doc, l) THEN 0 ELSE Paper!TaxOf(doc))
  BY <1>1, TallyWorth
<1>3. PICK t \in Seq(Blocks) : t = Paper!TallySections(doc, l) /\ Worth(t) = 0
  BY SectionsSilent DEF Silent
<1>4. todo \in Seq(Blocks) /\ Worth(todo) = Worth(s) + Worth(t) /\ Worth(s) \in Int
  <2>1. todo = s \o t
    BY <1>1, <1>3
  <2>. QED  BY <2>1, WorthOfBoth
<1>5. Due(doc, l) = doc.bill.total - (IF Paper!ShowGst(doc, l) THEN 0 ELSE Paper!TaxOf(doc))
  BY Zenon DEF Due, Paper!Unprinted
<1>. QED  BY <1>2, <1>3, <1>4, <1>5

LEMMA PlainDue ==
  ASSUME NEW doc \in Documents, NEW l, ~ Paper!IsTally(l), NEW heights \in [DOMAIN doc.lines -> Heights],
         NEW todo, todo = Paper!PlainTable(doc, heights) \o Paper!PlainSections(doc, l)
  PROVE  todo \in Seq(Blocks) /\ 0 + Worth(todo) = Due(doc, l)
<1>1. PICK s \in Seq(Blocks) : s = Paper!PlainTable(doc, heights) /\ Worth(s) = 0
  BY PlainRowsSilent DEF Silent
<1>2. PICK t \in Seq(Blocks) : t = Paper!PlainSections(doc, l)
  BY PlainWorth
<1>3. PICK tax : tax = IF Paper!Simple(doc, l) THEN Paper!TaxOf(doc) ELSE 0
  OBVIOUS
<1>4. Worth(t) = doc.bill.total - (doc.freight + doc.other + tax)
  BY <1>2, <1>3, PlainWorth
<1>5. todo \in Seq(Blocks) /\ Worth(todo) = Worth(s) + Worth(t) /\ Worth(t) \in Int
  <2>1. todo = s \o t
    BY <1>1, <1>2
  <2>. QED  BY <2>1, WorthOfBoth
<1>6. Due(doc, l) = doc.bill.total - (doc.bill.extra + tax)
  BY <1>3, Zenon DEF Due, Paper!Unprinted
<1>7. doc.bill.extra = doc.freight + doc.other
  BY SavedBill
<1>. QED  BY <1>1, <1>4, <1>5, <1>6, <1>7

(* A block drawn where it stands as it should.                               *)
LEMMA PaperDrawn ==
  ASSUME PaperRow(print), print.at = "drawing", print.todo # <<>>, NEW page1 \in Nat \ {0}, NEW top1 \in Int,
         Stands(print.layout, Head(print.todo).what, top1 + Head(print.todo).take, top1),
         Paper!Drawn(page1, top1)
  PROVE  PaperRow(print')
<1>. PICK p : p = print
  OBVIOUS
<1>1. PICK b : b = Head(p.todo)
  OBVIOUS
<1>2. PICK todo1 : todo1 = Tail(p.todo)
  OBVIOUS
<1>3. /\ b \in Blocks /\ todo1 \in Seq(Blocks) /\ Worth(p.todo) = b.amount + Worth(todo1)
      /\ Worth(todo1) \in Int /\ b.amount \in Int
  BY <1>1, <1>2, WorthOfNext DEF PaperRow
<1>4. PICK take \in Nat : take = b.take
  BY <1>3 DEF Blocks
<1>5. PICK y1 \in Int : y1 = top1 + take
  OBVIOUS
<1>6. PICK done1 : done1 = b.what
  OBVIOUS
<1>7. PICK sum1 \in Int : sum1 = p.sum + b.amount
  BY <1>3 DEF PaperRow
<1>8. print' = [p EXCEPT !.page = page1, !.top = top1, !.y = y1, !.done = done1, !.sum = sum1, !.todo = todo1]
  BY <1>1, <1>2, <1>4, <1>5, <1>6, <1>7 DEF Paper!Drawn, Paper!Next1, PaperRow, PaperFields
<1>. PICK q : q = print'
  OBVIOUS
<1>9. DOMAIN q = PaperFields /\ q.at = p.at /\ q.doc = p.doc /\ q.layout = p.layout /\ q.page = page1
      /\ q.top = top1 /\ q.y = y1 /\ q.done = done1 /\ q.sum = sum1 /\ q.todo = todo1
  BY <1>8 DEF PaperRow, PaperFields
<1>10. q.sum + Worth(q.todo) = Due(q.doc, q.layout)
  <2>1. p.sum + Worth(p.todo) = Due(p.doc, p.layout) /\ p.sum \in Int
    BY DEF PaperRow
  <2>. QED  BY <1>3, <1>7, <1>9, <2>1
<1>11. Stands(q.layout, q.done, q.y, q.top)
  BY <1>1, <1>4, <1>5, <1>6, <1>9
<1>12. PaperRow(q)
  BY <1>3, <1>9, <1>10, <1>11 DEF PaperRow
<1>. QED  BY <1>12

LEMMA PaperInit == Paper!Init => PaperInv
BY DEF Paper!Init, PaperInv

(* Drawn below what there is, where it fits, or on top of the next page.     *)
LEMMA PaperFits ==
  ASSUME PaperRow(print), print.at = "drawing", print.todo # <<>>, Paper!Fits, Paper!Drawn(print.page, print.y)
  PROVE  PaperRow(print')
<1>1. PICK b \in Blocks : b = Head(print.todo)
  BY WorthOfNext DEF PaperRow
<1>2. PICK y \in Int : y = print.y
  BY DEF PaperRow
<1>3. PICK l : l = print.layout
  OBVIOUS
<1>4. y + b.need <= Paper!Bottom(l) - b.slack
  BY <1>1, <1>2, <1>3 DEF Paper!Fits, Paper!Next1
<1>5. Stands(l, b.what, y + b.take, y)
  BY <1>4, FittingStands
<1>6. Stands(print.layout, Head(print.todo).what, print.y + Head(print.todo).take, print.y)
  BY <1>1, <1>2, <1>3, <1>5
<1>7. print.page \in Nat \ {0} /\ print.y \in Int
  BY DEF PaperRow
<1>. QED  BY <1>6, <1>7, PaperDrawn

LEMMA PaperTurned ==
  ASSUME PaperRow(print), print.at = "drawing", print.todo # <<>>, NEW top \in Int,
         top = Paper!Margin(print.layout)
                 + (IF Head(print.todo).what \in {"row", "total"} THEN Paper!Heading(print.layout) ELSE 0),
         Paper!Drawn(print.page + 1, top)
  PROVE  PaperRow(print')
<1>1. PICK b \in Blocks : b = Head(print.todo)
  BY WorthOfNext DEF PaperRow
<1>2. PICK l : l = print.layout
  OBVIOUS
<1>3. top = Paper!Margin(l) + (IF b.what \in {"row", "total"} THEN Paper!Heading(l) ELSE 0)
  BY <1>1, <1>2
<1>4. Stands(l, b.what, top + b.take, top)
  BY <1>3, TurnedStands
<1>5. Stands(print.layout, Head(print.todo).what, top + Head(print.todo).take, top)
  BY <1>1, <1>2, <1>4
<1>6. print.page + 1 \in Nat \ {0}
  BY DEF PaperRow
<1>. QED  BY <1>5, <1>6, PaperDrawn

LEMMA PaperNext == PaperInv /\ [Paper!Next]_(Paper!vars) => PaperInv'
<1>. SUFFICES ASSUME PaperInv, [Paper!Next]_(Paper!vars) PROVE PaperInv'
  OBVIOUS
<1>1. ASSUME PaperRow(print') PROVE PaperInv'
  BY <1>1 DEF PaperInv
<1>2. ASSUME NEW whats, Paper!Pending(whats)
      PROVE  /\ PaperRow(print) /\ print.at = "drawing" /\ print.todo # <<>>
             /\ Head(print.todo).what \in whats
  BY <1>2 DEF Paper!Pending, PaperInv, Paper!Idle, Paper!Next1
<1>3. Paper!Margin(print.layout) \in Int /\ Paper!Heading(print.layout) \in Int /\ Paper!Bottom(print.layout) \in Int
      /\ Paper!Margin(print.layout) + Paper!Heading(print.layout) \in Int
  <2>. PICK l : l = print.layout
    OBVIOUS
  <2>1. Paper!Margin(l) \in Nat /\ Paper!Heading(l) \in Nat /\ Paper!Bottom(l) \in Int
    BY Sizes
  <2>. QED  BY <2>1
<1>4. ASSUME NEW doc \in Documents, NEW own, NEW shared, NEW top \in Tops, NEW heights \in [DOMAIN doc.lines -> Heights],
             Paper!Render(doc, own, shared, heights, top)
      PROVE  PaperInv'
  <2>. PICK l : l = Paper!Layout(own, shared)
    OBVIOUS
  <2>. PICK y : y = (IF Paper!IsTally(l) THEN Paper!TallyTop(l) ELSE Paper!PlainTop(top)) + Paper!Heading(l)
    OBVIOUS
  <2>. PICK todo : todo = IF Paper!IsTally(l) THEN Paper!TallyTable(doc, l, heights) \o Paper!TallySections(doc, l)
                          ELSE Paper!PlainTable(doc, heights) \o Paper!PlainSections(doc, l)
    OBVIOUS
  <2>1. print' = [at |-> "drawing", doc |-> doc, layout |-> l, page |-> 1, sum |-> 0,
                  y |-> y, top |-> 0, done |-> "header", todo |-> todo]
    BY <1>4, Zenon DEF Paper!Render
  <2>2. y \in Int
    <3>1. Paper!TallyTop(l) \in Int /\ Paper!Heading(l) \in Int /\ Paper!PlainTop(top) \in Int
      BY Sizes, PaperAssumption DEF Paper!PlainTop
    <3>. QED  BY <3>1
  <2>3. todo \in Seq(Blocks) /\ 0 + Worth(todo) = Due(doc, l)
    <3>1. CASE Paper!IsTally(l)
      BY <3>1, TallyDue
    <3>2. CASE ~ Paper!IsTally(l)
      BY <3>2, PlainDue
    <3>. QED  BY <3>1, <3>2
  <2>4. Stands(l, "header", y, 0)
    BY DEF Stands
  <2>. PICK q : q = print'
    OBVIOUS
  <2>5. PaperRow(q)
    BY <2>1, <2>2, <2>3, <2>4 DEF PaperRow, PaperFields
  <2>. QED  BY <1>1, <2>5
<1>5. CASE Paper!DrawRow
  <2>1. PaperRow(print) /\ print.at = "drawing" /\ print.todo # <<>> /\ Head(print.todo).what \in {"row", "total"}
    BY <1>2, <1>5, Zenon DEF Paper!DrawRow
  <2>2. CASE Paper!Fits
    <3>1. Paper!Drawn(print.page, print.y)
      BY <1>5, <2>2, Zenon DEF Paper!DrawRow
    <3>. QED  BY <1>1, <2>1, <2>2, <3>1, PaperFits
  <2>3. CASE ~ Paper!Fits
    <3>. PICK top : top = Paper!Margin(print.layout) + Paper!Heading(print.layout)
      OBVIOUS
    <3>1. Paper!Drawn(print.page + 1, top)
      BY <1>5, <2>3, Zenon DEF Paper!DrawRow
    <3>2. top \in Int /\ top = Paper!Margin(print.layout)
                 + (IF Head(print.todo).what \in {"row", "total"} THEN Paper!Heading(print.layout) ELSE 0)
      BY <1>3, <2>1
    <3>. QED  BY <1>1, <2>1, <3>1, <3>2, PaperTurned
  <2>. QED  BY <2>2, <2>3
<1>6. ASSUME NEW whats, whats \cap {"row", "total"} = {}, Paper!Pending(whats),
             ~ Paper!Fits, Paper!Drawn(print.page + 1, Paper!Margin(print.layout))
      PROVE  PaperInv'
  <2>1. PaperRow(print) /\ print.at = "drawing" /\ print.todo # <<>> /\ Head(print.todo).what \in whats
    BY <1>2, <1>6, Zenon
  <2>. PICK top : top = Paper!Margin(print.layout)
    OBVIOUS
  <2>2. Head(print.todo).what \notin {"row", "total"}
    BY <1>6, <2>1
  <2>3. top \in Int /\ top = Paper!Margin(print.layout)
                 + (IF Head(print.todo).what \in {"row", "total"} THEN Paper!Heading(print.layout) ELSE 0)
    BY <1>3, <2>2
  <2>4. Paper!Drawn(print.page + 1, top)
    BY <1>6, Zenon
  <2>. QED  BY <1>1, <2>1, <2>3, <2>4, PaperTurned
<1>7. CASE Paper!DrawSection
  <2>. DEFINE whats == {"words", "tax", "notes", "bank", "sign", "totals"}
  <2>1. Paper!Pending(whats)
    BY <1>7, Zenon DEF Paper!DrawSection
  <2>2. whats \cap {"row", "total"} = {}
    OBVIOUS
  <2>. HIDE DEF whats
  <2>3. PaperRow(print) /\ print.at = "drawing" /\ print.todo # <<>>
    BY <1>2, <2>1, Zenon
  <2>4. CASE Paper!Fits
    <3>1. Paper!Drawn(print.page, print.y)
      BY <1>7, <2>4, Zenon DEF Paper!DrawSection
    <3>. QED  BY <1>1, <2>3, <2>4, <3>1, PaperFits
  <2>5. CASE ~ Paper!Fits
    <3>1. Paper!Drawn(print.page + 1, Paper!Margin(print.layout))
      BY <1>7, <2>5, Zenon DEF Paper!DrawSection
    <3>. QED  BY <1>6, <2>1, <2>2, <2>5, <3>1, Zenon
  <2>. QED  BY <2>4, <2>5
<1>8. CASE Paper!DrawText
  <2>. DEFINE whats == {"text", "label", "taxWords"}
  <2>1. Paper!Pending(whats)
    BY <1>8, Zenon DEF Paper!DrawText
  <2>2. whats \cap {"row", "total"} = {}
    OBVIOUS
  <2>. HIDE DEF whats
  <2>3. PaperRow(print) /\ print.at = "drawing" /\ print.todo # <<>>
    BY <1>2, <2>1, Zenon
  <2>4. CASE Paper!Fits
    <3>1. Paper!Drawn(print.page, print.y)
      BY <1>8, <2>4, Zenon DEF Paper!DrawText
    <3>. QED  BY <1>1, <2>3, <2>4, <3>1, PaperFits
  <2>5. CASE ~ Paper!Fits /\ Paper!Next1.what # "label"
    <3>1. Paper!Drawn(print.page + 1, Paper!Margin(print.layout))
      BY <1>8, <2>5, Zenon DEF Paper!DrawText
    <3>. QED  BY <1>6, <2>1, <2>2, <2>5, <3>1, Zenon
  <2>6. CASE ~ Paper!Fits /\ Paper!Next1.what = "label"
    <3>. PICK todo1 : todo1 = Tail(print.todo)
      OBVIOUS
    <3>. PICK b : b = Head(print.todo)
      OBVIOUS
    <3>. PICK top1 : top1 = Paper!Margin(print.layout)
      OBVIOUS
    <3>. PICK page1 : page1 = print.page + 1
      OBVIOUS
    <3>. PICK p : p = print
      OBVIOUS
    <3>1. print' = [p EXCEPT !.page = page1, !.todo = todo1, !.done = "label", !.top = top1]
      BY <1>8, <2>3, <2>6 DEF Paper!DrawText, PaperRow, PaperFields
    <3>2. /\ b \in Blocks /\ todo1 \in Seq(Blocks) /\ Worth(p.todo) = b.amount + Worth(todo1)
          /\ Worth(todo1) \in Int
      BY <2>3, WorthOfNext DEF PaperRow
    <3>3. b.amount = 0
      BY <2>6, <3>2 DEF Blocks, Fitted, Paper!Next1
    <3>. PICK q : q = print'
      OBVIOUS
    <3>4. DOMAIN q = PaperFields /\ q.at = p.at /\ q.doc = p.doc /\ q.layout = p.layout /\ q.page = page1
          /\ q.top = top1 /\ q.y = p.y /\ q.done = "label" /\ q.sum = p.sum /\ q.todo = todo1
      BY <2>3, <3>1 DEF PaperRow, PaperFields
    <3>5. Stands(q.layout, q.done, q.y, q.top)
      BY <3>4 DEF Stands
    <3>6. q.sum + Worth(q.todo) = Due(q.doc, q.layout)
      <4>1. p.sum + Worth(p.todo) = Due(p.doc, p.layout)
        BY <2>3 DEF PaperRow
      <4>. QED  BY <3>2, <3>3, <3>4, <4>1
    <3>7. page1 \in Nat \ {0} /\ top1 \in Int
      BY <1>3, <2>3 DEF PaperRow
    <3>8. PaperRow(q)
      BY <2>3, <3>2, <3>4, <3>5, <3>6, <3>7 DEF PaperRow
    <3>. QED  BY <1>1, <3>8
  <2>. QED  BY <2>4, <2>5, <2>6
<1>9. CASE Paper!DrawBottom
  <2>1. PaperRow(print) /\ print.at = "drawing" /\ print.todo # <<>> /\ Head(print.todo).what = "bottom"
    BY <1>2, <1>9 DEF Paper!DrawBottom
  <2>. PICK low : low = Paper!Bottom(print.layout) - 150
    OBVIOUS
  <2>. PICK top : top = IF print.y + 22 > low THEN print.y + 22 ELSE low
    OBVIOUS
  <2>2. Paper!Drawn(print.page, top)
    BY <1>9, Zenon DEF Paper!DrawBottom
  <2>3. top \in Int /\ print.page \in Nat \ {0}
    BY <1>3, <2>1 DEF PaperRow
  <2>4. Stands(print.layout, Head(print.todo).what, top + Head(print.todo).take, top)
    BY <2>1 DEF Stands
  <2>. QED  BY <1>1, <2>1, <2>2, <2>3, <2>4, PaperDrawn
<1>10. CASE Paper!Finish
  <2>. PICK p : p = print
    OBVIOUS
  <2>1. PaperRow(p) /\ p.todo = <<>> /\ print' = [p EXCEPT !.at = "done"]
    BY <1>10 DEF Paper!Finish, PaperInv, Paper!Idle
  <2>. PICK q : q = print'
    OBVIOUS
  <2>2. DOMAIN q = PaperFields /\ q.at = "done" /\ q.doc = p.doc /\ q.layout = p.layout /\ q.page = p.page
          /\ q.top = p.top /\ q.y = p.y /\ q.done = p.done /\ q.sum = p.sum /\ q.todo = p.todo
    BY <2>1 DEF PaperRow, PaperFields
  <2>3. PaperRow(q)
    BY <2>1, <2>2 DEF PaperRow
  <2>. QED  BY <1>1, <2>3
<1>11. CASE Paper!Deliver
  BY <1>11 DEF Paper!Deliver, PaperInv, Paper!Idle
<1>12. CASE UNCHANGED Paper!vars
  <2>1. print' = print
    BY <1>12 DEF Paper!vars
  <2>. QED  BY <1>1, <2>1 DEF PaperInv
<1>. QED  BY <1>4, <1>5, <1>7, <1>8, <1>9, <1>10, <1>11, <1>12, Zenon DEF Paper!Next

(* What the property says follows.                                           *)
LEMMA PaperShows == PaperInv => Paper!BlocksStayWhole /\ Paper!PrintedAddsUp /\ Paper!WordsSayAmount
<1>. SUFFICES ASSUME PaperInv PROVE Paper!BlocksStayWhole /\ Paper!PrintedAddsUp /\ Paper!WordsSayAmount
  OBVIOUS
<1>1. CASE print = Paper!Idle
  <2>1. print.at = "idle"
    BY <1>1 DEF Paper!Idle
  <2>2. "idle" # "done"
    OBVIOUS
  <2>. QED  BY <2>1, <2>2, SMT DEF Paper!BlocksStayWhole, Paper!PrintedAddsUp, Paper!WordsSayAmount
<1>2. CASE PaperRow(print)
  <2>. PICK p : p = print
    OBVIOUS
  <2>. PICK doc \in Documents : doc = p.doc
    BY <1>2 DEF PaperRow
  <2>. PICK l : l = p.layout
    OBVIOUS
  <2>1. Stands(l, p.done, p.y, p.top)
    BY <1>2 DEF PaperRow
  <2>2. Paper!BlocksStayWhole
    BY <2>1 DEF Stands, Paper!BlocksStayWhole
  <2>3. ASSUME p.at = "done" PROVE p.sum = doc.bill.total - Paper!Unprinted(doc, l)
    <3>1. p.todo = <<>> /\ p.sum \in Int /\ p.sum + Worth(p.todo) = Due(doc, l)
      BY <1>2, <2>3 DEF PaperRow
    <3>2. Worth(p.todo) = 0
      BY <3>1, WorthOfNone
    <3>. QED  BY <3>1, <3>2 DEF Due
  <2>4. Paper!PrintedAddsUp
    <3>1. ASSUME Paper!ShowGst(doc, l), NEW i \in DOMAIN doc.lines
          PROVE  Paper!Cell(doc.lines[i], "total") =
                   Paper!Sum([column \in Paper!Columns(doc, l) \ {"total"} |-> Paper!Cell(doc.lines[i], column)])
      BY <3>1, CellsAddUp
    <3>2. /\ doc.bill.taxable = Paper!Sum([hsn \in Paper!Hsns(doc) |-> Paper!HsnRow(doc, hsn).taxable])
          /\ Paper!TaxOf(doc) = Paper!Sum([hsn \in Paper!Hsns(doc) |-> Paper!HsnRow(doc, hsn).tax])
      BY CodesAddUp
    <3>3. print.doc = doc /\ print.layout = l
      OBVIOUS
    <3>4. print.at = "done" => print.sum = doc.bill.total - Paper!Unprinted(doc, l)
      BY <2>3
    <3>5. (~ Paper!IsTally(l) /\ Paper!ShowGst(doc, l)) =>
            \A i \in DOMAIN doc.lines :
              Paper!Cell(doc.lines[i], "total") =
                Paper!Sum([column \in Paper!Columns(doc, l) \ {"total"} |-> Paper!Cell(doc.lines[i], column)])
      BY <3>1
    <3>. QED  BY <3>2, <3>3, <3>4, <3>5 DEF Paper!PrintedAddsUp
  <2>5. Paper!WordsSayAmount
    <3>1. PICK tt \in Nat : tt = doc.bill.total
      BY SavedBill
    <3>2. PICK n \in Nat : n = tt \div Paper!Rupee
      BY <3>1, SMT DEF Paper!Rupee
    <3>3. ASSUME NEW m \in Spelled \cup {n}
          PROVE  /\ m \div 10000000 < 100 => Paper!Spells(Paper!AmountInWords(m), m)
                 /\ m \div 1000000000 < 1000 => Paper!Spells(Paper!AmountInWordsIntl(m), m)
      <4>1. m \in Nat
        BY <3>3, PaperAssumption, SMT
      <4>. QED  BY <4>1, WordsSay, SMT
    <3>. QED  BY <3>1, <3>2, <3>3, SMT DEF Paper!WordsSayAmount
  <2>. QED  BY <2>2, <2>4, <2>5
<1>. QED  BY <1>1, <1>2 DEF PaperInv

-----------------------------------------------------------------------------
(* The sums of the form are the library's.                                   *)
LEMMA EntrySum == ASSUME NEW f, NEW S PROVE Entry!SumFunctionOnSet(f, S) = SumFunctionOnSet(f, S)
BY DEF Entry!SumFunctionOnSet, Entry!FoldFunctionOnSet, Entry!MapThenFoldSet, SumFunctionOnSet,
       FoldFunctionOnSet, MapThenFoldSet

(* Rounding is within half of the unit.                                      *)
LEMMA Rounded ==
  ASSUME NEW n \in Int, NEW d \in Nat \ {0}
  PROVE  Entry!Round(n, d) \in Int /\ 2 * (d * Entry!Round(n, d)) <= 2 * n + d /\ 2 * n + d < 2 * (d * Entry!Round(n, d)) + 2 * d
<1>1. PICK m \in Int : m = 2 * n + d
  BY SMT
<1>2. PICK e \in Nat \ {0} : e = 2 * d
  BY SMT
<1>3. PICK q \in Int : q = m \div e /\ e * q <= m /\ m < e * q + e
  BY SMT
<1>4. Entry!Round(n, d) = q
  BY <1>1, <1>2, <1>3, SMT DEF Entry!Round
<1>5. e * q = 2 * (d * q)
  BY <1>2, SMT
<1>. QED  BY <1>1, <1>2, <1>3, <1>4, <1>5, SMT

(* ... to a tenth, to a hundredth, and to a rupee of what a line is exact to.     *)
LEMMA RoundedTo ==
  ASSUME NEW n \in Int
  PROVE  /\ Entry!Round(n, 10) \in Int /\ -5 <= 10 * Entry!Round(n, 10) - n /\ 10 * Entry!Round(n, 10) - n <= 5
         /\ Entry!Round(n, 100) \in Int /\ -49 <= 100 * Entry!Round(n, 100) - n /\ 100 * Entry!Round(n, 100) - n <= 50
<1>1. /\ Entry!Round(n, 10) \in Int /\ 2 * (10 * Entry!Round(n, 10)) <= 2 * n + 10 /\ 2 * n + 10 < 2 * (10 * Entry!Round(n, 10)) + 20
      /\ Entry!Round(n, 100) \in Int /\ 2 * (100 * Entry!Round(n, 100)) <= 2 * n + 100 /\ 2 * n + 100 < 2 * (100 * Entry!Round(n, 100)) + 200
  BY Rounded, SMT
<1>2. PICK r \in Int : r = Entry!Round(n, 10)
  BY <1>1, SMT
<1>3. PICK s \in Int : s = Entry!Round(n, 100)
  BY <1>1, SMT
<1>4. -5 <= 10 * r - n /\ 10 * r - n <= 5 /\ -49 <= 100 * s - n /\ 100 * s - n <= 50
  BY <1>1, <1>2, <1>3, SMT
<1>. QED  BY <1>1, <1>2, <1>3, <1>4, SMT

(* Nothing is rounded below zero.                                            *)
LEMMA RoundedUp ==
  ASSUME NEW n \in Nat
  PROVE  Entry!Round(n, 10) \in Nat /\ Entry!Round(n, 100) \in Nat
<1>1. Entry!Round(n, 10) = (2 * n + 10) \div 20
  BY SMT DEF Entry!Round
<1>2. Entry!Round(n, 100) = (2 * n + 100) \div 200
  BY SMT DEF Entry!Round
<1>. QED  BY <1>1, <1>2, SMT

(* Products of what is within bounds.                                        *)
LEMMA WithinTimes ==
  ASSUME NEW w \in Int, NEW v \in Nat, NEW k \in Nat, -k <= w, w <= k
  PROVE  v * w \in Int /\ - (v * k) <= v * w /\ v * w <= v * k
BY SMT

(* What a line comes to before rounding, in hundred thousandths of a paisa.  *)
Exact(l) == l.qty * l.rate * (100 - l.disc) * (100 + l.gst)
PartsOf(c) == c.taxable + c.cgst + c.sgst + c.igst

(* The tax, in two halves or whole.                                          *)
LEMMA Halves ==
  ASSUME NEW tax \in Nat, NEW inter \in BOOLEAN, NEW short \in BOOLEAN,
         NEW c, c = IF inter THEN 0 ELSE Entry!CgstOf(tax, short),
         NEW s, s = IF inter THEN 0 ELSE tax - c,
         NEW i, i = IF inter THEN tax ELSE 0
  PROVE  /\ c \in Nat /\ s \in Nat /\ i \in Nat /\ c + s + i = tax
         /\ c = 0 => s = 0
         /\ c <= s + 1 /\ s <= c + 1
<1>1. CASE inter
  BY <1>1, SMT
<1>2. CASE ~ inter /\ short /\ tax >= 29
  <2>1. c = tax \div 2
    BY <1>2, SMT DEF Entry!CgstOf, Entry!FirstDown
  <2>2. c \in Nat /\ 2 * c <= tax /\ tax <= 2 * c + 1
    BY <2>1, SMT
  <2>3. s = tax - c /\ i = 0
    BY <1>2, SMT
  <2>4. s \in Nat /\ c + s + i = tax
    BY <2>2, <2>3, SMT
  <2>5. tax >= 29
    BY <1>2, SMT
  <2>. QED  BY <2>2, <2>3, <2>4, <2>5, SMT
<1>3. CASE ~ inter /\ ~ (short /\ tax >= 29)
  <2>1. c = (tax + 1) \div 2
    BY <1>3, SMT DEF Entry!CgstOf, Entry!FirstDown
  <2>. QED  BY <1>3, <2>1, SMT
<1>. QED  BY <1>1, <1>2, <1>3, SMT

(* A line: what it is rounded to, and by how much.                           *)
LEMMA LineComesTo ==
  ASSUME NEW l \in Entry!Line, NEW inter \in BOOLEAN, NEW short \in BOOLEAN, NEW c, c = Entry!LineOf(l, inter, short)
  PROVE  /\ c.taxable \in Nat /\ c.cgst \in Nat /\ c.sgst \in Nat /\ c.igst \in Nat /\ c.total \in Nat
         /\ c.cgst = 0 => c.sgst = 0
         /\ c.cgst <= c.sgst + 1 /\ c.sgst <= c.cgst + 1
         /\ c.total = PartsOf(c) /\ IF inter THEN c.cgst = 0 ELSE c.igst = 0
         /\ PartsOf(c) \in Nat /\ Exact(l) \in Nat
         /\ -178000 <= 100000 * PartsOf(c) - Exact(l) /\ 100000 * PartsOf(c) - Exact(l) <= 178000
<1>1. l.qty \in Nat /\ l.rate \in Nat /\ l.disc \in 0..100 /\ l.gst \in Nat /\ l.gst <= 28
  <2>1. l.gst \in Rates /\ \A g \in Rates : g \in Nat /\ g <= 28
    BY EntryAssumption, SMT DEF Entry!Line
  <2>. QED  BY <2>1, SMT DEF Entry!Line
<1>2. PICK x \in Nat : x = l.qty * l.rate
  BY <1>1, SMT
<1>3. PICK u \in 0..100 : u = 100 - l.disc
  BY <1>1, SMT
<1>4. PICK v \in 100..128 : v = 100 + l.gst
  BY <1>1, SMT
<1>5. PICK g \in Nat : g = Entry!Round(x, 10)
  BY RoundedUp, SMT
<1>6. PICK a \in Nat : a = g * l.disc
  BY <1>1, SMT
<1>7. a <= 100 * g /\ g * u = 100 * g - a
  BY <1>1, <1>3, <1>6, SMT
<1>8. PICK d \in Nat : d = Entry!Round(a, 100)
  BY RoundedUp, SMT
<1>9. d <= g
  <2>1. 100 * d - a <= 50
    BY <1>8, RoundedTo, SMT
  <2>. QED  BY <1>7, <2>1, SMT
<1>10. PICK t \in Nat : t = g - d
  BY <1>9, SMT
<1>11. PICK b \in Nat : b = t * l.gst
  BY <1>1, SMT
<1>12. PICK tax \in Nat : tax = Entry!Round(b, 100)
  BY RoundedUp, SMT
<1>13. /\ c.taxable = t
       /\ c.cgst = IF inter THEN 0 ELSE Entry!CgstOf(tax, short)
       /\ c.sgst = IF inter THEN 0 ELSE tax - c.cgst
       /\ c.igst = IF inter THEN tax ELSE 0
       /\ c.total = t + tax /\ c.qty = l.qty /\ c.gst = l.gst
  BY <1>2, <1>5, <1>6, <1>8, <1>10, <1>11, <1>12, SMT DEF Entry!LineOf, Entry!QtyUnit
<1>14. /\ c.cgst \in Nat /\ c.sgst \in Nat /\ c.igst \in Nat /\ c.cgst + c.sgst + c.igst = tax
       /\ c.cgst = 0 => c.sgst = 0
       /\ c.cgst <= c.sgst + 1 /\ c.sgst <= c.cgst + 1
  <2>1. tax \in Nat /\ inter \in BOOLEAN /\ short \in BOOLEAN
    OBVIOUS
  <2>2. PICK cc : cc = c.cgst
    OBVIOUS
  <2>3. PICK ss : ss = c.sgst
    OBVIOUS
  <2>4. PICK ii : ii = c.igst
    OBVIOUS
  <2>5. /\ cc \in Nat /\ ss \in Nat /\ ii \in Nat /\ cc + ss + ii = tax
        /\ cc = 0 => ss = 0
        /\ cc <= ss + 1 /\ ss <= cc + 1
    <3>1. /\ cc = IF inter THEN 0 ELSE Entry!CgstOf(tax, short)
          /\ ss = IF inter THEN 0 ELSE tax - cc
          /\ ii = IF inter THEN tax ELSE 0
      BY <1>13, <2>2, <2>3, <2>4, Zenon
    <3>. QED  BY <2>1, <3>1, Halves, SMT
  <2>. QED  BY <2>2, <2>3, <2>4, <2>5, Zenon
<1>15. PartsOf(c) = t + tax
  BY <1>13, <1>14, SMT DEF PartsOf
<1>16. Exact(l) = x * u * v
  BY <1>2, <1>3, <1>4, SMT DEF Exact
<1>17. PICK e \in Int : e = 10 * g - x /\ -5 <= e /\ e <= 5
  BY <1>5, RoundedTo, SMT
<1>18. PICK f \in Int : f = 100 * d - a /\ -50 <= f /\ f <= 50
  BY <1>8, RoundedTo, SMT
<1>19. PICK h \in Int : h = 100 * tax - b /\ -50 <= h /\ h <= 50
  BY <1>12, RoundedTo, SMT
<1>20. 100 * t = g * u - f
  BY <1>7, <1>10, <1>18, SMT
<1>21. 100 * (t + tax) = t * v + h
  <2>1. t * v = 100 * t + b
    BY <1>1, <1>4, <1>11, SMT
  <2>. QED  BY <2>1, <1>19, SMT
<1>22. 1000 * (t * v) = 10 * (g * u * v) - 10 * (v * f)
  <2>1. PICK w \in Int : w = g * u
    BY SMT
  <2>2. 100 * t = w - f
    BY <1>20, <2>1, SMT
  <2>3. v * (100 * t) = v * w - v * f
    BY <2>2, SMT
  <2>4. v * (100 * t) = 100 * (t * v)
    BY SMT
  <2>5. v * w = g * u * v
    BY <2>1, SMT
  <2>. QED  BY <2>3, <2>4, <2>5, SMT
<1>23. 10 * (g * u * v) = x * u * v + (u * v) * e
  <2>1. 10 * g = x + e
    BY <1>17, SMT
  <2>2. (u * v) * (10 * g) = (u * v) * x + (u * v) * e
    BY <2>1, SMT
  <2>3. (u * v) * (10 * g) = 10 * (g * u * v) /\ (u * v) * x = x * u * v
    BY SMT
  <2>. QED  BY <2>2, <2>3, SMT
<1>24. 100000 * (t + tax) = x * u * v + (u * v) * e - 10 * (v * f) + 1000 * h
  <2>1. PICK p \in Int : p = t * v
    BY SMT
  <2>2. PICK r \in Int : r = g * u * v
    BY SMT
  <2>3. PICK o \in Int : o = x * u * v
    BY SMT
  <2>4. PICK w \in Int : w = v * f
    BY SMT
  <2>5. PICK z \in Int : z = (u * v) * e
    BY SMT
  <2>6. 100 * (t + tax) = p + h /\ 1000 * p = 10 * r - 10 * w /\ 10 * r = o + z
    BY <1>21, <1>22, <1>23, <2>1, <2>2, <2>3, <2>4, <2>5, SMT
  <2>7. 100000 * (t + tax) = o + z - 10 * w + 1000 * h
    BY <2>6, SMT
  <2>. QED  BY <2>3, <2>4, <2>5, <2>7, SMT
<1>25. u * v \in Nat /\ u * v <= 12800
  <2>1. v * u \in Int /\ v * u <= v * 100
    BY WithinTimes, SMT
  <2>. QED  BY <2>1, SMT
<1>26. PICK z \in Int : z = (u * v) * e /\ -64000 <= z /\ z <= 64000
  <2>1. PICK p \in Nat : p = u * v /\ p <= 12800
    BY <1>25, SMT
  <2>2. p * e \in Int /\ - (p * 5) <= p * e /\ p * e <= p * 5
    BY <1>17, WithinTimes, SMT
  <2>. QED  BY <2>1, <2>2, SMT
<1>27. PICK w \in Int : w = v * f /\ -6400 <= w /\ w <= 6400
  <2>1. v * f \in Int /\ - (v * 50) <= v * f /\ v * f <= v * 50
    BY <1>18, WithinTimes, SMT
  <2>. QED  BY <2>1, SMT
<1>28. PICK o \in Nat : o = x * u * v
  BY SMT
<1>29. PICK n \in Nat : n = t + tax
  BY SMT
<1>30. 100000 * n = o + z - 10 * w + 1000 * h
  BY <1>24, <1>26, <1>27, <1>28, <1>29, SMT
<1>31. -178000 <= 100000 * n - o /\ 100000 * n - o <= 178000
  BY <1>19, <1>26, <1>27, <1>30, SMT
<1>32. PartsOf(c) = n /\ Exact(l) = o
  BY <1>15, <1>16, <1>28, <1>29, SMT
<1>33. PartsOf(c) \in Nat /\ Exact(l) \in Nat
       /\ -178000 <= 100000 * PartsOf(c) - Exact(l) /\ 100000 * PartsOf(c) - Exact(l) <= 178000
  BY <1>31, <1>32, SMT
<1>34. c.taxable \in Nat /\ c.total \in Nat
  BY <1>13, SMT
<1>35. c.total = PartsOf(c)
  BY <1>13, <1>15, SMT
<1>36. IF inter THEN c.cgst = 0 ELSE c.igst = 0
  BY <1>13, SMT
<1>. QED  BY <1>14, <1>33, <1>34, <1>35, <1>36, SMT

(* ... so all its parts are amounts.                                         *)
LEMMA LineTyped ==
  ASSUME NEW l \in Entry!Line, NEW inter \in BOOLEAN, NEW short \in BOOLEAN, NEW c, c = Entry!LineOf(l, inter, short)
  PROVE  /\ c.taxable \in Nat /\ c.cgst \in Nat /\ c.sgst \in Nat /\ c.igst \in Nat /\ c.total \in Nat
         /\ c.cgst = 0 => c.sgst = 0
         /\ c.cgst <= c.sgst + 1 /\ c.sgst <= c.cgst + 1
BY LineComesTo, SMT

(* What the calculator makes of a line is what the print takes a saved line to be: its
   tax of one side of the border, and no SGST without CGST. *)
THEOREM LinesArePrintable ==
  ASSUME NEW l \in Entry!Line, NEW inter \in BOOLEAN, NEW short \in BOOLEAN
  PROVE  Paper!LineSaved(Entry!LineOf(l, inter, short), inter)
<1>1. PICK c : c = Entry!LineOf(l, inter, short)
  OBVIOUS
<1>2. /\ c.taxable \in Nat /\ c.cgst \in Nat /\ c.sgst \in Nat /\ c.igst \in Nat
      /\ c.total = c.taxable + c.cgst + c.sgst + c.igst
      /\ IF inter THEN c.cgst = 0 ELSE c.igst = 0
      /\ c.cgst = 0 => c.sgst = 0
  BY <1>1, LineComesTo, SMT DEF PartsOf
<1>. QED  BY <1>1, <1>2, Zenon DEF Paper!LineSaved

(* However the tax is halved, a line comes to the same.                      *)
LEMMA LineIsLine ==
  ASSUME NEW l \in Entry!Line, NEW inter \in BOOLEAN, NEW short \in BOOLEAN, NEW other \in BOOLEAN
  PROVE  PartsOf(Entry!LineOf(l, inter, short)) = PartsOf(Entry!LineOf(l, inter, other))
<1>1. l.qty \in Nat /\ l.rate \in Nat /\ l.disc \in 0..100
  BY SMT DEF Entry!Line
<1>2. l.gst \in Nat
  <2>1. l.gst \in Rates /\ \A g \in Rates : g \in Nat
    BY EntryAssumption, SMT DEF Entry!Line
  <2>. QED  BY <2>1, SMT
<1>3. PICK g : g = Entry!Round(l.qty * l.rate, Entry!QtyUnit)
  BY Zenon
<1>4. PICK t : t = g - Entry!Round(g * l.disc, 100)
  BY Zenon
<1>5. PICK tax : tax = Entry!Round(t * l.gst, 100)
  BY Zenon
<1>6. t \in Nat /\ tax \in Nat
  <2>1. Entry!LineOf(l, inter, short).taxable = t
    BY <1>3, <1>4, SMT DEF Entry!LineOf
  <2>2. t \in Nat
    BY <2>1, LineComesTo, SMT
  <2>. QED  BY <1>2, <1>5, <2>2, RoundedUp, SMT
<1>7. ASSUME NEW half \in BOOLEAN PROVE PartsOf(Entry!LineOf(l, inter, half)) = t + tax
  <2>1. PICK c : c = Entry!LineOf(l, inter, half)
    BY Zenon
  <2>2. /\ c.taxable = t
        /\ c.cgst = IF inter THEN 0 ELSE Entry!CgstOf(tax, half)
        /\ c.sgst = IF inter THEN 0 ELSE tax - c.cgst
        /\ c.igst = IF inter THEN tax ELSE 0
    BY <1>3, <1>4, <1>5, <2>1, SMT DEF Entry!LineOf
  <2>3. c.cgst \in Nat /\ c.sgst \in Nat /\ c.igst \in Nat /\ c.cgst + c.sgst + c.igst = tax
    BY <1>6, <2>2, Halves, SMT
  <2>. QED  BY <1>6, <2>1, <2>2, <2>3, SMT DEF PartsOf
<1>. QED  BY <1>7, SMT

(* The lines of a document as they are calculated, and the columns of its sums. *)
Calc(lines, inter, short) == [i \in DOMAIN lines |-> Entry!LineOf(lines[i], inter, short)]
Taxable(calc) == [i \in DOMAIN calc |-> calc[i].taxable]
Central(calc) == [i \in DOMAIN calc |-> calc[i].cgst]
States(calc) == [i \in DOMAIN calc |-> calc[i].sgst]
Integrated(calc) == [i \in DOMAIN calc |-> calc[i].igst]
Whole(calc) == [i \in DOMAIN calc |-> PartsOf(calc[i])]
Exactly(lines) == [i \in DOMAIN lines |-> Exact(lines[i])]

(* The sums of a document are those of its columns.                          *)
LEMMA SumsAre ==
  ASSUME NEW calc, NEW extra, NEW b, b = Entry!Calculated(calc, extra)
  PROVE  /\ b.taxable = SumFunctionOnSet(Taxable(calc), DOMAIN calc)
         /\ b.cgst = SumFunctionOnSet(Central(calc), DOMAIN calc)
         /\ b.sgst = SumFunctionOnSet(States(calc), DOMAIN calc)
         /\ b.igst = SumFunctionOnSet(Integrated(calc), DOMAIN calc)
         /\ b.extra = extra
         /\ b.total = 100 * Entry!Round(b.taxable + b.cgst + b.sgst + b.igst + extra, 100)
         /\ b.roundOff = b.total - (b.taxable + b.cgst + b.sgst + b.igst + extra)
<1>1. \A f, S : Entry!SumFunctionOnSet(f, S) = SumFunctionOnSet(f, S)
  BY EntrySum
<1>. QED  BY <1>1, SMT DEF Entry!Calculated, Entry!SumOver, Taxable, Central, States, Integrated, Entry!Rupee

(* ... and the form's is that of its exact lines.                             *)
LEMMA PreviewIs ==
  ASSUME NEW lines \in Seq(Entry!Line), NEW extra \in Nat
  PROVE  Entry!Preview(lines, extra)
           = 100 * Entry!Round(SumFunctionOnSet(Exactly(lines), DOMAIN lines) + extra * 100000, 10000000)
<1>1. [i \in DOMAIN lines |-> lines[i].qty * lines[i].rate * (100 - lines[i].disc) * (100 + lines[i].gst)] = Exactly(lines)
  BY SMT DEF Exactly, Exact
<1>2. extra * Entry!QtyUnit * 100 * 100 = extra * 100000
  BY SMT DEF Entry!QtyUnit
<1>3. Entry!QtyUnit * 100 * 100 * Entry!Rupee = 10000000
  BY SMT DEF Entry!QtyUnit, Entry!Rupee
<1>4. \A f, S : Entry!SumFunctionOnSet(f, S) = SumFunctionOnSet(f, S)
  BY EntrySum
<1>. QED  BY <1>1, <1>2, <1>3, <1>4, SMT DEF Entry!Preview, Entry!SumOver, Entry!Rupee

(* What is within half a rupee.                                              *)
LEMMA HalfRupee == ASSUME NEW o \in Int, -49 <= o, o <= 50 PROVE o \in -49..50
BY SMT

(* A document: its voucher has two equal sides, its total is in whole rupees, its
   round-off within half a rupee, and the halves of its tax a paisa a line apart. *)
AddsUp(b, n, extra) ==
  /\ b.taxable \in Nat /\ b.cgst \in Nat /\ b.sgst \in Nat /\ b.igst \in Nat /\ b.extra = extra
  /\ b.total \in Int /\ b.roundOff \in Int /\ b.roundOff \in -49..50 /\ b.total % Entry!Rupee = 0
  /\ b.total = b.taxable + b.cgst + b.sgst + b.igst + extra + b.roundOff
  /\ b.cgst = 0 => b.sgst = 0
  /\ b.cgst <= b.sgst + n /\ b.sgst <= b.cgst + n
LEMMA DocumentComesTo ==
  ASSUME NEW lines \in Seq(Entry!Line), NEW inter \in BOOLEAN, NEW short \in BOOLEAN, NEW extra \in Nat,
         NEW calc, calc = Calc(lines, inter, short), NEW b, b = Entry!Calculated(calc, extra)
  PROVE  /\ AddsUp(b, Len(lines), extra)
         /\ b.total = 100 * Entry!Round(SumFunctionOnSet(Whole(calc), DOMAIN lines) + extra, 100)
<1>1. DOMAIN lines = 1..Len(lines) /\ Len(lines) \in Nat /\ DOMAIN calc = DOMAIN lines
      /\ \A i \in DOMAIN lines : lines[i] \in Entry!Line
  BY SMT DEF Calc
<1>2. IsFiniteSet(DOMAIN lines) /\ Cardinality(DOMAIN lines) = Len(lines)
  <2>1. PICK n \in Nat : n = Len(lines)
    BY <1>1, Zenon
  <2>2. IsFiniteSet(1..n)
    BY FS_Interval, SMT
  <2>3. Cardinality(1..n) = IF 1 > n THEN 0 ELSE n - 1 + 1
    BY FS_Interval, SMT
  <2>4. Cardinality(1..n) = n
    BY <2>3, SMT
  <2>. QED  BY <1>1, <2>1, <2>2, <2>4, Zenon
<1>3. ASSUME NEW i \in DOMAIN lines
      PROVE  /\ calc[i].taxable \in Nat /\ calc[i].cgst \in Nat /\ calc[i].sgst \in Nat /\ calc[i].igst \in Nat
             /\ calc[i].cgst = 0 => calc[i].sgst = 0
             /\ calc[i].cgst <= calc[i].sgst + 1 /\ calc[i].sgst <= calc[i].cgst + 1
  <2>1. PICK l \in Entry!Line : l = lines[i]
    BY <1>1, SMT
  <2>2. PICK c : c = Entry!LineOf(l, inter, short)
    BY Zenon
  <2>3. calc[i] = c
    BY <2>1, <2>2, SMT DEF Calc
  <2>4. /\ c.taxable \in Nat /\ c.cgst \in Nat /\ c.sgst \in Nat /\ c.igst \in Nat
        /\ c.cgst = 0 => c.sgst = 0
        /\ c.cgst <= c.sgst + 1 /\ c.sgst <= c.cgst + 1
    BY <2>2, LineTyped
  <2>. QED  BY <2>3, <2>4, Zenon
<1>4. PICK D : D = DOMAIN lines /\ IsFiniteSet(D) /\ Cardinality(D) = Len(lines)
  BY <1>2, Zenon
<1>5. PICK t : t = Taxable(calc)
  BY Zenon
<1>6. PICK c : c = Central(calc)
  BY Zenon
<1>7. PICK s : s = States(calc)
  BY Zenon
<1>8. PICK i : i = Integrated(calc)
  BY Zenon
<1>9. PICK w : w = Whole(calc)
  BY Zenon
<1>10. \A x \in D : /\ t[x] \in Nat /\ c[x] \in Nat /\ s[x] \in Nat /\ i[x] \in Nat
                    /\ w[x] = t[x] + c[x] + s[x] + i[x]
                    /\ c[x] = 0 => s[x] = 0
                    /\ c[x] <= s[x] + 1 /\ s[x] <= c[x] + 1
  BY <1>1, <1>3, <1>4, <1>5, <1>6, <1>7, <1>8, <1>9, SMT
  DEF Taxable, Central, States, Integrated, Whole, PartsOf
<1>11. /\ SumFunctionOnSet(t, D) \in Nat /\ SumFunctionOnSet(c, D) \in Nat
       /\ SumFunctionOnSet(s, D) \in Nat /\ SumFunctionOnSet(i, D) \in Nat
       /\ \A x \in D : c[x] <= SumFunctionOnSet(c, D)
  BY <1>2, <1>4, <1>10, SumNat, SMT
<1>12. SumFunctionOnSet(w, D)
         = SumFunctionOnSet(t, D) + SumFunctionOnSet(c, D) + SumFunctionOnSet(s, D) + SumFunctionOnSet(i, D)
  <2>1. PICK p : p = [x \in D |-> t[x] + c[x]]
    BY Zenon
  <2>2. PICK q : q = [x \in D |-> p[x] + s[x]]
    BY Zenon
  <2>3. \A x \in D : p[x] \in Int /\ q[x] \in Int /\ p[x] = t[x] + c[x] /\ q[x] = p[x] + s[x] /\ w[x] = q[x] + i[x]
                     /\ t[x] \in Int /\ c[x] \in Int /\ s[x] \in Int /\ i[x] \in Int
    BY <1>10, <2>1, <2>2, SMT
  <2>4. SumFunctionOnSet(p, D) = SumFunctionOnSet(t, D) + SumFunctionOnSet(c, D)
    BY <1>4, <2>3, SumPlus
  <2>5. SumFunctionOnSet(q, D) = SumFunctionOnSet(p, D) + SumFunctionOnSet(s, D)
    BY <1>4, <2>3, SumPlus
  <2>6. SumFunctionOnSet(w, D) = SumFunctionOnSet(q, D) + SumFunctionOnSet(i, D)
    BY <1>4, <2>3, SumPlus
  <2>. QED  BY <2>4, <2>5, <2>6, SMT
<1>13. SumFunctionOnSet(c, D) = 0 => SumFunctionOnSet(s, D) = 0
  <2>. SUFFICES ASSUME SumFunctionOnSet(c, D) = 0 PROVE SumFunctionOnSet(s, D) = 0
    BY SMT
  <2>1. \A x \in D : s[x] = 0
    BY <1>10, <1>11, SMT
  <2>. QED  BY <1>2, <1>4, <2>1, SumZero, SMT
<1>14. /\ SumFunctionOnSet(c, D) <= SumFunctionOnSet(s, D) + Len(lines)
       /\ SumFunctionOnSet(s, D) <= SumFunctionOnSet(c, D) + Len(lines)
  <2>1. PICK d : d = [x \in D |-> c[x] - s[x]]
    BY Zenon
  <2>2. \A x \in D : /\ c[x] \in Int /\ s[x] \in Int /\ d[x] = c[x] - s[x]
                     /\ d[x] \in Int /\ -1 <= d[x] /\ d[x] <= 1
    BY <1>10, <2>1, SMT
  <2>3. SumFunctionOnSet(d, D) = SumFunctionOnSet(c, D) - SumFunctionOnSet(s, D)
    BY <1>4, <2>2, SumMinus
  <2>4. - (1 * Cardinality(D)) <= SumFunctionOnSet(d, D) /\ SumFunctionOnSet(d, D) <= 1 * Cardinality(D)
    <3>1. PICK k \in Nat : k = 1
      BY SMT
    <3>2. \A x \in D : d[x] \in Int /\ -k <= d[x] /\ d[x] <= k
      BY <2>2, <3>1, SMT
    <3>3. - (k * Cardinality(D)) <= SumFunctionOnSet(d, D) /\ SumFunctionOnSet(d, D) <= k * Cardinality(D)
      BY <1>4, <3>2, SumWithin, SMT
    <3>. QED  BY <3>1, <3>3, Zenon
  <2>. QED  BY <1>1, <1>2, <1>4, <1>11, <2>3, <2>4, SMT
<1>15. /\ b.taxable = SumFunctionOnSet(t, D) /\ b.cgst = SumFunctionOnSet(c, D)
       /\ b.sgst = SumFunctionOnSet(s, D) /\ b.igst = SumFunctionOnSet(i, D) /\ b.extra = extra
       /\ b.total = 100 * Entry!Round(b.taxable + b.cgst + b.sgst + b.igst + extra, 100)
       /\ b.roundOff = b.total - (b.taxable + b.cgst + b.sgst + b.igst + extra)
  <2>1. DOMAIN calc = D
    BY <1>1, <1>4, Zenon
  <2>2. /\ b.taxable = SumFunctionOnSet(Taxable(calc), DOMAIN calc)
        /\ b.cgst = SumFunctionOnSet(Central(calc), DOMAIN calc)
        /\ b.sgst = SumFunctionOnSet(States(calc), DOMAIN calc)
        /\ b.igst = SumFunctionOnSet(Integrated(calc), DOMAIN calc)
        /\ b.extra = extra
        /\ b.total = 100 * Entry!Round(b.taxable + b.cgst + b.sgst + b.igst + extra, 100)
        /\ b.roundOff = b.total - (b.taxable + b.cgst + b.sgst + b.igst + extra)
    BY SumsAre, SMT
  <2>. QED  BY <1>5, <1>6, <1>7, <1>8, <2>1, <2>2, SMT
<1>16. PICK e \in Nat : e = b.taxable + b.cgst + b.sgst + b.igst + extra
  BY <1>11, <1>15, SMT
<1>17. PICK r \in Int : r = Entry!Round(e, 100) /\ -49 <= 100 * r - e /\ 100 * r - e <= 50
  <2>1. e \in Int
    BY SMT
  <2>2. Entry!Round(e, 100) \in Int /\ -49 <= 100 * Entry!Round(e, 100) - e /\ 100 * Entry!Round(e, 100) - e <= 50
    BY <2>1, RoundedTo
  <2>. QED  BY <2>2, Zenon
<1>18. b.total = 100 * r /\ b.roundOff = 100 * r - e
  BY <1>15, <1>16, <1>17, SMT
<1>19. b.total % Entry!Rupee = 0
  BY <1>18, SMT DEF Entry!Rupee
<1>20. SumFunctionOnSet(Whole(calc), DOMAIN lines) + extra = e
  BY <1>4, <1>9, <1>11, <1>12, <1>15, <1>16, SMT
<1>21. b.total \in Int /\ b.roundOff \in Int /\ b.roundOff \in -49..50
       /\ b.total = b.taxable + b.cgst + b.sgst + b.igst + extra + b.roundOff
  <2>1. b.total \in Int /\ b.roundOff \in Int /\ -49 <= b.roundOff /\ b.roundOff <= 50
    BY <1>17, <1>18, SMT
  <2>2. b.roundOff = b.total - e
    BY <1>18, SMT
  <2>3. b.total = e + b.roundOff
    BY <2>1, <2>2, SMT
  <2>4. b.roundOff \in -49..50
    BY <2>1, HalfRupee
  <2>5. b.total = b.taxable + b.cgst + b.sgst + b.igst + extra + b.roundOff
    BY <1>16, <2>3, Zenon
  <2>. QED  BY <2>1, <2>4, <2>5, SMT
<1>22. b.total = 100 * Entry!Round(SumFunctionOnSet(Whole(calc), DOMAIN lines) + extra, 100)
  BY <1>17, <1>18, <1>20, SMT
<1>. QED  BY <1>11, <1>13, <1>14, <1>15, <1>19, <1>21, <1>22, SMT DEF AddsUp

(* Rounding steps by one as what is rounded grows by a unit at most.           *)
Near(e, q, k) == 100000 * e - q <= 10000000 * k /\ q - 100000 * e <= 10000000 * k
InRupees(q) == Entry!Round(q, 10000000)
LEMMA RoundsApart ==
  ASSUME NEW e \in Int, NEW q \in Int, NEW k \in Nat, Near(e, q, k)
  PROVE  /\ Entry!Round(e, 100) \in Int /\ InRupees(q) \in Int
         /\ -k <= Entry!Round(e, 100) - InRupees(q) /\ Entry!Round(e, 100) - InRupees(q) <= k
<1>0. 100000 * e - q <= 10000000 * k /\ q - 100000 * e <= 10000000 * k
  BY SMT DEF Near
<1>1. /\ Entry!Round(e, 100) \in Int /\ 2 * (100 * Entry!Round(e, 100)) <= 2 * e + 100
      /\ 2 * e + 100 < 2 * (100 * Entry!Round(e, 100)) + 2 * 100
  BY Rounded, SMT
<1>2. /\ Entry!Round(q, 10000000) \in Int /\ 2 * (10000000 * Entry!Round(q, 10000000)) <= 2 * q + 10000000
      /\ 2 * q + 10000000 < 2 * (10000000 * Entry!Round(q, 10000000)) + 2 * 10000000
  BY Rounded, SMT
<1>3. PICK r \in Int : r = Entry!Round(e, 100)
  BY <1>1, SMT
<1>4. PICK s \in Int : s = Entry!Round(q, 10000000)
  BY <1>2, SMT
<1>5. 200 * r <= 2 * e + 100 /\ 2 * e + 100 < 200 * r + 200
  BY <1>1, <1>3, SMT
<1>6. 20000000 * s <= 2 * q + 10000000 /\ 2 * q + 10000000 < 20000000 * s + 20000000
  BY <1>2, <1>4, SMT
<1>7. -k <= r - s /\ r - s <= k
  BY <1>0, <1>5, <1>6, SMT
<1>. QED  BY <1>3, <1>4, <1>7, SMT DEF InRupees

(* The total saved is the one the form showed, but for a rupee for every 56 lines
   begun: no line is rounded by more than 1.78 paise, at a rate of 28 percent. *)
StaysNear(b, was, off) ==
  /\ was \in Int /\ off \in Nat
  /\ \E n \in Int : b.total - was = 100 * n /\ -off <= n /\ n <= off
LEMMA ShownIsSaved ==
  ASSUME NEW lines \in Seq(Entry!Line), NEW inter \in BOOLEAN, NEW short \in BOOLEAN, NEW extra \in Nat,
         NEW calc, calc = Calc(lines, inter, short), NEW b, b = Entry!Calculated(calc, extra)
  PROVE  StaysNear(b, Entry!Preview(lines, extra), Entry!RupeesOff(Len(lines)))
<1>1. DOMAIN lines = 1..Len(lines) /\ Len(lines) \in Nat /\ DOMAIN calc = DOMAIN lines
      /\ \A i \in DOMAIN lines : lines[i] \in Entry!Line
  BY SMT DEF Calc
<1>2. IsFiniteSet(DOMAIN lines) /\ Cardinality(DOMAIN lines) = Len(lines)
  <2>1. PICK n \in Nat : n = Len(lines)
    BY <1>1, Zenon
  <2>2. IsFiniteSet(1..n)
    BY FS_Interval, SMT
  <2>3. Cardinality(1..n) = IF 1 > n THEN 0 ELSE n - 1 + 1
    BY FS_Interval, SMT
  <2>4. Cardinality(1..n) = n
    BY <2>3, SMT
  <2>. QED  BY <1>1, <2>1, <2>2, <2>4, Zenon
<1>3. PICK D : D = DOMAIN lines /\ IsFiniteSet(D) /\ Cardinality(D) = Len(lines)
  BY <1>2, Zenon
<1>4. PICK w : w = Whole(calc)
  BY Zenon
<1>5. PICK p : p = Exactly(lines)
  BY Zenon
<1>6. PICK k \in Int : k = 100000
  BY SMT
<1>7. PICK m \in Nat : m = 178000
  BY SMT
<1>8. PICK v : v = [x \in D |-> k * w[x]]
  BY Zenon
<1>9. PICK d : d = [x \in D |-> v[x] - p[x]]
  BY Zenon
<1>10. ASSUME NEW x \in D
       PROVE  /\ w[x] \in Int /\ p[x] \in Int /\ v[x] \in Int /\ d[x] \in Int
              /\ v[x] = k * w[x] /\ d[x] = v[x] - p[x] /\ -m <= d[x] /\ d[x] <= m
  <2>1. PICK l \in Entry!Line : l = lines[x]
    BY <1>1, <1>3, Zenon
  <2>2. PICK c : c = Entry!LineOf(l, inter, short)
    BY Zenon
  <2>3. w[x] = PartsOf(c) /\ p[x] = Exact(l)
    BY <1>1, <1>3, <1>4, <1>5, <2>1, <2>2, SMT DEF Whole, Exactly, Calc
  <2>4. /\ PartsOf(c) \in Nat /\ Exact(l) \in Nat
        /\ -178000 <= 100000 * PartsOf(c) - Exact(l) /\ 100000 * PartsOf(c) - Exact(l) <= 178000
    BY <2>2, LineComesTo, SMT
  <2>. QED  BY <1>6, <1>7, <1>8, <1>9, <2>3, <2>4, SMT
<1>11. SumFunctionOnSet(v, D) = k * SumFunctionOnSet(w, D)
  BY <1>3, <1>10, SumTimes
<1>12. SumFunctionOnSet(d, D) = SumFunctionOnSet(v, D) - SumFunctionOnSet(p, D)
  BY <1>3, <1>10, SumMinus
<1>13. - (m * Cardinality(D)) <= SumFunctionOnSet(d, D) /\ SumFunctionOnSet(d, D) <= m * Cardinality(D)
  BY <1>3, <1>10, SumWithin
<1>14. SumFunctionOnSet(w, D) \in Int /\ SumFunctionOnSet(p, D) \in Int
  BY <1>3, <1>10, SumInt
<1>15. PICK e \in Int : e = SumFunctionOnSet(w, D) + extra
  BY <1>14, SMT
<1>16. PICK q \in Int : q = SumFunctionOnSet(p, D) + extra * 100000
  BY <1>14, SMT
<1>17. PICK n \in Nat : n = Len(lines)
  BY <1>1, Zenon
<1>18. PICK o \in Nat : o = Entry!RupeesOff(n) /\ n <= 56 * o
  <2>1. Entry!RupeesOff(n) = (n + 55) \div 56
    BY Zenon DEF Entry!RupeesOff
  <2>2. Entry!RupeesOff(n) \in Nat /\ n <= 56 * Entry!RupeesOff(n)
    BY <2>1, SMT
  <2>. QED  BY <2>2, Zenon
<1>19. - (178000 * n) <= 100000 * e - q /\ 100000 * e - q <= 178000 * n
  <2>1. PICK a \in Int : a = SumFunctionOnSet(w, D)
    BY <1>14, Zenon
  <2>2. PICK g \in Int : g = SumFunctionOnSet(p, D)
    BY <1>14, Zenon
  <2>3. SumFunctionOnSet(d, D) = 100000 * a - g
    BY <1>6, <1>11, <1>12, <2>1, <2>2, SMT
  <2>4. m * Cardinality(D) = 178000 * n
    BY <1>3, <1>7, <1>17, SMT
  <2>5. - (178000 * n) <= 100000 * a - g /\ 100000 * a - g <= 178000 * n
    BY <1>13, <2>3, <2>4, SMT
  <2>6. e = a + extra /\ q = g + extra * 100000
    BY <1>15, <1>16, <2>1, <2>2
  <2>7. extra \in Nat
    OBVIOUS
  <2>. QED  BY <2>5, <2>6, <2>7, SMT
<1>20. Near(e, q, o)
  BY <1>18, <1>19, SMT DEF Near
<1>21. PICK r \in Int : r = Entry!Round(e, 100)
  <2>1. Entry!Round(e, 100) \in Int
    BY RoundedTo
  <2>. QED  BY <2>1, Zenon
<1>22. PICK s \in Int : s = InRupees(q)
  BY <1>20, RoundsApart
<1>23. -o <= r - s /\ r - s <= o
  <2>1. -o <= Entry!Round(e, 100) - InRupees(q) /\ Entry!Round(e, 100) - InRupees(q) <= o
    BY <1>20, RoundsApart
  <2>. QED  BY <1>21, <1>22, <2>1, SMT
<1>24. b.total = 100 * r
  <2>1. b.total = 100 * Entry!Round(SumFunctionOnSet(Whole(calc), DOMAIN lines) + extra, 100)
    BY DocumentComesTo
  <2>. QED  BY <1>3, <1>4, <1>15, <1>21, <2>1, SMT
<1>25. Entry!Preview(lines, extra) = 100 * s
  <2>1. Entry!Preview(lines, extra) = 100 * Entry!Round(SumFunctionOnSet(Exactly(lines), DOMAIN lines) + extra * 100000, 10000000)
    BY PreviewIs, SMT
  <2>. QED  BY <1>3, <1>5, <1>16, <1>22, <2>1, SMT DEF InRupees
<1>26. b.total - Entry!Preview(lines, extra) = 100 * (r - s)
  BY <1>24, <1>25, SMT
<1>27. r - s \in Int /\ Entry!Preview(lines, extra) \in Int
  BY <1>25, SMT
<1>. QED  BY <1>17, <1>18, <1>23, <1>26, <1>27, SMT DEF StaysNear

(* However the tax of two documents is halved, they come to the same.          *)
LEMMA HalvedAlike ==
  ASSUME NEW lines \in Seq(Entry!Line), NEW inter \in BOOLEAN, NEW short \in BOOLEAN, NEW other \in BOOLEAN,
         NEW extra \in Nat,
         NEW b, b = Entry!Calculated(Calc(lines, inter, short), extra),
         NEW c, c = Entry!Calculated(Calc(lines, inter, other), extra)
  PROVE  b.total = c.total
<1>1. PICK p : p = Calc(lines, inter, short)
  BY Zenon
<1>2. PICK q : q = Calc(lines, inter, other)
  BY Zenon
<1>3. /\ b.total = 100 * Entry!Round(SumFunctionOnSet(Whole(p), DOMAIN lines) + extra, 100)
      /\ c.total = 100 * Entry!Round(SumFunctionOnSet(Whole(q), DOMAIN lines) + extra, 100)
  BY <1>1, <1>2, DocumentComesTo
<1>4. Whole(p) = Whole(q)
  <2>1. \A i \in DOMAIN lines : lines[i] \in Entry!Line
    BY SMT
  <2>2. \A i \in DOMAIN lines : PartsOf(Entry!LineOf(lines[i], inter, short)) = PartsOf(Entry!LineOf(lines[i], inter, other))
    BY <2>1, LineIsLine, SMT
  <2>. QED  BY <1>1, <1>2, <2>2, SMT DEF Whole, Calc
<1>. QED  BY <1>3, <1>4, Zenon

-----------------------------------------------------------------------------
(* A voucher posts the document's total against its parts.                    *)
LEMMA VoucherBalances ==
  ASSUME NEW b, b.total \in Int, b.taxable \in Nat, b.cgst \in Nat, b.sgst \in Nat, b.igst \in Nat,
         b.extra \in Nat, b.roundOff \in Int,
         b.total = b.taxable + b.cgst + b.sgst + b.igst + b.extra + b.roundOff,
         b.cgst = 0 => b.sgst = 0
  PROVE  Entry!Balanced(Entry!SalesVoucher(b))
<1>1. PICK v : v = Entry!SalesVoucher(b)
  BY Zenon
<1>2. /\ DOMAIN v = {"party", "sales", "cgst", "sgst", "igst", "freight", "rounding"}
      /\ v["party"] = b.total /\ v["sales"] = - b.taxable /\ v["cgst"] = - b.cgst /\ v["sgst"] = - b.sgst
      /\ v["igst"] = - b.igst /\ v["freight"] = - b.extra /\ v["rounding"] = - b.roundOff
  BY <1>1, SMT DEF Entry!SalesVoucher
<1>3. SumFunctionOnSet(v, {}) = 0
  BY SumEmpty
<1>4. IsFiniteSet({}) /\ \A S, x : IsFiniteSet(S) => IsFiniteSet(S \cup {x})
  BY FS_EmptySet, FS_AddElement
<1>5. PICK A1 : A1 = {} \cup {"party"}
  BY Zenon
<1>6. PICK A2 : A2 = A1 \cup {"sales"}
  BY Zenon
<1>7. PICK A3 : A3 = A2 \cup {"cgst"}
  BY Zenon
<1>8. PICK A4 : A4 = A3 \cup {"sgst"}
  BY Zenon
<1>9. PICK A5 : A5 = A4 \cup {"igst"}
  BY Zenon
<1>10. PICK A6 : A6 = A5 \cup {"freight"}
  BY Zenon
<1>11. PICK A7 : A7 = A6 \cup {"rounding"}
  BY Zenon
<1>12. /\ IsFiniteSet(A1) /\ IsFiniteSet(A2) /\ IsFiniteSet(A3) /\ IsFiniteSet(A4) /\ IsFiniteSet(A5)
       /\ IsFiniteSet(A6)
  BY <1>4, <1>5, <1>6, <1>7, <1>8, <1>9, <1>10, Zenon
<1>13. A7 = DOMAIN v
  BY <1>2, <1>5, <1>6, <1>7, <1>8, <1>9, <1>10, <1>11, SMT
<1>14. /\ "sales" \notin A1 /\ "cgst" \notin A2 /\ "sgst" \notin A3 /\ "igst" \notin A4
       /\ "freight" \notin A5 /\ "rounding" \notin A6
  BY <1>5, <1>6, <1>7, <1>8, <1>9, <1>10, SMT
<1>15. \A k \in A7 : v[k] \in Int
  BY <1>2, <1>13, SMT
<1>16. /\ A1 \subseteq A7 /\ A2 \subseteq A7 /\ A3 \subseteq A7 /\ A4 \subseteq A7 /\ A5 \subseteq A7
       /\ A6 \subseteq A7
  BY <1>5, <1>6, <1>7, <1>8, <1>9, <1>10, <1>11, SMT
<1>17. ASSUME NEW S, NEW x, IsFiniteSet(S), x \notin S, S \cup {x} \subseteq A7
       PROVE  SumFunctionOnSet(v, S \cup {x}) = SumFunctionOnSet(v, S) + v[x]
  <2>1. \A y \in S \cup {x} : v[y] \in Int
    BY <1>15, <1>17, Zenon
  <2>. QED  BY <1>17, <2>1, SumAdd
<1>18. SumFunctionOnSet(v, A1) = SumFunctionOnSet(v, {}) + v["party"]
  BY <1>4, <1>5, <1>16, <1>17, Zenon
<1>19. SumFunctionOnSet(v, A2) = SumFunctionOnSet(v, A1) + v["sales"]
  BY <1>6, <1>12, <1>14, <1>16, <1>17, Zenon
<1>20. SumFunctionOnSet(v, A3) = SumFunctionOnSet(v, A2) + v["cgst"]
  BY <1>7, <1>12, <1>14, <1>16, <1>17, Zenon
<1>21. SumFunctionOnSet(v, A4) = SumFunctionOnSet(v, A3) + v["sgst"]
  BY <1>8, <1>12, <1>14, <1>16, <1>17, Zenon
<1>22. SumFunctionOnSet(v, A5) = SumFunctionOnSet(v, A4) + v["igst"]
  BY <1>9, <1>12, <1>14, <1>16, <1>17, Zenon
<1>23. SumFunctionOnSet(v, A6) = SumFunctionOnSet(v, A5) + v["freight"]
  BY <1>10, <1>12, <1>14, <1>16, <1>17, Zenon
<1>24. SumFunctionOnSet(v, A7) = SumFunctionOnSet(v, A6) + v["rounding"]
  BY <1>11, <1>12, <1>14, <1>17, Zenon
<1>25. SumFunctionOnSet(v, A7) = 0
  BY <1>2, <1>3, <1>18, <1>19, <1>20, <1>21, <1>22, <1>23, <1>24, SMT
<1>. QED  BY <1>1, <1>13, <1>25, EntrySum, Zenon DEF Entry!Balanced

-----------------------------------------------------------------------------
(* What is stored and what is on the screen.                                  *)
CalcRow == [qty : Nat, gst : Rates, taxable : Nat, cgst : Nat, sgst : Nat, igst : Nat, total : Nat]
SumsRow == [taxable : Nat, cgst : Nat, sgst : Nat, igst : Nat, extra : Nat, roundOff : Int, total : Int]
DocRow ==
  [kind : Entry!Kinds, lines : Seq(Entry!Line), calc : Seq(CalcRow), bill : SumsRow, extra : Nat, inter : BOOLEAN,
   paid : Nat, from : Nat, edited : BOOLEAN, shown : Int \cup {None}, asShown : BOOLEAN]
FormRow ==
  [at : {"open", "sent", "served", "paying"}, kind : Entry!Kinds, edit : Nat, seen : [Items -> Rates],
   lines : Seq(Entry!Line), extra : Nat, taxed : BOOLEAN, inter : BOOLEAN, cash : BOOLEAN, filled : BOOLEAN,
   saved : Nat, sends : Nat, ledger : BOOLEAN, error : {"none", "lost", "final", "empty"}]

(* A document comes to its lines, was shown as it is, and is paid as shown ...  *)
SoundDoc(x) ==
  /\ \E short \in BOOLEAN : x.calc = Calc(x.lines, x.inter, short)
  /\ x.bill = Entry!Calculated(x.calc, x.extra)
  /\ x.asShown => x.shown = Entry!Preview(x.lines, x.extra)
  /\ x.paid > 0 /\ x.asShown => x.paid = x.shown /\ x.paid <= x.bill.total

(* ... and, made of an estimate, has its lines.                               *)
CameFrom(D, d) ==
  /\ D[d].from < d
  /\ D[d].from # 0 /\ ~ D[d].edited => /\ D[d].lines = D[D[d].from].lines
                                       /\ D[d].inter = D[D[d].from].inter
                                       /\ D[d].extra = 0

(* A cash sale on its way to payment is unpaid, and the form still shows it.    *)
FormSound(f, D) ==
  /\ f.edit <= Len(D) /\ f.saved <= Len(D)
  /\ f.at = "paying" => f.edit = 0
  /\ f.at \in {"served", "paying"} /\ f.edit = 0 =>
       /\ f.saved # 0 /\ D[f.saved].paid = 0
       /\ D[f.saved].asShown => D[f.saved].shown = Entry!Shown(f)

SoundDocs(D) == \A d \in DOMAIN D : SoundDoc(D[d]) /\ CameFrom(D, d)

EntryInv ==
  /\ master \in [Items -> Rates]
  /\ docs \in Seq(DocRow) /\ SoundDocs(docs)
  /\ form # Entry!Closed => form \in FormRow /\ FormSound(form, docs)

(* A form shown is not a closed one.                                          *)
LEMMA FormShown == ASSUME EntryInv, form # Entry!Closed PROVE form \in FormRow /\ FormSound(form, docs)
BY Zenon DEF EntryInv
LEMMA NotClosed == ASSUME NEW f \in FormRow PROVE f # Entry!Closed
<1>1. f.at # "closed" /\ Entry!Closed.at = "closed"
  BY SMT DEF FormRow, Entry!Closed
<1>. QED  BY <1>1, Zenon

(* A line at another rate is a line.                                          *)
LEMMA LineRated ==
  ASSUME NEW l \in Entry!Line, NEW g \in Rates
  PROVE  [l EXCEPT !.gst = g] \in Entry!Line /\ [l EXCEPT !.gst = g].gst = g /\ l.gst \in Rates
BY SMT DEF Entry!Line
LEMMA LineSame == ASSUME NEW l \in Entry!Line PROVE [l EXCEPT !.gst = l.gst] = l
BY Zenon DEF Entry!Line

(* The lines shown: with the tax off they bear none.                          *)
ShownLines(f) == [i \in DOMAIN f.lines |-> [f.lines[i] EXCEPT !.gst = IF f.taxed THEN @ ELSE 0]]
LEMMA ShownTyped ==
  ASSUME NEW f \in FormRow
  PROVE  ShownLines(f) \in Seq(Entry!Line) /\ Entry!Shown(f) = Entry!Preview(ShownLines(f), f.extra) /\ Entry!Shown(f) \in Int
<1>1. f.lines \in Seq(Entry!Line) /\ f.extra \in Nat /\ f.taxed \in BOOLEAN
  BY SMT DEF FormRow
<1>2. DOMAIN f.lines = 1..Len(f.lines) /\ Len(f.lines) \in Nat /\ \A i \in DOMAIN f.lines : f.lines[i] \in Entry!Line
  BY <1>1, SMT
<1>3. \A l \in Entry!Line : [l EXCEPT !.gst = IF f.taxed THEN @ ELSE 0] \in Entry!Line
  <2>1. ASSUME NEW l \in Entry!Line PROVE [l EXCEPT !.gst = IF f.taxed THEN @ ELSE 0] \in Entry!Line
    <3>1. PICK g : g = IF f.taxed THEN l.gst ELSE 0
      BY Zenon
    <3>2. g \in Rates
      BY <3>1, LineRated, EntryAssumption, Zenon
    <3>3. [l EXCEPT !.gst = g] \in Entry!Line
      BY <3>2, LineRated
    <3>. QED  BY <3>1, <3>3, Zenon
  <2>. QED  BY <2>1, Zenon
<1>4. PICK s : s = ShownLines(f)
  BY Zenon
<1>5. s \in [1..Len(f.lines) -> Entry!Line]
  BY <1>2, <1>3, <1>4, SMT DEF ShownLines
<1>6. s \in Seq(Entry!Line)
  BY <1>2, <1>5, SMT
<1>7. Entry!Shown(f) = Entry!Preview(s, f.extra)
  BY <1>4, Zenon DEF Entry!Shown, ShownLines
<1>8. Entry!Preview(s, f.extra) \in Int
  <2>1. PICK e \in Nat : e = f.extra
    BY <1>1, Zenon
  <2>2. Entry!Preview(s, e) \in Int
    BY <1>6, ShownIsSaved, Zenon DEF StaysNear
  <2>. QED  BY <2>1, <2>2, Zenon
<1>. QED  BY <1>4, <1>6, <1>7, <1>8, Zenon

(* What the service makes of the lines sent; if no rate has changed, what was shown. *)
LEMMA ResolvedLines ==
  ASSUME EntryInv, NEW f \in FormRow,
         NEW lines, lines = [i \in DOMAIN f.lines |-> Entry!Resolved(f.lines[i], f.taxed)]
  PROVE  /\ lines \in Seq(Entry!Line)
         /\ ~ f.taxed \/ (\A i \in DOMAIN lines : lines[i].gst = f.lines[i].gst) => lines = ShownLines(f)
<1>1. f.lines \in Seq(Entry!Line) /\ f.taxed \in BOOLEAN
  BY SMT DEF FormRow
<1>2. DOMAIN f.lines = 1..Len(f.lines) /\ Len(f.lines) \in Nat /\ \A i \in DOMAIN f.lines : f.lines[i] \in Entry!Line
  BY <1>1, SMT
<1>3. DOMAIN lines = DOMAIN f.lines
  BY Zenon
<1>4. ASSUME NEW i \in DOMAIN f.lines
      PROVE  /\ lines[i] \in Entry!Line
             /\ ~ f.taxed \/ lines[i].gst = f.lines[i].gst => lines[i] = ShownLines(f)[i]
  <2>1. PICK l \in Entry!Line : l = f.lines[i]
    BY <1>2, Zenon
  <2>2. PICK g : g = IF ~ f.taxed THEN 0 ELSE IF l.item # None THEN master[l.item] ELSE l.gst
    BY Zenon
  <2>3. g \in Rates
    <3>1. master \in [Items -> Rates]
      BY Zenon DEF EntryInv
    <3>2. l.item # None => l.item \in Items
      BY SMT DEF Entry!Line
    <3>3. l.gst \in Rates /\ 0 \in Rates
      BY LineRated, EntryAssumption, Zenon
    <3>. QED  BY <2>2, <3>1, <3>2, <3>3, SMT
  <2>4. lines[i] = [l EXCEPT !.gst = g]
    BY <2>1, <2>2, Zenon DEF Entry!Resolved
  <2>5. [l EXCEPT !.gst = g] \in Entry!Line /\ [l EXCEPT !.gst = g].gst = g
    BY <2>3, LineRated
  <2>6. ShownLines(f)[i] = [l EXCEPT !.gst = IF f.taxed THEN l.gst ELSE 0]
    BY <2>1, Zenon DEF ShownLines
  <2>7. ~ f.taxed => g = 0
    BY <2>2, Zenon
  <2>8. lines[i].gst = g
    BY <2>4, <2>5, Zenon
  <2>. QED  BY <2>1, <2>4, <2>5, <2>6, <2>7, <2>8, Zenon
<1>5. lines \in [1..Len(f.lines) -> Entry!Line]
  <2>1. \A i \in 1..Len(f.lines) : lines[i] \in Entry!Line
    BY <1>2, <1>4, Zenon
  <2>2. lines = [i \in 1..Len(f.lines) |-> lines[i]]
    BY <1>2, <1>3, Zenon
  <2>. QED  BY <2>1, <2>2, Zenon
<1>6. lines \in Seq(Entry!Line)
  BY <1>2, <1>5, SMT
<1>7. ASSUME ~ f.taxed \/ \A i \in DOMAIN lines : lines[i].gst = f.lines[i].gst
      PROVE  lines = ShownLines(f)
  <2>1. \A i \in DOMAIN f.lines : lines[i] = ShownLines(f)[i]
    BY <1>3, <1>4, <1>7, Zenon
  <2>2. DOMAIN ShownLines(f) = DOMAIN f.lines
    BY Zenon DEF ShownLines
  <2>3. ShownLines(f) = [i \in DOMAIN f.lines |-> ShownLines(f)[i]]
    BY Zenon DEF ShownLines
  <2>4. lines = [i \in DOMAIN f.lines |-> lines[i]]
    BY <1>3, Zenon
  <2>. QED  BY <2>1, <2>3, <2>4, Zenon
<1>. QED  BY <1>6, <1>7, Zenon

(* What a document is calculated to.                                          *)
LEMMA CalcTyped ==
  ASSUME NEW lines \in Seq(Entry!Line), NEW inter \in BOOLEAN, NEW short \in BOOLEAN, NEW extra \in Nat,
         NEW calc, calc = Calc(lines, inter, short), NEW b, b = Entry!Calculated(calc, extra)
  PROVE  calc \in Seq(CalcRow) /\ b \in SumsRow
<1>1. DOMAIN lines = 1..Len(lines) /\ Len(lines) \in Nat /\ \A i \in DOMAIN lines : lines[i] \in Entry!Line
  BY SMT
<1>2. ASSUME NEW i \in DOMAIN lines PROVE calc[i] \in CalcRow
  <2>1. PICK l \in Entry!Line : l = lines[i]
    BY <1>1, Zenon
  <2>2. PICK c : c = Entry!LineOf(l, inter, short)
    BY Zenon
  <2>3. /\ c.taxable \in Nat /\ c.cgst \in Nat /\ c.sgst \in Nat /\ c.igst \in Nat /\ c.total \in Nat
        /\ c.cgst = 0 => c.sgst = 0
        /\ c.cgst <= c.sgst + 1 /\ c.sgst <= c.cgst + 1
    BY <2>2, LineTyped
  <2>4. l.qty \in Nat /\ l.gst \in Rates
    BY SMT DEF Entry!Line
  <2>5. c = [qty |-> l.qty, gst |-> l.gst, taxable |-> c.taxable, cgst |-> c.cgst, sgst |-> c.sgst,
             igst |-> c.igst, total |-> c.total]
    BY <2>2, SMT DEF Entry!LineOf
  <2>6. c \in CalcRow
    BY <2>3, <2>4, <2>5, SMT DEF CalcRow
  <2>. QED  BY <2>1, <2>2, <2>6, Zenon DEF Calc
<1>3. calc \in [1..Len(lines) -> CalcRow]
  BY <1>1, <1>2, SMT DEF Calc
<1>4. calc \in Seq(CalcRow)
  BY <1>1, <1>3, SMT
<1>5. AddsUp(b, Len(lines), extra)
  BY DocumentComesTo
<1>6. b = [taxable |-> b.taxable, cgst |-> b.cgst, sgst |-> b.sgst, igst |-> b.igst, extra |-> b.extra,
           roundOff |-> b.roundOff, total |-> b.total]
  BY SMT DEF Entry!Calculated
<1>7. b \in SumsRow
  BY <1>5, <1>6, SMT DEF AddsUp, SumsRow
<1>. QED  BY <1>4, <1>7, Zenon

(* A document as it is saved.                                                 *)
SavedAs(x, lines, extra, inter) ==
  /\ x \in DocRow /\ x.lines = lines /\ x.extra = extra /\ x.inter = inter
  /\ x.paid = 0 /\ x.from = 0 /\ x.edited = FALSE /\ x.asShown = FALSE
  /\ SoundDoc(x)
LEMMA SavedSound ==
  ASSUME NEW kind \in Entry!Kinds, NEW lines \in Seq(Entry!Line), NEW extra \in Nat, NEW inter \in BOOLEAN,
         NEW short \in BOOLEAN, NEW x, x = Entry!Saved(kind, lines, extra, inter, short)
  PROVE  SavedAs(x, lines, extra, inter)
<1>1. PICK c : c = Calc(lines, inter, short)
  BY Zenon
<1>2. PICK b : b = Entry!Calculated(c, extra)
  BY Zenon
<1>3. c \in Seq(CalcRow) /\ b \in SumsRow
  BY <1>1, <1>2, CalcTyped
<1>4. x = [kind |-> kind, lines |-> lines, calc |-> c, bill |-> b, extra |-> extra, inter |-> inter,
           paid |-> 0, from |-> 0, edited |-> FALSE, shown |-> None, asShown |-> FALSE]
  BY <1>1, <1>2, Zenon DEF Entry!Saved, Calc
<1>5. x \in DocRow
  BY <1>3, <1>4, SMT DEF DocRow
<1>6. /\ x.kind = kind /\ x.lines = lines /\ x.extra = extra /\ x.inter = inter /\ x.calc = c /\ x.bill = b
      /\ x.paid = 0 /\ x.from = 0 /\ x.edited = FALSE /\ x.asShown = FALSE
  BY <1>4, SMT
<1>7. SoundDoc(x)
  BY <1>1, <1>2, <1>6, SMT DEF SoundDoc
<1>. QED  BY <1>5, <1>6, <1>7, Zenon DEF SavedAs

(* No document is refused because its voucher does not balance.               *)
LEMMA SavedBalances ==
  ASSUME NEW x \in DocRow, SoundDoc(x)
  PROVE  /\ Entry!Balanced(Entry!SalesVoucher(x.bill)) /\ x.bill.total \in Int /\ x.bill.total % Entry!Rupee = 0
         /\ x.bill.roundOff \in -49..50
         /\ x.bill.cgst <= x.bill.sgst + Len(x.lines) /\ x.bill.sgst <= x.bill.cgst + Len(x.lines)
         /\ x.bill.extra = x.extra /\ DOMAIN x.calc = DOMAIN x.lines
<1>1. PICK lines \in Seq(Entry!Line) : lines = x.lines
  BY SMT DEF DocRow
<1>2. PICK inter \in BOOLEAN : inter = x.inter
  BY SMT DEF DocRow
<1>3. PICK extra \in Nat : extra = x.extra
  BY SMT DEF DocRow
<1>4. PICK short \in BOOLEAN : x.calc = Calc(lines, inter, short)
  BY <1>1, <1>2, Zenon DEF SoundDoc
<1>5. PICK calc : calc = Calc(lines, inter, short)
  BY Zenon
<1>6. PICK b : b = Entry!Calculated(calc, extra)
  BY Zenon
<1>7. x.bill = b /\ x.calc = calc
  BY <1>3, <1>4, <1>5, <1>6, Zenon DEF SoundDoc
<1>8. AddsUp(b, Len(lines), extra)
  BY <1>5, <1>6, DocumentComesTo
<1>9. Entry!Balanced(Entry!SalesVoucher(b))
  <2>1. /\ b.total \in Int /\ b.taxable \in Nat /\ b.cgst \in Nat /\ b.sgst \in Nat /\ b.igst \in Nat
        /\ b.extra \in Nat /\ b.roundOff \in Int
        /\ b.total = b.taxable + b.cgst + b.sgst + b.igst + b.extra + b.roundOff
        /\ b.cgst = 0 => b.sgst = 0
    BY <1>8, SMT DEF AddsUp
  <2>. QED  BY <2>1, VoucherBalances
<1>10. DOMAIN calc = DOMAIN lines
  BY <1>5, Zenon DEF Calc
<1>. QED  BY <1>1, <1>3, <1>7, <1>8, <1>9, <1>10, Zenon DEF AddsUp

(* The total of a document saved as it was shown, against the one that was shown. *)
LEMMA SavedNearShown ==
  ASSUME NEW x \in DocRow, SoundDoc(x), x.asShown
  PROVE  StaysNear(x.bill, x.shown, Entry!RupeesOff(Len(x.lines)))
<1>1. PICK lines \in Seq(Entry!Line) : lines = x.lines
  BY SMT DEF DocRow
<1>2. PICK inter \in BOOLEAN : inter = x.inter
  BY SMT DEF DocRow
<1>3. PICK extra \in Nat : extra = x.extra
  BY SMT DEF DocRow
<1>4. PICK short \in BOOLEAN : x.calc = Calc(lines, inter, short)
  BY <1>1, <1>2, Zenon DEF SoundDoc
<1>5. PICK calc : calc = Calc(lines, inter, short)
  BY Zenon
<1>6. PICK b : b = Entry!Calculated(calc, extra)
  BY Zenon
<1>7. x.bill = b /\ x.shown = Entry!Preview(lines, extra)
  BY <1>1, <1>3, <1>4, <1>5, <1>6, Zenon DEF SoundDoc
<1>8. StaysNear(b, Entry!Preview(lines, extra), Entry!RupeesOff(Len(lines)))
  BY <1>5, <1>6, ShownIsSaved
<1>. QED  BY <1>1, <1>7, <1>8, Zenon

-----------------------------------------------------------------------------
(* Nothing is saved and no form is open at first.                             *)
LEMMA EntryInit == Entry!Init => EntryInv
<1>. SUFFICES ASSUME Entry!Init PROVE EntryInv
  OBVIOUS
<1>1. docs \in Seq(DocRow) /\ DOMAIN docs = {} /\ master \in [Items -> Rates] /\ form = Entry!Closed
  BY SMT DEF Entry!Init
<1>. QED  BY <1>1, Zenon DEF EntryInv, SoundDocs

(* The same documents, and a form that is sound.                              *)
LEMMA EntryKept ==
  ASSUME EntryInv, UNCHANGED <<master, docs>>,
         form' # Entry!Closed => form' \in FormRow /\ FormSound(form', docs)
  PROVE  EntryInv'
<1>1. master' = master /\ docs' = docs
  BY Zenon
<1>2. form' # Entry!Closed => form' \in FormRow /\ FormSound(form', docs')
  BY <1>1, Zenon
<1>3. master' \in [Items -> Rates] /\ docs' \in Seq(DocRow) /\ SoundDocs(docs')
  BY <1>1, Zenon DEF EntryInv
<1>. QED  BY <1>2, <1>3, Zenon DEF EntryInv

(* A form just opened.                                                       *)
LEMMA BlankForm ==
  ASSUME EntryInv, NEW kind \in Entry!Kinds, NEW f, f = Entry!Blank(kind)
  PROVE  /\ f \in FormRow /\ f.at = "open" /\ f.edit = 0 /\ f.saved = 0
<1>1. master \in [Items -> Rates] /\ <<>> \in Seq(Entry!Line)
  BY SMT DEF EntryInv
<1>2. f = [at |-> "open", kind |-> kind, edit |-> 0, seen |-> master, lines |-> <<>>, extra |-> 0,
           taxed |-> TRUE, inter |-> FALSE, cash |-> FALSE, filled |-> FALSE, saved |-> 0, sends |-> 0,
           ledger |-> TRUE, error |-> "none"]
  BY Zenon DEF Entry!Blank
<1>. QED  BY <1>1, <1>2, SMT DEF FormRow

(* One of a form's fields changed.                                            *)
LEMMA FormSet ==
  ASSUME NEW f \in FormRow
  PROVE  /\ \A v \in {"open", "sent", "served", "paying"} : [f EXCEPT !.at = v] \in FormRow
         /\ \A v \in Nat : /\ [f EXCEPT !.edit = v] \in FormRow /\ [f EXCEPT !.saved = v] \in FormRow
                          /\ [f EXCEPT !.sends = v] \in FormRow /\ [f EXCEPT !.extra = v] \in FormRow
         /\ \A v \in Seq(Entry!Line) : [f EXCEPT !.lines = v] \in FormRow
         /\ \A v \in BOOLEAN : /\ [f EXCEPT !.taxed = v] \in FormRow /\ [f EXCEPT !.inter = v] \in FormRow
                              /\ [f EXCEPT !.cash = v] \in FormRow /\ [f EXCEPT !.filled = v] \in FormRow
                              /\ [f EXCEPT !.ledger = v] \in FormRow
         /\ \A v \in {"none", "lost", "final", "empty"} : [f EXCEPT !.error = v] \in FormRow
<1>1. ASSUME NEW v \in {"open", "sent", "served", "paying"} PROVE [f EXCEPT !.at = v] \in FormRow
  BY SMT DEF FormRow
<1>2. ASSUME NEW v \in Nat PROVE [f EXCEPT !.edit = v] \in FormRow
  BY SMT DEF FormRow
<1>3. ASSUME NEW v \in Nat PROVE [f EXCEPT !.saved = v] \in FormRow
  BY SMT DEF FormRow
<1>4. ASSUME NEW v \in Nat PROVE [f EXCEPT !.sends = v] \in FormRow
  BY SMT DEF FormRow
<1>5. ASSUME NEW v \in Nat PROVE [f EXCEPT !.extra = v] \in FormRow
  BY SMT DEF FormRow
<1>6. ASSUME NEW v \in Seq(Entry!Line) PROVE [f EXCEPT !.lines = v] \in FormRow
  BY SMT DEF FormRow
<1>7. ASSUME NEW v \in BOOLEAN PROVE [f EXCEPT !.taxed = v] \in FormRow
  BY SMT DEF FormRow
<1>8. ASSUME NEW v \in BOOLEAN PROVE [f EXCEPT !.inter = v] \in FormRow
  BY SMT DEF FormRow
<1>9. ASSUME NEW v \in BOOLEAN PROVE [f EXCEPT !.cash = v] \in FormRow
  BY SMT DEF FormRow
<1>10. ASSUME NEW v \in BOOLEAN PROVE [f EXCEPT !.filled = v] \in FormRow
  BY SMT DEF FormRow
<1>11. ASSUME NEW v \in BOOLEAN PROVE [f EXCEPT !.ledger = v] \in FormRow
  BY SMT DEF FormRow
<1>12. ASSUME NEW v \in {"none", "lost", "final", "empty"} PROVE [f EXCEPT !.error = v] \in FormRow
  BY SMT DEF FormRow
<1>. QED  BY <1>1, <1>2, <1>3, <1>4, <1>5, <1>6, <1>7, <1>8, <1>9, <1>10, <1>11, <1>12, Zenon

(* A form that waits for no payment is sound as soon as it is of these documents. *)
LEMMA QuietForm ==
  ASSUME NEW f \in FormRow, NEW D, f.edit <= Len(D), f.saved <= Len(D), f.at \in {"open", "sent"}
  PROVE  FormSound(f, D)
BY SMT DEF FormSound

LEMMA EntryOpen == ASSUME EntryInv, NEW kind \in Entry!Kinds, Entry!Open(kind) PROVE EntryInv'
<1>1. PICK ledger \in BOOLEAN : form' = [Entry!Blank(kind) EXCEPT !.ledger = ledger]
  BY Zenon DEF Entry!Open
<1>2. PICK b : b = Entry!Blank(kind)
  BY Zenon
<1>3. b \in FormRow /\ b.at = "open" /\ b.edit = 0 /\ b.saved = 0
  BY <1>2, BlankForm
<1>4. PICK f : f = [b EXCEPT !.ledger = ledger]
  BY Zenon
<1>5. f \in FormRow
  BY <1>3, <1>4, FormSet, Zenon
<1>6. f.at = "open" /\ f.edit = 0 /\ f.saved = 0
  BY <1>3, <1>4, SMT DEF FormRow
<1>7. 0 <= Len(docs)
  BY SMT DEF EntryInv
<1>8. FormSound(f, docs)
  BY <1>5, <1>6, <1>7, QuietForm, Zenon
<1>9. form' = f /\ UNCHANGED <<master, docs>>
  BY <1>1, <1>2, <1>4, Zenon DEF Entry!Open
<1>. QED  BY <1>5, <1>8, <1>9, EntryKept, Zenon

LEMMA EntryOpenEdit == ASSUME EntryInv, NEW d \in DOMAIN docs, Entry!OpenEdit(d) PROVE EntryInv'
<1>1. PICK doc : doc = docs[d]
  BY Zenon
<1>2. doc \in DocRow /\ d \in Nat /\ d <= Len(docs) /\ Len(docs) \in Nat
  BY <1>1, SMT DEF EntryInv
<1>3. PICK taxed : taxed = (doc.kind = "estimate" => \E i \in DOMAIN doc.lines : doc.lines[i].gst > 0)
  BY Zenon
<1>4. taxed \in BOOLEAN
  BY <1>3, Zenon
<1>5. doc.kind \in Entry!Kinds /\ doc.lines \in Seq(Entry!Line) /\ doc.extra \in Nat /\ doc.inter \in BOOLEAN
  BY <1>2, SMT DEF DocRow
<1>6. PICK b : b = Entry!Blank(doc.kind)
  BY Zenon
<1>7. b \in FormRow /\ b.at = "open" /\ b.saved = 0
  BY <1>5, <1>6, BlankForm
<1>8. PICK f1 : f1 = [b EXCEPT !.edit = d]
  BY Zenon
<1>9. f1 \in FormRow
  BY <1>2, <1>7, <1>8, FormSet, Zenon
<1>10. f1.at = "open" /\ f1.saved = 0 /\ f1.edit = d
  BY <1>2, <1>7, <1>8, SMT DEF FormRow
<1>11. PICK f2 : f2 = [f1 EXCEPT !.lines = doc.lines]
  BY Zenon
<1>12. f2 \in FormRow
  BY <1>5, <1>9, <1>11, FormSet, Zenon
<1>13. f2.at = "open" /\ f2.saved = 0 /\ f2.edit = d
  BY <1>9, <1>10, <1>11, SMT DEF FormRow
<1>14. PICK f3 : f3 = [f2 EXCEPT !.extra = doc.extra]
  BY Zenon
<1>15. f3 \in FormRow
  BY <1>5, <1>12, <1>14, FormSet, Zenon
<1>16. f3.at = "open" /\ f3.saved = 0 /\ f3.edit = d
  BY <1>12, <1>13, <1>14, SMT DEF FormRow
<1>17. PICK f4 : f4 = [f3 EXCEPT !.taxed = taxed]
  BY Zenon
<1>18. f4 \in FormRow
  BY <1>4, <1>15, <1>17, FormSet, Zenon
<1>19. f4.at = "open" /\ f4.saved = 0 /\ f4.edit = d
  BY <1>15, <1>16, <1>17, SMT DEF FormRow
<1>20. PICK f : f = [f4 EXCEPT !.inter = doc.inter]
  BY Zenon
<1>21. f \in FormRow
  BY <1>5, <1>18, <1>20, FormSet, Zenon
<1>22. f.at = "open" /\ f.saved = 0 /\ f.edit = d
  BY <1>18, <1>19, <1>20, SMT DEF FormRow
<1>23. f.saved <= Len(docs) /\ f.edit <= Len(docs)
  BY <1>2, <1>22, SMT
<1>24. FormSound(f, docs)
  BY <1>21, <1>22, <1>23, QuietForm, Zenon
<1>25. form' = f /\ UNCHANGED <<master, docs>>
  BY <1>1, <1>3, <1>6, <1>8, <1>11, <1>14, <1>17, <1>20, Zenon DEF Entry!OpenEdit
<1>. QED  BY <1>21, <1>24, <1>25, EntryKept, Zenon

LEMMA EntryFill ==
  ASSUME EntryInv, NEW entered \in Drafts, NEW taxed \in BOOLEAN, NEW cash \in BOOLEAN,
         Entry!Fill(entered, taxed, cash)
  PROVE  EntryInv'
<1>1. entered.lines \in Seq(Entry!Line) /\ entered.extra \in Nat /\ entered.inter \in BOOLEAN
  <2>1. entered \in [lines : Seq(Entry!Line), extra : Nat, inter : BOOLEAN]
    BY EntryAssumption, Zenon
  <2>. QED  BY <2>1, SMT
<1>2. PICK f0 : f0 = form
  BY Zenon
<1>3. f0 \in FormRow /\ FormSound(f0, docs) /\ f0.at = "open"
  BY <1>2, FormShown, Zenon DEF Entry!Fill
<1>4. PICK f1 : f1 = [f0 EXCEPT !.lines = entered.lines]
  BY Zenon
<1>5. f1 \in FormRow
  BY <1>1, <1>3, <1>4, FormSet, Zenon
<1>6. f1.at = "open" /\ f1.saved = f0.saved /\ f1.edit = f0.edit
  BY <1>3, <1>4, SMT DEF FormRow
<1>7. PICK f2 : f2 = [f1 EXCEPT !.extra = entered.extra]
  BY Zenon
<1>8. f2 \in FormRow
  BY <1>1, <1>5, <1>7, FormSet, Zenon
<1>9. f2.at = "open" /\ f2.saved = f0.saved /\ f2.edit = f0.edit
  BY <1>5, <1>6, <1>7, SMT DEF FormRow
<1>10. PICK f3 : f3 = [f2 EXCEPT !.inter = entered.inter]
  BY Zenon
<1>11. f3 \in FormRow
  BY <1>1, <1>8, <1>10, FormSet, Zenon
<1>12. f3.at = "open" /\ f3.saved = f0.saved /\ f3.edit = f0.edit
  BY <1>8, <1>9, <1>10, SMT DEF FormRow
<1>13. PICK f4 : f4 = [f3 EXCEPT !.taxed = taxed]
  BY Zenon
<1>14. f4 \in FormRow
  BY <1>11, <1>13, FormSet, Zenon
<1>15. f4.at = "open" /\ f4.saved = f0.saved /\ f4.edit = f0.edit
  BY <1>11, <1>12, <1>13, SMT DEF FormRow
<1>16. PICK f5 : f5 = [f4 EXCEPT !.cash = cash]
  BY Zenon
<1>17. f5 \in FormRow
  BY <1>14, <1>16, FormSet, Zenon
<1>18. f5.at = "open" /\ f5.saved = f0.saved /\ f5.edit = f0.edit
  BY <1>14, <1>15, <1>16, SMT DEF FormRow
<1>19. PICK f : f = [f5 EXCEPT !.filled = TRUE]
  BY Zenon
<1>20. f \in FormRow
  BY <1>17, <1>19, FormSet, Zenon
<1>21. f.at = "open" /\ f.saved = f0.saved /\ f.edit = f0.edit
  BY <1>17, <1>18, <1>19, SMT DEF FormRow
<1>22. f.saved <= Len(docs) /\ f.edit <= Len(docs)
  BY <1>3, <1>21, Zenon DEF FormSound
<1>23. FormSound(f, docs)
  BY <1>20, <1>21, <1>22, QuietForm, Zenon
<1>24. form' = f /\ UNCHANGED <<master, docs>>
  BY <1>2, <1>4, <1>7, <1>10, <1>13, <1>16, <1>19, Zenon DEF Entry!Fill
<1>. QED  BY <1>20, <1>23, <1>24, EntryKept, Zenon

LEMMA EntrySubmit == ASSUME EntryInv, Entry!Submit PROVE EntryInv'
<1>1. PICK f0 : f0 = form
  BY Zenon
<1>2. f0 \in FormRow /\ FormSound(f0, docs)
  BY <1>1, FormShown, Zenon DEF Entry!Submit
<1>3. PICK f1 : f1 = [f0 EXCEPT !.at = "sent"]
  BY Zenon
<1>4. f1 \in FormRow
  BY <1>2, <1>3, FormSet, Zenon
<1>5. f1.at = "sent" /\ f1.saved = f0.saved /\ f1.edit = f0.edit /\ f1.sends = f0.sends /\ f0.sends + 1 \in Nat
  BY <1>2, <1>3, SMT DEF FormRow
<1>6. PICK f : f = [f1 EXCEPT !.sends = f0.sends + 1]
  BY Zenon
<1>7. f \in FormRow
  BY <1>4, <1>5, <1>6, FormSet, Zenon
<1>8. f.at = "sent" /\ f.saved = f0.saved /\ f.edit = f0.edit
  BY <1>4, <1>5, <1>6, SMT DEF FormRow
<1>9. FormSound(f, docs)
  BY <1>2, <1>7, <1>8, QuietForm, Zenon DEF FormSound
<1>10. form' = f /\ UNCHANGED <<master, docs>>
  BY <1>1, <1>2, <1>3, <1>6, SMT DEF Entry!Submit, FormRow
<1>. QED  BY <1>7, <1>9, <1>10, EntryKept, Zenon

(* A request lost, a form left, and an answer that came.                       *)
LEMMA EntryFail == ASSUME EntryInv, Entry!Fail PROVE EntryInv'
<1>1. PICK f0 : f0 = form
  BY Zenon
<1>2. f0 \in FormRow /\ FormSound(f0, docs)
  BY <1>1, FormShown, Zenon DEF Entry!Fail
<1>3. PICK f1 : f1 = [f0 EXCEPT !.at = "open"]
  BY Zenon
<1>4. f1 \in FormRow
  BY <1>2, <1>3, FormSet, Zenon
<1>5. f1.at = "open" /\ f1.saved = f0.saved /\ f1.edit = f0.edit
  BY <1>2, <1>3, SMT DEF FormRow
<1>6. PICK f : f = [f1 EXCEPT !.error = "lost"]
  BY Zenon
<1>7. f \in FormRow
  BY <1>4, <1>6, FormSet, Zenon
<1>8. f.at = "open" /\ f.saved = f0.saved /\ f.edit = f0.edit
  BY <1>4, <1>5, <1>6, SMT DEF FormRow
<1>9. FormSound(f, docs)
  BY <1>2, <1>7, <1>8, QuietForm, Zenon DEF FormSound
<1>10. form' = f /\ UNCHANGED <<master, docs>>
  BY <1>1, <1>3, <1>6, Zenon DEF Entry!Fail
<1>. QED  BY <1>7, <1>9, <1>10, EntryKept, Zenon

LEMMA EntryLeave == ASSUME EntryInv, Entry!Leave \/ Entry!LoseCash PROVE EntryInv'
<1>1. form' = Entry!Closed /\ UNCHANGED <<master, docs>>
  BY Zenon DEF Entry!Leave, Entry!LoseCash
<1>. QED  BY <1>1, EntryKept, Zenon

LEMMA EntryAnswer == ASSUME EntryInv, Entry!Answer PROVE EntryInv'
<1>1. PICK f0 : f0 = form
  BY Zenon
<1>2. f0 \in FormRow /\ FormSound(f0, docs) /\ f0.at = "served"
  BY <1>1, FormShown, Zenon DEF Entry!Answer
<1>3. PICK f : f = [f0 EXCEPT !.at = "paying"]
  BY Zenon
<1>4. f \in FormRow
  BY <1>2, <1>3, FormSet, Zenon
<1>5. f.at = "paying" /\ f.saved = f0.saved /\ f.edit = f0.edit /\ f.lines = f0.lines
      /\ f.taxed = f0.taxed /\ f.extra = f0.extra
  BY <1>2, <1>3, SMT DEF FormRow
<1>6. Entry!Shown(f) = Entry!Shown(f0)
  BY <1>5, Zenon DEF Entry!Shown
<1>7. f0.edit = 0 => FormSound(f, docs)
  BY <1>2, <1>5, <1>6, SMT DEF FormSound
<1>8. form' = (IF f0.cash /\ f0.edit = 0 /\ f0.ledger THEN f ELSE Entry!Closed) /\ UNCHANGED <<master, docs>>
  BY <1>1, <1>3, Zenon DEF Entry!Answer
<1>. QED  BY <1>4, <1>7, <1>8, EntryKept, Zenon

(* An item that changes its rate changes no document.                          *)
LEMMA EntryItemChanges ==
  ASSUME EntryInv, NEW i \in Items, NEW g \in Rates, Entry!ItemChanges(i, g)
  PROVE  EntryInv'
<1>1. master' \in [Items -> Rates] /\ docs' = docs /\ form' = form
  BY SMT DEF Entry!ItemChanges, EntryInv
<1>. QED  BY <1>1, Zenon DEF EntryInv

(* A document, with one of its fields changed.                                 *)
Alike(x, y) ==
  x.lines = y.lines /\ x.calc = y.calc /\ x.bill = y.bill /\ x.extra = y.extra /\ x.inter = y.inter
LEMMA DocPaid ==
  ASSUME NEW y \in DocRow, NEW v \in Nat, NEW x, x = [y EXCEPT !.paid = v]
  PROVE  /\ x \in DocRow /\ Alike(x, y) /\ x.paid = v
         /\ x.from = y.from /\ x.edited = y.edited /\ x.shown = y.shown /\ x.asShown = y.asShown
BY SMT DEF DocRow, Alike
LEMMA DocMade ==
  ASSUME NEW y \in DocRow, NEW v \in Nat, NEW x, x = [y EXCEPT !.from = v]
  PROVE  /\ x \in DocRow /\ Alike(x, y) /\ x.from = v
         /\ x.paid = y.paid /\ x.edited = y.edited /\ x.shown = y.shown /\ x.asShown = y.asShown
BY SMT DEF DocRow, Alike
LEMMA DocEdited ==
  ASSUME NEW y \in DocRow, NEW v \in BOOLEAN, NEW x, x = [y EXCEPT !.edited = v]
  PROVE  /\ x \in DocRow /\ Alike(x, y) /\ x.edited = v
         /\ x.paid = y.paid /\ x.from = y.from /\ x.shown = y.shown /\ x.asShown = y.asShown
BY SMT DEF DocRow, Alike
LEMMA DocShown ==
  ASSUME NEW y \in DocRow, NEW v \in Int, NEW x, x = [y EXCEPT !.shown = v]
  PROVE  /\ x \in DocRow /\ Alike(x, y) /\ x.shown = v
         /\ x.paid = y.paid /\ x.from = y.from /\ x.edited = y.edited /\ x.asShown = y.asShown
BY SMT DEF DocRow, Alike
LEMMA DocAsShown ==
  ASSUME NEW y \in DocRow, NEW v \in BOOLEAN, NEW x, x = [y EXCEPT !.asShown = v]
  PROVE  /\ x \in DocRow /\ Alike(x, y) /\ x.asShown = v
         /\ x.paid = y.paid /\ x.from = y.from /\ x.edited = y.edited /\ x.shown = y.shown
BY SMT DEF DocRow, Alike

(* A document added, of its own or of an estimate.                             *)
LEMMA DocsAdded ==
  ASSUME NEW D \in Seq(DocRow), SoundDocs(D), NEW x \in DocRow, SoundDoc(x), NEW E, E = Append(D, x),
         x.from # 0 => /\ x.from \in DOMAIN D /\ x.lines = D[x.from].lines /\ x.inter = D[x.from].inter
                       /\ x.extra = 0
  PROVE  /\ E \in Seq(DocRow) /\ SoundDocs(E) /\ Len(E) = Len(D) + 1 /\ E[Len(D) + 1] = x
         /\ \A f \in FormRow : FormSound(f, D) => FormSound(f, E)
<1>1. /\ E \in Seq(DocRow) /\ Len(D) \in Nat /\ Len(E) = Len(D) + 1 /\ E[Len(D) + 1] = x
      /\ DOMAIN D = 1..Len(D) /\ DOMAIN E = 1..(Len(D) + 1)
      /\ \A d \in DOMAIN D : E[d] = D[d]
  BY SMT
<1>2. ASSUME NEW d \in DOMAIN D PROVE SoundDoc(E[d]) /\ CameFrom(E, d)
  <2>1. SoundDoc(D[d]) /\ CameFrom(D, d) /\ E[d] = D[d] /\ D[d] \in DocRow
    BY <1>1, SMT DEF SoundDocs
  <2>2. D[d].from \in Nat
    BY <2>1, SMT DEF DocRow
  <2>3. D[d].from # 0 => D[d].from \in DOMAIN D
    BY <1>1, <2>1, <2>2, SMT DEF CameFrom
  <2>4. D[d].from # 0 => E[D[d].from] = D[D[d].from]
    BY <1>1, <2>3, Zenon
  <2>. QED  BY <2>1, <2>4, Zenon DEF CameFrom
<1>3. SoundDoc(E[Len(D) + 1]) /\ CameFrom(E, Len(D) + 1)
  <2>1. x.from \in Nat
    BY SMT DEF DocRow
  <2>2. x.from # 0 => E[x.from] = D[x.from]
    BY <1>1, SMT
  <2>3. x.from < Len(D) + 1
    BY <1>1, <2>1, SMT
  <2>. QED  BY <1>1, <2>2, <2>3, SMT DEF CameFrom
<1>4. SoundDocs(E)
  <2>1. \A d \in DOMAIN E : d \in DOMAIN D \/ d = Len(D) + 1
    BY <1>1, SMT
  <2>. QED  BY <1>2, <1>3, <2>1, Zenon DEF SoundDocs
<1>5. ASSUME NEW f \in FormRow, FormSound(f, D) PROVE FormSound(f, E)
  <2>1. f.saved \in Nat /\ f.edit \in Nat
    BY SMT DEF FormRow
  <2>2. f.saved <= Len(D) /\ f.edit <= Len(D)
    BY <1>5, Zenon DEF FormSound
  <2>3. f.saved # 0 => E[f.saved] = D[f.saved]
    BY <1>1, <2>1, <2>2, SMT
  <2>4. f.edit <= Len(E) /\ f.saved <= Len(E)
    BY <1>1, <2>1, <2>2, SMT
  <2>. QED  BY <1>5, <2>3, <2>4, Zenon DEF FormSound
<1>. QED  BY <1>1, <1>4, <1>5, Zenon

(* A document changed: edited, which nothing has been made of, or paid.           *)
LEMMA DocsChanged ==
  ASSUME NEW D \in Seq(DocRow), SoundDocs(D), NEW d \in DOMAIN D, NEW x \in DocRow, SoundDoc(x),
         NEW E, E = [D EXCEPT ![d] = x], x.from = D[d].from,
         \/ x.edited /\ \A e \in DOMAIN D : D[e].from # d
         \/ x.edited = D[d].edited /\ x.lines = D[d].lines /\ x.inter = D[d].inter /\ x.extra = D[d].extra
  PROVE  E \in Seq(DocRow) /\ SoundDocs(E) /\ Len(E) = Len(D)
<1>1. /\ E \in Seq(DocRow) /\ Len(D) \in Nat /\ Len(E) = Len(D) /\ E[d] = x
      /\ DOMAIN D = 1..Len(D) /\ DOMAIN E = DOMAIN D
      /\ \A e \in DOMAIN D : e # d => E[e] = D[e]
  BY SMT
<1>2. ASSUME NEW e \in DOMAIN D PROVE SoundDoc(E[e]) /\ CameFrom(E, e)
  <2>1. SoundDoc(D[e]) /\ CameFrom(D, e) /\ D[e] \in DocRow
    BY <1>1, SMT DEF SoundDocs
  <2>2. D[e].from \in Nat
    BY <2>1, SMT DEF DocRow
  <2>3. D[e].from # 0 => D[e].from \in DOMAIN D
    BY <1>1, <2>1, <2>2, SMT DEF CameFrom
  <2>4. E[e].from = D[e].from /\ SoundDoc(E[e])
    BY <1>1, <2>1, Zenon
  <2>5. CASE x.edited /\ \A g \in DOMAIN D : D[g].from # d
    <3>1. D[e].from # 0 => E[D[e].from] = D[D[e].from]
      BY <1>1, <2>3, <2>5, Zenon
    <3>2. CASE e = d
      BY <1>1, <2>1, <2>4, <2>5, <3>2, Zenon DEF CameFrom
    <3>3. CASE e # d
      BY <1>1, <2>1, <2>4, <3>1, <3>3, Zenon DEF CameFrom
    <3>. QED  BY <2>4, <3>2, <3>3, Zenon
  <2>6. CASE x.edited = D[d].edited /\ x.lines = D[d].lines /\ x.inter = D[d].inter /\ x.extra = D[d].extra
    <3>1. \A g \in DOMAIN D : /\ E[g].edited = D[g].edited /\ E[g].lines = D[g].lines
                              /\ E[g].inter = D[g].inter /\ E[g].extra = D[g].extra
      BY <1>1, <2>6, Zenon
    <3>2. D[e].from # 0 => /\ E[D[e].from].lines = D[D[e].from].lines
                           /\ E[D[e].from].inter = D[D[e].from].inter
      BY <2>3, <3>1, Zenon
    <3>3. E[e].edited = D[e].edited /\ E[e].lines = D[e].lines /\ E[e].inter = D[e].inter /\ E[e].extra = D[e].extra
      BY <3>1, Zenon
    <3>. QED  BY <2>1, <2>4, <3>2, <3>3, Zenon DEF CameFrom
  <2>. QED  BY <2>5, <2>6, Zenon
<1>. QED  BY <1>1, <1>2, Zenon DEF SoundDocs

(* An estimate becomes an invoice.                                             *)
LEMMA EntryConvert ==
  ASSUME EntryInv, NEW d \in DOMAIN docs, NEW short \in BOOLEAN, Entry!Convert(d, short)
  PROVE  EntryInv'
<1>1. PICK D : D = docs
  BY Zenon
<1>2. D \in Seq(DocRow) /\ SoundDocs(D) /\ d \in DOMAIN D
  BY <1>1, Zenon DEF EntryInv
<1>3. PICK e : e = D[d]
  BY Zenon
<1>4. e \in DocRow /\ d \in Nat /\ d # 0
  BY <1>2, <1>3, SMT
<1>5. e.lines \in Seq(Entry!Line) /\ e.inter \in BOOLEAN
  BY <1>4, SMT DEF DocRow
<1>6. PICK y : y = Entry!Saved("invoice", e.lines, 0, e.inter, short)
  BY Zenon
<1>7. SavedAs(y, e.lines, 0, e.inter)
  <2>1. PICK kind \in Entry!Kinds : kind = "invoice"
    BY Zenon DEF Entry!Kinds
  <2>2. PICK extra \in Nat : extra = 0
    BY SMT
  <2>3. y = Entry!Saved(kind, e.lines, extra, e.inter, short)
    BY <1>6, <2>1, <2>2, Zenon
  <2>4. SavedAs(y, e.lines, extra, e.inter)
    BY <1>5, <2>3, SavedSound
  <2>. QED  BY <2>2, <2>4, Zenon
<1>8. PICK x : x = [y EXCEPT !.from = d]
  BY Zenon
<1>9. /\ x \in DocRow /\ Alike(x, y) /\ x.from = d /\ x.paid = 0 /\ x.asShown = FALSE
      /\ x.lines = e.lines /\ x.inter = e.inter /\ x.extra = 0
  <2>1. y \in DocRow
    BY <1>7, Zenon DEF SavedAs
  <2>2. /\ x \in DocRow /\ Alike(x, y) /\ x.from = d
        /\ x.paid = y.paid /\ x.edited = y.edited /\ x.shown = y.shown /\ x.asShown = y.asShown
    BY <1>4, <1>8, <2>1, DocMade
  <2>. QED  BY <1>7, <2>2, Zenon DEF SavedAs, Alike
<1>10. SoundDoc(x)
  BY <1>7, <1>9, SMT DEF SoundDoc, SavedAs, Alike
<1>11. docs' = Append(D, x)
  BY <1>1, <1>3, <1>6, <1>8, Zenon DEF Entry!Convert
<1>12. PICK E : E = Append(D, x)
  BY Zenon
<1>13. /\ E \in Seq(DocRow) /\ SoundDocs(E) /\ \A f \in FormRow : FormSound(f, D) => FormSound(f, E)
  BY <1>2, <1>3, <1>9, <1>10, <1>12, DocsAdded
<1>14. docs' = E /\ form' = form /\ master' = master
  BY <1>11, <1>12, Zenon DEF Entry!Convert
<1>15. (form # Entry!Closed => form \in FormRow /\ FormSound(form, D)) /\ master \in [Items -> Rates]
  BY <1>1, Zenon DEF EntryInv
<1>16. form' # Entry!Closed => form' \in FormRow /\ FormSound(form', E)
  BY <1>13, <1>14, <1>15, Zenon
<1>. QED  BY <1>13, <1>14, <1>15, <1>16, Zenon DEF EntryInv

(* The cash of a sale is recorded, if it fits.                                  *)
LEMMA EntryPayCash == ASSUME EntryInv, Entry!PayCash PROVE EntryInv'
<1>1. PICK f : f = form
  BY Zenon
<1>2. f \in FormRow /\ FormSound(f, docs) /\ f.at = "paying"
  BY <1>1, FormShown, Zenon DEF Entry!PayCash
<1>3. PICK D : D = docs
  BY Zenon
<1>4. D \in Seq(DocRow) /\ SoundDocs(D)
  BY <1>3, Zenon DEF EntryInv
<1>5. /\ f.saved \in DOMAIN D /\ D[f.saved].paid = 0
      /\ D[f.saved].asShown => D[f.saved].shown = Entry!Shown(f)
  BY <1>2, <1>3, <1>4, SMT DEF FormSound, FormRow
<1>6. PICK n : n = f.saved
  BY Zenon
<1>7. PICK y : y = D[n]
  BY Zenon
<1>8. y \in DocRow /\ SoundDoc(y) /\ y.paid = 0 /\ (y.asShown => y.shown = Entry!Shown(f)) /\ n \in DOMAIN D
  BY <1>4, <1>5, <1>6, <1>7, SMT DEF SoundDocs
<1>9. PICK amount \in Int : amount = Entry!Shown(f)
  BY <1>2, ShownTyped, Zenon
<1>10. PICK x : x = [y EXCEPT !.paid = amount]
  BY Zenon
<1>11. CASE amount > 0 /\ amount <= y.bill.total - y.paid
  <2>1. amount \in Nat /\ amount > 0
    BY <1>11, SMT
  <2>2. y.bill.total \in Int
    BY <1>8, SavedBalances, Zenon
  <2>3. amount <= y.bill.total
    BY <1>8, <1>11, <2>2, SMT
  <2>4. /\ x \in DocRow /\ Alike(x, y) /\ x.paid = amount
        /\ x.from = y.from /\ x.edited = y.edited /\ x.shown = y.shown /\ x.asShown = y.asShown
    BY <1>8, <1>10, <2>1, DocPaid
  <2>5. SoundDoc(x)
    BY <1>8, <1>9, <2>3, <2>4, Zenon DEF SoundDoc, Alike
  <2>6. PICK E : E = [D EXCEPT ![n] = x]
    BY Zenon
  <2>7. E \in Seq(DocRow) /\ SoundDocs(E)
    BY <1>4, <1>7, <1>8, <2>4, <2>5, <2>6, DocsChanged DEF Alike
  <2>8. docs' = [D EXCEPT ![n].paid = @ + amount]
    BY <1>1, <1>3, <1>6, <1>7, <1>9, <1>11, Zenon DEF Entry!PayCash
  <2>9. y.paid + amount = amount
    BY <1>8, SMT
  <2>10. docs' = E
    BY <1>7, <1>10, <2>6, <2>8, <2>9, Zenon
  <2>. QED  BY <2>7, <2>10, Zenon DEF Entry!PayCash, EntryInv
<1>12. CASE ~ (amount > 0 /\ amount <= y.bill.total - y.paid)
  <2>1. docs' = docs
    BY <1>1, <1>3, <1>6, <1>7, <1>9, <1>12, Zenon DEF Entry!PayCash
  <2>. QED  BY <2>1, Zenon DEF Entry!PayCash, EntryInv
<1>. QED  BY <1>11, <1>12, Zenon

(* What was sent is saved, as a document of its own or in place of one that nothing
   has been paid on or made of; or it is refused. *)
LEMMA EntryServe == ASSUME EntryInv, NEW short \in BOOLEAN, Entry!Serve(short) PROVE EntryInv'
<1>1. PICK f : f = form
  BY Zenon
<1>2. f \in FormRow /\ FormSound(f, docs) /\ f.at = "sent"
  BY <1>1, FormShown, Zenon DEF Entry!Serve
<1>3. PICK D : D = docs
  BY Zenon
<1>4. D \in Seq(DocRow) /\ SoundDocs(D) /\ Len(D) \in Nat /\ DOMAIN D = 1..Len(D)
  BY <1>3, SMT DEF EntryInv
<1>5. /\ f.kind \in Entry!Kinds /\ f.edit \in Nat /\ f.lines \in Seq(Entry!Line) /\ f.extra \in Nat
      /\ f.taxed \in BOOLEAN /\ f.inter \in BOOLEAN /\ f.saved \in Nat
  BY <1>2, SMT DEF FormRow
<1>6. PICK lines : lines = [i \in DOMAIN f.lines |-> Entry!Resolved(f.lines[i], f.taxed)]
  BY Zenon
<1>7. PICK as : as = (~ f.taxed \/ \A i \in DOMAIN lines : lines[i].gst = f.lines[i].gst)
  BY Zenon
<1>8. lines \in Seq(Entry!Line) /\ (as => lines = ShownLines(f)) /\ as \in BOOLEAN
  <2>1. f \in FormRow
    BY <1>2
  <2>2. /\ lines \in Seq(Entry!Line)
        /\ ~ f.taxed \/ (\A i \in DOMAIN lines : lines[i].gst = f.lines[i].gst) => lines = ShownLines(f)
    BY <1>6, <2>1, ResolvedLines, Zenon
  <2>3. as => ~ f.taxed \/ \A i \in DOMAIN lines : lines[i].gst = f.lines[i].gst
    BY <1>7
  <2>4. as \in BOOLEAN
    BY <1>7
  <2>. QED  BY <2>2, <2>3, <2>4
<1>9. PICK y : y = Entry!Saved(f.kind, lines, f.extra, f.inter, short)
  BY Zenon
<1>10. SavedAs(y, lines, f.extra, f.inter) /\ y \in DocRow
  <2>1. SavedAs(y, lines, f.extra, f.inter)
    BY <1>5, <1>8, <1>9, SavedSound
  <2>. QED  BY <2>1, Zenon DEF SavedAs
<1>11. PICK came \in Int : came = Entry!Shown(f)
  BY <1>2, ShownTyped, Zenon
<1>12. PICK y1 : y1 = [y EXCEPT !.shown = came]
  BY Zenon
<1>13. PICK doc : doc = [y1 EXCEPT !.asShown = as]
  BY Zenon
<1>14. /\ y1 \in DocRow /\ Alike(y1, y) /\ y1.shown = came
       /\ y1.paid = y.paid /\ y1.from = y.from /\ y1.edited = y.edited /\ y1.asShown = y.asShown
  BY <1>10, <1>12, DocShown
<1>15. /\ doc \in DocRow /\ Alike(doc, y) /\ doc.asShown = as
       /\ doc.paid = 0 /\ doc.from = 0 /\ doc.edited = FALSE /\ doc.shown = came
  <2>1. /\ doc \in DocRow /\ Alike(doc, y1) /\ doc.asShown = as
        /\ doc.paid = y1.paid /\ doc.from = y1.from /\ doc.edited = y1.edited /\ doc.shown = y1.shown
    <3>1. y1 \in DocRow /\ as \in BOOLEAN
      BY <1>8, <1>14
    <3>. QED  BY <1>13, <3>1, DocAsShown, Zenon
  <2>. QED  BY <1>10, <1>14, <2>1, Zenon DEF Alike, SavedAs
<1>16. as => came = Entry!Preview(doc.lines, doc.extra)
  <2>1. doc.lines = lines /\ doc.extra = f.extra
    BY <1>10, <1>15, Zenon DEF Alike, SavedAs
  <2>2. came = Entry!Preview(ShownLines(f), f.extra)
    BY <1>2, <1>11, ShownTyped, Zenon
  <2>. QED  BY <1>8, <2>1, <2>2, Zenon
<1>17. SoundDoc(doc)
  <2>1. ~ doc.paid > 0
    BY <1>15, SMT
  <2>2. SoundDoc(y)
    BY <1>10, Zenon DEF SavedAs
  <2>3. /\ \E s \in BOOLEAN : doc.calc = Calc(doc.lines, doc.inter, s)
        /\ doc.bill = Entry!Calculated(doc.calc, doc.extra)
    BY <1>15, <2>2, Zenon DEF SoundDoc, Alike
  <2>. QED  BY <1>15, <1>16, <2>1, <2>3, Zenon DEF SoundDoc
<1>18. Entry!Balanced(Entry!SalesVoucher(doc.bill))
  BY <1>15, <1>17, SavedBalances, Zenon
<1>19. doc = [Entry!Saved(f.kind, lines, f.extra, f.inter, short) EXCEPT
                !.shown = Entry!Shown(f),
                !.asShown = ~ f.taxed \/ \A i \in DOMAIN lines : lines[i].gst = f.lines[i].gst]
  BY <1>7, <1>9, <1>11, <1>12, <1>13, Zenon
<1>. DEFINE Refused(e) == form' = [f EXCEPT !.at = "open", !.error = e] /\ docs' = D
            Saving == /\ docs' = IF f.edit = 0 THEN Append(D, doc)
                                 ELSE [D EXCEPT ![f.edit] = [doc EXCEPT !.from = D[f.edit].from, !.edited = TRUE]]
                      /\ form' = [f EXCEPT !.at = "served", !.saved = IF f.edit = 0 THEN Len(D) + 1 ELSE f.edit]
<1>20. /\ Refused("final") \/ Refused("empty") \/ ((f.edit # 0 => ~ Entry!Final(f.edit)) /\ Saving)
       /\ master' = master
  <2>1. PICK v : v = Entry!SalesVoucher(doc.bill)
    BY Zenon
  <2>2. Entry!Balanced(v)
    BY <1>18, <2>1, Zenon
  <2>3. /\ UNCHANGED master
        /\ IF f.edit # 0 /\ Entry!Final(f.edit) THEN Refused("final")
           ELSE IF f.kind = "invoice" /\ ~ (Entry!Balanced(v) /\ Entry!Something(v))
           THEN form' = [f EXCEPT !.at = "open", !.error = IF Entry!Balanced(v) THEN "empty" ELSE "unbalanced"] /\ docs' = D
           ELSE Saving
    BY <1>1, <1>3, <1>6, <1>19, <2>1, SMT DEF Entry!Serve
  <2>. QED  BY <2>2, <2>3, Zenon
<1>21. master' \in [Items -> Rates]
  BY <1>20, Zenon DEF EntryInv
<1>22. ASSUME NEW e \in {"final", "empty"}, Refused(e) PROVE EntryInv'
  <2>1. PICK f1 : f1 = [f EXCEPT !.at = "open"]
    BY Zenon
  <2>2. f1 \in FormRow
    BY <1>2, <2>1, FormSet, Zenon
  <2>3. f1.at = "open" /\ f1.saved = f.saved /\ f1.edit = f.edit
    BY <1>2, <2>1, SMT DEF FormRow
  <2>4. PICK g : g = [f1 EXCEPT !.error = e]
    BY Zenon
  <2>5. g \in FormRow
    BY <2>2, <2>4, FormSet, Zenon
  <2>6. g.at = "open" /\ g.saved = f.saved /\ g.edit = f.edit
    BY <2>2, <2>3, <2>4, SMT DEF FormRow
  <2>7. FormSound(g, docs)
    BY <1>2, <2>5, <2>6, QuietForm, Zenon DEF FormSound
  <2>8. form' = g /\ UNCHANGED <<master, docs>>
    BY <1>3, <1>20, <1>22, <2>1, <2>4, Zenon
  <2>. QED  BY <2>5, <2>7, <2>8, EntryKept, Zenon
<1>23. ASSUME f.edit # 0 => ~ Entry!Final(f.edit), Saving PROVE EntryInv'
  <2>1. PICK s : s = IF f.edit = 0 THEN Len(D) + 1 ELSE f.edit
    BY Zenon
  <2>2. s \in Nat
    BY <1>4, <1>5, <2>1, SMT
  <2>3. PICK f1 : f1 = [f EXCEPT !.at = "served"]
    BY Zenon
  <2>4. f1 \in FormRow
    BY <1>2, <2>3, FormSet, Zenon
  <2>5. f1.at = "served" /\ f1.edit = f.edit /\ f1.lines = f.lines /\ f1.taxed = f.taxed /\ f1.extra = f.extra
    BY <1>2, <2>3, SMT DEF FormRow
  <2>6. PICK g : g = [f1 EXCEPT !.saved = s]
    BY Zenon
  <2>7. g \in FormRow
    BY <2>2, <2>4, <2>6, FormSet, Zenon
  <2>8. /\ g.at = "served" /\ g.saved = s /\ g.edit = f.edit
        /\ g.lines = f.lines /\ g.taxed = f.taxed /\ g.extra = f.extra
    BY <2>4, <2>5, <2>6, SMT DEF FormRow
  <2>9. Entry!Shown(g) = came
    BY <1>11, <2>8, Zenon DEF Entry!Shown
  <2>10. form' = g
    BY <1>23, <2>1, <2>3, <2>6, Zenon
  <2>11. CASE f.edit = 0
    <3>1. PICK E : E = Append(D, doc)
      BY Zenon
    <3>2. E \in Seq(DocRow) /\ SoundDocs(E) /\ Len(E) = Len(D) + 1 /\ E[Len(D) + 1] = doc
      BY <1>4, <1>15, <1>17, <3>1, DocsAdded
    <3>3. docs' = E
      BY <1>23, <2>11, <3>1, Zenon
    <3>4. FormSound(g, E)
      BY <1>4, <1>15, <2>1, <2>8, <2>9, <2>11, <3>2, SMT DEF FormSound
    <3>. QED  BY <1>21, <2>7, <2>10, <3>2, <3>3, <3>4, Zenon DEF EntryInv
  <2>12. CASE f.edit # 0
    <3>1. f.edit \in DOMAIN D
      BY <1>2, <1>3, <1>4, <1>5, <2>12, SMT DEF FormSound
    <3>2. PICK from \in Nat : from = D[f.edit].from
      <4>1. D[f.edit] \in DocRow
        BY <1>4, <3>1, SMT
      <4>. QED  BY <4>1, SMT DEF DocRow
    <3>3. PICK x1 : x1 = [doc EXCEPT !.from = from]
      BY Zenon
    <3>4. /\ x1 \in DocRow /\ Alike(x1, doc) /\ x1.from = from
          /\ x1.paid = doc.paid /\ x1.edited = doc.edited /\ x1.shown = doc.shown /\ x1.asShown = doc.asShown
      <4>1. doc \in DocRow
        BY <1>15, Zenon
      <4>. QED  BY <3>3, <4>1, DocMade
    <3>5. PICK x : x = [x1 EXCEPT !.edited = TRUE]
      BY Zenon
    <3>6. /\ x \in DocRow /\ Alike(x, x1) /\ x.edited = TRUE
          /\ x.paid = x1.paid /\ x.from = x1.from /\ x.shown = x1.shown /\ x.asShown = x1.asShown
      BY <3>4, <3>5, DocEdited
    <3>7. SoundDoc(x)
      BY <1>17, <3>4, <3>6, Zenon DEF SoundDoc, Alike
    <3>8. \A e \in DOMAIN D : D[e].from # f.edit
      BY <1>3, <1>23, <2>12, <3>1, Zenon DEF Entry!Final, Entry!Converted
    <3>9. PICK E : E = [D EXCEPT ![f.edit] = x]
      BY Zenon
    <3>10. E \in Seq(DocRow) /\ SoundDocs(E) /\ Len(E) = Len(D)
      <4>1. x.from = D[f.edit].from
        BY <3>2, <3>4, <3>6, Zenon
      <4>. QED  BY <1>4, <3>1, <3>6, <3>7, <3>8, <3>9, <4>1, DocsChanged
    <3>11. docs' = E
      BY <1>23, <2>12, <3>2, <3>3, <3>5, <3>9, Zenon
    <3>12. FormSound(g, E)
      BY <1>4, <2>1, <2>8, <2>12, <3>1, <3>10, SMT DEF FormSound
    <3>. QED  BY <1>21, <2>7, <2>10, <3>10, <3>11, <3>12, Zenon DEF EntryInv
  <2>. QED  BY <2>11, <2>12, Zenon
<1>. QED  BY <1>20, <1>22, <1>23, Zenon

(* Every step keeps form and documents.                                        *)
LEMMA EntryNext == EntryInv /\ [Entry!Next]_(Entry!vars) => EntryInv'
<1>. SUFFICES ASSUME EntryInv, [Entry!Next]_(Entry!vars) PROVE EntryInv'
  BY Zenon
<1>1. CASE UNCHANGED Entry!vars
  <2>1. master' = master /\ docs' = docs /\ form' = form
    BY <1>1, Zenon DEF Entry!vars
  <2>. QED  BY <2>1, Zenon DEF EntryInv
<1>2. CASE \E k \in Entry!Kinds : Entry!Open(k)
  BY <1>2, EntryOpen, Zenon
<1>3. CASE \E d \in DOMAIN docs : Entry!OpenEdit(d)
  BY <1>3, EntryOpenEdit, Zenon
<1>4. CASE \E entered \in Drafts, taxed, cash \in BOOLEAN : Entry!Fill(entered, taxed, cash)
  BY <1>4, EntryFill, Zenon
<1>5. CASE Entry!Submit \/ Entry!Fail \/ Entry!Leave \/ Entry!Answer \/ Entry!PayCash \/ Entry!LoseCash
  BY <1>5, EntrySubmit, EntryFail, EntryLeave, EntryAnswer, EntryPayCash, Zenon
<1>6. CASE \E short \in BOOLEAN : Entry!Serve(short)
  BY <1>6, EntryServe, Zenon
<1>7. CASE \E d \in DOMAIN docs, short \in BOOLEAN : Entry!Convert(d, short)
  BY <1>7, EntryConvert, Zenon
<1>8. CASE \E i \in Items, g \in Rates : Entry!ItemChanges(i, g)
  BY <1>8, EntryItemChanges, Zenon
<1>. QED  BY <1>1, <1>2, <1>3, <1>4, <1>5, <1>6, <1>7, <1>8, Zenon DEF Entry!Next

(* An amount a whole number of rupees away, within bounds.                      *)
LEMMA RupeesApart ==
  ASSUME NEW b, NEW was, NEW off, StaysNear(b, was, off), b.total \in Int
  PROVE  /\ b.total - was \in {Entry!Rupee * n : n \in (-off)..off}
         /\ was <= b.total => b.total - was \in {Entry!Rupee * n : n \in 0..off}
<1>1. PICK n \in Int : b.total - was = 100 * n /\ -off <= n /\ n <= off /\ off \in Nat /\ was \in Int
  BY Zenon DEF StaysNear
<1>2. n \in (-off)..off
  BY <1>1, SMT
<1>3. b.total - was = Entry!Rupee * n
  BY <1>1, Zenon DEF Entry!Rupee
<1>4. ASSUME was <= b.total PROVE n \in 0..off
  BY <1>1, <1>4, SMT
<1>. QED  BY <1>2, <1>3, <1>4, Zenon

(* ... and so a document is what the form showed, and adds up; cash settles it; and an
   estimate's invoice comes to what the estimate came to. *)
LEMMA EntryShows ==
  EntryInv => Entry!SavedAsShown /\ Entry!DocumentsAddUp /\ Entry!CashIsSettled /\ Entry!ConversionKeepsRates /\ Entry!TypeOK
<1>. SUFFICES ASSUME EntryInv
              PROVE  Entry!SavedAsShown /\ Entry!DocumentsAddUp /\ Entry!CashIsSettled /\ Entry!ConversionKeepsRates /\ Entry!TypeOK
  BY Zenon
<1>1. ASSUME NEW d \in DOMAIN docs
      PROVE  docs[d] \in DocRow /\ SoundDoc(docs[d]) /\ CameFrom(docs, d) /\ d \in Nat /\ DOMAIN docs = 1..Len(docs)
  BY SMT DEF EntryInv, SoundDocs
<1>2. Entry!SavedAsShown
  <2>. SUFFICES ASSUME NEW d \in DOMAIN docs, docs[d].asShown
                PROVE  docs[d].bill.total - docs[d].shown
                         \in {Entry!Rupee * n : n \in (- Entry!RupeesOff(Len(docs[d].lines)))..Entry!RupeesOff(Len(docs[d].lines))}
    BY Zenon DEF Entry!SavedAsShown
  <2>1. PICK x : x = docs[d]
    BY Zenon
  <2>2. x \in DocRow /\ SoundDoc(x) /\ x.asShown
    BY <1>1, <2>1, Zenon
  <2>3. PICK off : off = Entry!RupeesOff(Len(x.lines))
    BY Zenon
  <2>4. StaysNear(x.bill, x.shown, off)
    BY <2>2, <2>3, SavedNearShown, Zenon
  <2>5. x.bill.total \in Int
    BY <2>2, SavedBalances, Zenon
  <2>6. x.bill.total - x.shown \in {Entry!Rupee * n : n \in (-off)..off}
    BY <2>4, <2>5, RupeesApart, Zenon
  <2>. QED  BY <2>1, <2>3, <2>6, Zenon
<1>3. Entry!CashIsSettled
  <2>. SUFFICES ASSUME NEW d \in DOMAIN docs, docs[d].paid > 0, docs[d].asShown
                PROVE  docs[d].bill.total - docs[d].paid \in {Entry!Rupee * n : n \in 0..Entry!RupeesOff(Len(docs[d].lines))}
    BY Zenon DEF Entry!CashIsSettled
  <2>1. PICK x : x = docs[d]
    BY Zenon
  <2>2. x \in DocRow /\ SoundDoc(x) /\ x.asShown
    BY <1>1, <2>1, Zenon
  <2>3. PICK off : off = Entry!RupeesOff(Len(x.lines))
    BY Zenon
  <2>4. StaysNear(x.bill, x.shown, off)
    BY <2>2, <2>3, SavedNearShown, Zenon
  <2>5. x.bill.total \in Int
    BY <2>2, SavedBalances, Zenon
  <2>6. x.paid = x.shown /\ x.paid <= x.bill.total
    BY <2>1, <2>2, Zenon DEF SoundDoc
  <2>7. x.bill.total - x.shown \in {Entry!Rupee * n : n \in 0..off}
    BY <2>4, <2>5, <2>6, RupeesApart, Zenon
  <2>. QED  BY <2>1, <2>3, <2>6, <2>7, Zenon
<1>4. Entry!DocumentsAddUp
  <2>1. form # Entry!Closed => form.error # "unbalanced"
    <3>1. \A f \in FormRow : f.error # "unbalanced"
      BY SMT DEF FormRow
    <3>. QED  BY <3>1, FormShown, Zenon
  <2>2. ASSUME NEW d \in DOMAIN docs
        PROVE  LET b == docs[d].bill
               IN /\ Entry!Balanced(Entry!SalesVoucher(b))
                  /\ b.total % Entry!Rupee = 0
                  /\ b.roundOff \in -49..50
                  /\ b.sgst <= b.cgst + Len(docs[d].lines) /\ b.cgst <= b.sgst + Len(docs[d].lines)
    <3>1. PICK x : x = docs[d]
      BY Zenon
    <3>2. x \in DocRow /\ SoundDoc(x)
      BY <1>1, <3>1, Zenon
    <3>. QED  BY <3>1, <3>2, SavedBalances, Zenon
  <2>. QED  BY <2>1, <2>2, Zenon DEF Entry!DocumentsAddUp
<1>5. Entry!ConversionKeepsRates
  <2>. SUFFICES ASSUME NEW d \in DOMAIN docs, docs[d].from # 0, ~ docs[d].edited,
                       docs[docs[d].from].bill.extra = 0
                PROVE  docs[d].bill.total = docs[docs[d].from].bill.total
    BY Zenon DEF Entry!ConversionKeepsRates
  <2>1. PICK x : x = docs[d]
    BY Zenon
  <2>2. PICK y : y = docs[x.from]
    BY Zenon
  <2>3. x \in DocRow /\ SoundDoc(x) /\ CameFrom(docs, d) /\ d \in Nat /\ DOMAIN docs = 1..Len(docs)
    BY <1>1, <2>1, Zenon
  <2>4. x.from \in DOMAIN docs
    <3>1. x.from \in Nat /\ x.from # 0 /\ x.from < d /\ Len(docs) \in Nat
      BY <2>1, <2>3, SMT DEF CameFrom, DocRow, EntryInv
    <3>. QED  BY <2>3, <3>1, SMT
  <2>5. y \in DocRow /\ SoundDoc(y)
    BY <1>1, <2>2, <2>4, Zenon
  <2>6. x.lines = y.lines /\ x.inter = y.inter /\ x.extra = 0
    BY <2>1, <2>2, <2>3, Zenon DEF CameFrom
  <2>7. y.extra = 0
    BY <2>1, <2>2, <2>5, SavedBalances, Zenon
  <2>8. PICK lines \in Seq(Entry!Line) : lines = x.lines
    BY <2>3, SMT DEF DocRow
  <2>9. PICK inter \in BOOLEAN : inter = x.inter
    BY <2>3, SMT DEF DocRow
  <2>10. PICK extra \in Nat : extra = 0
    BY SMT
  <2>11. PICK short \in BOOLEAN : x.calc = Calc(lines, inter, short)
    BY <2>3, <2>8, <2>9, Zenon DEF SoundDoc
  <2>12. PICK other \in BOOLEAN : y.calc = Calc(lines, inter, other)
    BY <2>5, <2>6, <2>8, <2>9, Zenon DEF SoundDoc
  <2>13. x.bill = Entry!Calculated(Calc(lines, inter, short), extra)
    BY <2>3, <2>6, <2>10, <2>11, Zenon DEF SoundDoc
  <2>14. y.bill = Entry!Calculated(Calc(lines, inter, other), extra)
    BY <2>5, <2>7, <2>10, <2>12, Zenon DEF SoundDoc
  <2>15. x.bill.total = y.bill.total
    BY <2>13, <2>14, HalvedAlike
  <2>. QED  BY <2>1, <2>2, <2>15, Zenon
<1>6. Entry!TypeOK
  <2>1. master \in [Items -> Rates]
    BY Zenon DEF EntryInv
  <2>2. form = Entry!Closed \/ (form.at \in {"open", "sent", "served", "paying"} /\ form.saved \in 0..Len(docs))
    <3>1. CASE form # Entry!Closed
      BY <3>1, FormShown, SMT DEF FormRow, FormSound
    <3>. QED  BY <3>1, Zenon
  <2>3. ASSUME NEW d \in DOMAIN docs
        PROVE  /\ docs[d].kind \in Entry!Kinds /\ docs[d].paid \in Nat
               /\ docs[d].from \in 0..(d - 1)
               /\ DOMAIN docs[d].calc = DOMAIN docs[d].lines
    <3>1. PICK x : x = docs[d]
      BY Zenon
    <3>2. x \in DocRow /\ SoundDoc(x) /\ x.from < d /\ d \in Nat
      BY <1>1, <3>1, Zenon DEF CameFrom
    <3>3. x.kind \in Entry!Kinds /\ x.paid \in Nat /\ x.from \in Nat
      BY <3>2, SMT DEF DocRow
    <3>4. x.from \in 0..(d - 1)
      BY <3>2, <3>3, SMT
    <3>5. DOMAIN x.calc = DOMAIN x.lines
      BY <3>2, SavedBalances, Zenon
    <3>. QED  BY <3>1, <3>3, <3>4, <3>5, Zenon
  <2>. QED  BY <2>1, <2>2, <2>3, Zenon DEF Entry!TypeOK
<1>. QED  BY <1>2, <1>3, <1>4, <1>5, <1>6, Zenon

-----------------------------------------------------------------------------
(* A step of the desk is one of its part, and changes nothing of the others.     *)
LEMMA DeskSteps ==
  ASSUME [DeskNext]_deskVars
  PROVE  /\ [Next]_vars
         /\ [Payments!Next]_(Payments!vars)
         /\ [BankList!Next]_(BankList!vars)
         /\ [Settings!Next]_(Settings!vars)
         /\ [PartyForm!Next]_(PartyForm!vars)
         /\ [Lists!Next]_(Lists!vars)
         /\ [Entry!Next]_(Entry!vars)
         /\ [Paper!Next]_(Paper!vars)
<1>1. Next \/ UNCHANGED vars
  BY DEF DeskNext, deskVars, Rest
<1>2. Payments!Next \/ UNCHANGED pageVars
  BY DEF DeskNext, deskVars, Rest
<1>3. BankList!Next \/ UNCHANGED bankVars
  BY DEF DeskNext, deskVars, Rest
<1>4. Settings!Next \/ UNCHANGED cardVars
  BY DEF DeskNext, deskVars, Rest
<1>5. PartyForm!Next \/ UNCHANGED draftVars
  BY DEF DeskNext, deskVars, Rest
<1>6. Lists!Next \/ UNCHANGED listVars
  BY DEF DeskNext, deskVars, Rest
<1>7. Entry!Next \/ UNCHANGED entryVars
  BY DEF DeskNext, deskVars, Rest
<1>8. Paper!Next \/ UNCHANGED print
  BY DEF DeskNext, deskVars, Rest
<1>. QED
  BY <1>1, <1>2, <1>3, <1>4, <1>5, <1>6, <1>7, <1>8
  DEF entryVars, pageVars, bankVars, cardVars, draftVars, listVars, Entry!vars, Payments!vars,
      Payments!server, BankList!vars, Settings!vars, PartyForm!vars, Paper!vars, Lists!vars

(* Whatever the part and the steps, its variables hold what they are meant to: a form
   is closed or at one of its stages, a row of a list is a row, a document being drawn
   is one of the documents, and so on for each part. *)
THEOREM DeskTypeCorrect == DeskSpec => []DeskTypeOK
<1>. DEFINE Inv == /\ part \in Parts /\ EntryInv /\ IInv /\ PageInv /\ BanksInv /\ SettingsInv /\ DraftInv
                   /\ PaperInv /\ ListsInv /\ ListsTyped
<1>1. DeskInit => Inv
  BY EntryInit, Initially, PageInit, BanksInit, SettingsInit, DraftInit, PaperInit, ListsInit, ListsStartTyped
  DEF DeskInit
<1>2. Inv /\ [DeskNext]_deskVars => Inv'
  <2>. SUFFICES ASSUME Inv, [DeskNext]_deskVars PROVE Inv'
    OBVIOUS
  <2>1. part' \in Parts
    BY DEF DeskNext, deskVars, Rest, Parts
  <2>2. EntryInv' /\ IInv' /\ PageInv' /\ BanksInv' /\ SettingsInv' /\ DraftInv'
    BY DeskSteps, EntryNext, Inductive, PageNext, BanksNext, SettingsNext, DraftNext
  <2>3. PaperInv' /\ ListsInv' /\ ListsTyped'
    BY DeskSteps, PaperNext, ListsNext, ListsStayTyped
  <2>. QED  BY <2>1, <2>2, <2>3
<1>3. Inv => DeskTypeOK
  <2>. SUFFICES ASSUME Inv PROVE DeskTypeOK
    OBVIOUS
  <2>1. Entry!TypeOK /\ BankList!TypeOK /\ Settings!TypeOK
    BY EntryShows, BanksShown, SettingsShown
  <2>2. TypeOK
    BY SessionTyped
  <2>3. Payments!TypeOK
    BY DEF PageInv, PageTyped, PageRow, LoadRow, PageJobs, Payments!TypeOK
  <2>4. PartyForm!TypeOK
    BY DEF DraftInv, DraftTyped, DraftRow, SentRow, PartyForm!TypeOK
  <2>5. Paper!TypeOK
    BY DEF PaperInv, PaperRow, Paper!TypeOK
  <2>6. Lists!TypeOK
    <3>1. shown # None => DOMAIN shown \subseteq DocIds
      BY DEF ListsTyped, IsList
    <3>2. \A c \in Calls : waits[c].at \in {"idle", "sent", "loading"}
      BY DEF ListsInv, IsCall, Lists!Idle
    <3>3. \A d \in Lists!Stored : stored[d].kind \in Lists!Kinds
      BY StoredDocs DEF ListsInv, ListDoc
    <3>. QED  BY <3>1, <3>2, <3>3 DEF ListsTyped, Lists!TypeOK
  <2>. QED  BY <2>1, <2>2, <2>3, <2>4, <2>5, <2>6 DEF DeskTypeOK
<1>. QED  BY <1>1, <1>2, <1>3, PTL DEF DeskSpec

(* What the desk does with a session is what a session does by itself: its pairs keep
   to their year, and while exchanges take turns the client holds the live one. *)
THEOREM SessionsHold == DeskSpec => [](SessionKeepsYear /\ CalmSession)
<1>1. DeskInit => Init
  BY DEF DeskInit
<1>2. DeskSpec => Spec
  BY <1>1, DeskSteps, PTL DEF DeskSpec, Spec
<1>. QED  BY <1>2, SessionStaysInYear, CalmSessionHolds, PTL

(* What a form showed is what is saved, up to the rounding of the document to a rupee:
   its bill adds up to its lines and its voucher balances, a cash invoice is settled
   whole, and the invoice of an estimate keeps the estimate's rates. *)
THEOREM SavedAsEnteredHolds == DeskSpec => []SavedAsEntered
<1>1. DeskInit => EntryInv
  BY EntryInit DEF DeskInit
<1>2. EntryInv /\ [DeskNext]_deskVars => EntryInv'
  BY DeskSteps, EntryNext
<1>3. EntryInv => SavedAsEntered
  BY EntryShows DEF SavedAsEntered
<1>. QED  BY <1>1, <1>2, <1>3, PTL DEF DeskSpec

(* Whatever is entered and posted on the page of payments, by whomever and however
   often it fails: a sum is posted once, oldest document first, not beyond what is
   due, and the balance due is that of the party's ledger. *)
THEOREM PostedAsEnteredHolds == DeskSpec => []PostedAsEntered
<1>1. DeskInit => PageInv
  BY PageInit DEF DeskInit
<1>2. PageInv /\ [DeskNext]_deskVars => PageInv'
  BY DeskSteps, PageNext
<1>3. PageInv => PostedAsEntered
  BY PageShows DEF PostedAsEntered
<1>. QED  BY <1>1, <1>2, <1>3, PTL DEF DeskSpec

(* A company has one default bank account, through whatever requests at a time, and
   keeps the settings that were typed and saved where no two cards showed them. *)
THEOREM SettingsHoldHolds == DeskSpec => []SettingsHold
<1>1. DeskInit => BanksInv /\ SettingsInv
  BY BanksInit, SettingsInit DEF DeskInit
<1>2. BanksInv /\ SettingsInv /\ [DeskNext]_deskVars => (BanksInv /\ SettingsInv)'
  BY DeskSteps, BanksNext, SettingsNext
<1>3. BanksInv /\ SettingsInv => SettingsHold
  BY BanksShown, SettingsShown DEF SettingsHold
<1>. QED  BY <1>1, <1>2, <1>3, PTL DEF DeskSpec

(* Each block of a printed document stands whole on a page, the amounts above its total
   add up to it, and the words say it, for any documents the service saves, layouts,
   heights of rows and places of the table. *)
THEOREM PrintedAsSavedHolds == DeskSpec => []PrintedAsSaved
<1>1. DeskInit => PaperInv
  BY PaperInit DEF DeskInit
<1>2. PaperInv /\ [DeskNext]_deskVars => PaperInv'
  BY DeskSteps, PaperNext
<1>3. PaperInv => PrintedAsSaved
  BY PaperShows DEF PrintedAsSaved
<1>. QED  BY <1>1, <1>2, <1>3, PTL DEF DeskSpec

(* What a list offers on a row that is up to date the service accepts, or refuses for
   what no row shows; lists reloaded undisturbed are what is stored; and actions on
   stale rows overpay no bill and lose no invoice of an estimate. *)
THEOREM ListsOfferRightlyHolds == DeskSpec => []ListsOfferRightly
<1>1. DeskInit => ListsInv
  BY ListsInit DEF DeskInit
<1>2. ListsInv /\ [DeskNext]_deskVars => ListsInv'
  BY DeskSteps, ListsNext
<1>3. ListsInv => ListsOfferRightly
  BY ListsShow DEF ListsOfferRightly
<1>. QED  BY <1>1, <1>2, <1>3, PTL DEF DeskSpec

(* The save of a party changes what was typed in its form and nothing else, when the
   row it was opened from was up to date and its own answer came before typing. *)
THEOREM SavedAsTypedHolds == DeskSpec => SavedAsTyped
<1>1. DeskInit => DraftInv
  BY DraftInit DEF DeskInit
<1>2. DraftInv /\ [DeskNext]_deskVars => DraftInv'
  BY DeskSteps, DraftNext
<1>3. DraftInv /\ [DeskNext]_deskVars => [part = "party" => PartyForm!SaveChangesTyped]_draftVars
  BY DeskSteps, DraftSaves
<1>. QED  BY <1>1, <1>2, <1>3, PTL DEF DeskSpec, SavedAsTyped
=============================================================================
