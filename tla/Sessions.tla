------------------------------- MODULE Sessions -------------------------------
(***************************************************************************)
(* A session: pairs of an access and a refresh token, and a browser (or a   *)
(* native shell) whose calls share the store the pair is kept in.  A call   *)
(* that is refused with 401 exchanges the refresh token and is sent once    *)
(* more; several calls do so at once, answers are lost, and the user signs  *)
(* in, signs out and resets the password meanwhile.                         *)
(***************************************************************************)
EXTENDS Integers, Sequences, FiniteSets

CONSTANTS
  Calls,      \* API calls a page may have under way at a time
  Years,      \* financial years the business has books for, 1 to the current
  MaxTokens,  \* bound: pairs ever issued
  None

VARIABLES
  tokens,  \* the pairs ever issued: their rows in refresh_tokens
  reset,   \* the password was reset
  native,  \* a native shell: tokens are kept by JS, not in cookies
  store,   \* the pair the client holds (0: none)
  flag,    \* localStorage "sa.auth"
  chosen,  \* the year picked at the last sign-in that was answered
  out,     \* the user asked to sign out, or to reset the password, since then
  failed,  \* an exchange was answered with an error of the server since then
  calm,    \* no exchange, sign-in, sign-out or reset has overlapped another
  call     \* where each call is

vars == <<tokens, reset, native, store, flag, chosen, out, failed, calm, call>>

Idle == [at |-> "idle"]
FYs == 1..Years

(* login: the pair the session began with.  stale: the access token has expired. *)
Pair(login, fy, after) ==
  [login |-> login, fy |-> fy, live |-> TRUE, stale |-> FALSE, after |-> after]

Init ==
  /\ tokens = <<>>
  /\ native \in BOOLEAN
  /\ store = 0
  /\ reset = FALSE /\ flag = FALSE /\ out = FALSE /\ failed = FALSE /\ calm = TRUE
  /\ chosen = None
  /\ call = [c \in Calls |-> Idle]

Step(c, r) == call' = [call EXCEPT ![c] = r]
Ended(c) == Step(c, Idle)
At(c, place) == call[c].at = place
InExchange == {c \in Calls : call[c].at \notin {"idle", "sent", "denied"}}
Touch(c) == calm' = (calm /\ InExchange \ {c} = {})
Issuing == {c \in Calls : call[c].at \notin {"idle", "leaving", "left"}}
Room == Len(tokens) + Cardinality(Issuing) < MaxTokens

Live(t) == t \in DOMAIN tokens /\ tokens[t].live
Revoke(s) ==
  tokens' = [t \in DOMAIN tokens |-> IF t \in s THEN [tokens[t] EXCEPT !.live = FALSE] ELSE tokens[t]]

(* request: a call of a page is sent with the access token in the store.       *)
Send(c) ==
  /\ At(c, "idle") /\ Room
  /\ Step(c, [at |-> "sent", access |-> store, again |-> FALSE])
  /\ UNCHANGED <<tokens, reset, native, store, flag, chosen, out, calm, failed>>

(* JwtAuthGuard looks at the access token alone: the pair may be revoked.    *)
Granted(access) == IF access = 0 THEN FALSE ELSE ~ tokens[access].stale

(* A call is served; or denied: the second time for good.                   *)
Serve(c) ==
  /\ At(c, "sent")
  /\ Step(c, IF Granted(call[c].access) \/ call[c].again THEN Idle ELSE [at |-> "denied"])
  /\ UNCHANGED <<tokens, reset, native, store, flag, chosen, out, calm, failed>>

(* The access token of a pair runs out.                                     *)
Expire(t) ==
  /\ ~ tokens[t].stale
  /\ tokens' = [tokens EXCEPT ![t].stale = TRUE]
  /\ UNCHANGED <<reset, native, store, flag, chosen, out, calm, call, failed>>

(* tryRefresh: the refresh token in the store is presented.                 *)
Refresh(c) ==
  /\ At(c, "denied")
  /\ Touch(c)
  /\ Step(c, [at |-> "asked", token |-> store])
  /\ UNCHANGED <<tokens, reset, native, store, flag, chosen, out, failed>>

RefreshRead(c) ==
  /\ At(c, "asked")
  /\ Step(c, [call[c] EXCEPT !.at = IF Live(call[c].token) THEN "found" ELSE "refused"])
  /\ UNCHANGED <<tokens, reset, native, store, flag, chosen, out, calm, failed>>

(* Broken variant: the token presented stays good. *)
RefreshRevoke_Kept(c) ==
  /\ At(c, "found")
  /\ Step(c, [call[c] EXCEPT !.at = "revoked"])
  /\ UNCHANGED <<tokens, reset, native, store, flag, chosen, out, calm, failed>>

(* The row is marked whatever became of it since it was read.               *)
RefreshRevoke(c) ==
  /\ At(c, "found")
  /\ Revoke({call[c].token})
  /\ Step(c, [call[c] EXCEPT !.at = "revoked"])
  /\ UNCHANGED <<reset, native, store, flag, chosen, out, calm, failed>>

(* Broken variant: the session goes on in the current year. *)
RefreshIssue_CurrentYear(c) ==
  /\ At(c, "revoked")
  /\ LET old == tokens[call[c].token]
     IN tokens' = Append(tokens, Pair(old.login, Years, old.after))
  /\ Step(c, [at |-> "issued", new |-> Len(tokens')])
  /\ UNCHANGED <<reset, native, store, flag, chosen, out, calm, failed>>

(* Broken variant: the new pair is not tied to the sign-in of the old one. *)
RefreshIssue_OfNoLogin(c) ==
  /\ At(c, "revoked")
  /\ tokens' = Append(tokens, Pair(None, tokens[call[c].token].fy, reset))
  /\ Step(c, [at |-> "issued", new |-> Len(tokens')])
  /\ UNCHANGED <<reset, native, store, flag, chosen, out, calm, failed>>

(* buildAuthResult, in the year of the row that was read.                   *)
RefreshIssue(c) ==
  /\ At(c, "revoked")
  /\ LET old == tokens[call[c].token]
     IN tokens' = Append(tokens, Pair(old.login, old.fy, old.after))
  /\ Step(c, [at |-> "issued", new |-> Len(tokens')])
  /\ UNCHANGED <<reset, native, store, flag, chosen, out, calm, failed>>

(* The pair arrives and the call is sent once more, with whatever is then in
   the store. *)
RefreshAnswer(c) ==
  /\ At(c, "issued")
  /\ store' = call[c].new
  /\ Step(c, [at |-> "sent", access |-> call[c].new, again |-> TRUE])
  /\ UNCHANGED <<tokens, reset, native, flag, chosen, out, calm, failed>>

(* Whatever answer is not ok, the client takes itself for signed out; the cookies
   stay. *)
Dropped(c) ==
  /\ flag' = FALSE
  /\ store' = IF native THEN 0 ELSE store
  /\ Ended(c)

(* 401: the token presented was not live when it was read.                  *)
RefreshRefused(c) ==
  /\ At(c, "refused")
  /\ Dropped(c)
  /\ UNCHANGED <<tokens, reset, native, chosen, out, calm, failed>>

(* An error answers the exchange wherever it was: the throttler or the proxy before
   the token was looked at, the server between two statements, or the proxy after. *)
RefreshFailed(c) ==
  /\ call[c].at \in {"asked", "found", "revoked", "issued"}
  /\ Dropped(c)
  /\ failed' = TRUE
  /\ UNCHANGED <<tokens, reset, native, chosen, out, calm>>

(* No answer arrives to a call or an exchange: fetch throws, and the flag stays; nor
   does an error that answers a call or a sign-in touch it. *)
Lose(c) ==
  /\ call[c].at \in {"sent", "asked", "found", "revoked", "issued", "refused", "signing", "signed"}
  /\ Ended(c)
  /\ UNCHANGED <<tokens, reset, native, store, flag, chosen, out, calm, failed>>

(* login and mfaVerify: the year is checked with the password and carried by the
   mfaToken; the pair is made in a later step.  One sign-in at a time. *)
SignIn(c, fy) ==
  /\ At(c, "idle") /\ Room
  /\ \A d \in Calls : ~ At(d, "signing") /\ ~ At(d, "signed")
  /\ Touch(c)
  /\ Step(c, [at |-> "signing", fy |-> fy])
  /\ UNCHANGED <<tokens, reset, native, store, flag, chosen, out, failed>>

SignInIssue(c) ==
  /\ At(c, "signing")
  /\ tokens' = Append(tokens, Pair(Len(tokens) + 1, call[c].fy, reset))
  /\ Step(c, [at |-> "signed", new |-> Len(tokens')])
  /\ UNCHANGED <<reset, native, store, flag, chosen, out, calm, failed>>

SignInAnswer(c) ==
  /\ At(c, "signed")
  /\ store' = call[c].new
  /\ flag' = TRUE /\ out' = FALSE /\ failed' = FALSE
  /\ chosen' = tokens[call[c].new].fy
  /\ Ended(c)
  /\ UNCHANGED <<tokens, reset, native, calm>>

(* logout: the pair in the store is presented ...                           *)
SignOut(c) ==
  /\ At(c, "idle") /\ flag
  /\ Touch(c)
  /\ out' = TRUE
  /\ Step(c, [at |-> "leaving", token |-> store])
  /\ UNCHANGED <<tokens, reset, native, store, flag, chosen, failed>>

SignOutServe(c) ==
  /\ At(c, "leaving")
  /\ Revoke({call[c].token})
  /\ Step(c, [at |-> "left"])
  /\ UNCHANGED <<reset, native, store, flag, chosen, out, calm, failed>>

(* ... and the flag goes whether or not an answer comes; the cookies go with an
   answer only. *)
SignOutEnd(c) ==
  /\ call[c].at \in {"leaving", "left"}
  /\ flag' = FALSE
  /\ store' = IF native \/ At(c, "left") THEN 0 ELSE store
  /\ Ended(c)
  /\ UNCHANGED <<tokens, reset, native, chosen, out, calm, failed>>

(* Broken variant: the sessions of the old password go on. *)
ResetPassword_KeepsSessions ==
  /\ ~ reset
  /\ reset' = TRUE /\ out' = TRUE
  /\ calm' = (calm /\ InExchange = {})
  /\ UNCHANGED <<tokens, native, store, flag, chosen, call, failed>>

(* resetPassword revokes every row of the user, in one transaction.         *)
ResetPassword ==
  /\ ~ reset
  /\ reset' = TRUE /\ out' = TRUE
  /\ calm' = (calm /\ InExchange = {})
  /\ Revoke(DOMAIN tokens)
  /\ UNCHANGED <<native, store, flag, chosen, call, failed>>

Next ==
  \/ \E c \in Calls :
       \/ Send(c) \/ Serve(c) \/ Lose(c)
       \/ Refresh(c) \/ RefreshRead(c) \/ RefreshRevoke(c) \/ RefreshIssue(c)
       \/ RefreshAnswer(c) \/ RefreshRefused(c) \/ RefreshFailed(c)
       \/ \E fy \in FYs : SignIn(c, fy)
       \/ SignInIssue(c) \/ SignInAnswer(c)
       \/ SignOut(c) \/ SignOutServe(c) \/ SignOutEnd(c)
  \/ \E t \in DOMAIN tokens : Expire(t)
  \/ ResetPassword

Spec == Init /\ [][Next]_vars

-----------------------------------------------------------------------------
CallType(r) ==
  \/ r.at \in {"idle", "denied", "left"}
  \/ r.at = "sent" /\ r.access \in {0} \cup DOMAIN tokens /\ r.again \in BOOLEAN
  \/ r.at = "asked" /\ r.token \in {0} \cup DOMAIN tokens
  \/ r.at \in {"refused", "leaving"} /\ r.token \in {0} \cup DOMAIN tokens
  \/ r.at \in {"found", "revoked"} /\ r.token \in DOMAIN tokens
  \/ r.at = "signing" /\ r.fy \in FYs
  \/ r.at \in {"issued", "signed"} /\ r.new \in DOMAIN tokens

TypeOK ==
  /\ \A t \in DOMAIN tokens :
       tokens[t] \in [login : 1..t, fy : FYs, live : BOOLEAN, stale : BOOLEAN, after : BOOLEAN]
  /\ store \in {0} \cup DOMAIN tokens
  /\ chosen \in FYs \cup {None}
  /\ \A c \in Calls : CallType(call[c])
  /\ {reset, native, flag, out, failed, calm} \subseteq BOOLEAN

(* "Rotating the session must not silently move the user to another year":
   however a session is exchanged, lost and exchanged again, by calls in
   parallel too, every pair of it is in the year it was opened in. *)
SessionKeepsYear ==
  \A t \in DOMAIN tokens : tokens[t].fy = tokens[tokens[t].login].fy

(* The pair a client holds is of the year picked at the last sign-in, unless an
   exchange overlapped it: an answer of the session before may arrive after it
   and put that session back. *)
HeldInChosenYear ==
  calm /\ store # 0 => tokens[store].fy = chosen

(* "Rotate: every refresh invalidates the presented token and issues a new
   pair": a sign-in has one live pair at most, unless two exchanges of one token
   overlapped, each of which leaves its own. *)
OneLivePair ==
  calm => \A s, t \in DOMAIN tokens :
            tokens[s].live /\ tokens[t].live /\ tokens[s].login = tokens[t].login => s = t

(* "A password reset invalidates every existing session": none opened before it
   is live after it, unless an exchange overlapped the reset. *)
ResetEndsSessions ==
  calm /\ reset => \A t \in DOMAIN tokens : tokens[t].live => tokens[t].after

(* A client that holds a live session knows of it, unless the user asked to leave, an
   exchange overlapped another, or the server answered one with an error: any answer
   that is not ok drops the flag, whatever became of the token. *)
SessionIsKnown ==
  calm /\ ~ out /\ ~ failed /\ Live(store) => flag

(* Exchanges, sign-ins and resets that do not overlap leave one live pair, of the
   year picked, and when the server answers them, one that the client knows of. *)
CalmSession ==
  HeldInChosenYear /\ OneLivePair /\ ResetEndsSessions /\ SessionIsKnown
=============================================================================
