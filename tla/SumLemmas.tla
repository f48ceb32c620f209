------------------------------ MODULE SumLemmas ------------------------------
(***************************************************************************)
(* Sums over finite sets, SumFunctionOnSet of the community modules: what  *)
(* they add up to does not depend on the order in which the fold chooses.  *)
(* Each proof by induction on the size of the set is one by its least      *)
(* counterexample.                                                         *)
(***************************************************************************)
EXTENDS Functions, Integers, FiniteSetTheorems, TLAPS

(* A set of natural numbers that is not empty has a least one.               *)
LEMMA NatLeast ==
  ASSUME NEW T, T \subseteq Nat, T # {}
  PROVE  \E m \in T : \A k \in T : m <= k
<1>1. PICK R : R = OpToRel(<, Nat)
  OBVIOUS
<1>2. \E m \in T : \A k \in T : <<k, m>> \notin R
  BY <1>1, WFMin, NatLessThanWellFounded
<1>3. \A k, m \in Nat : k < m => <<k, m>> \in R
  BY <1>1 DEF OpToRel
<1>4. PICK m \in T : \A k \in T : <<k, m>> \notin R
  BY <1>2
<1>5. \A k \in T : ~ (k < m) /\ k \in Nat /\ m \in Nat
  BY <1>3, <1>4
<1>. QED  BY <1>5

(* A subset is smaller by the element it lacks.                              *)
LEMMA Smaller ==
  ASSUME NEW U, IsFiniteSet(U), NEW s \in SUBSET U
  PROVE  /\ IsFiniteSet(s) /\ Cardinality(s) \in Nat /\ Cardinality(s) <= Cardinality(U)
         /\ Cardinality(s) = 0 <=> s = {}
         /\ \A x \in s : /\ Cardinality(s \ {x}) \in Nat
                         /\ Cardinality(s \ {x}) = Cardinality(s) - 1
<1>1. IsFiniteSet(s) /\ Cardinality(s) <= Cardinality(U)
  BY FS_Subset
<1>2. Cardinality(s) \in Nat /\ (Cardinality(s) = 0 <=> s = {})
  BY <1>1, FS_CardinalityType, FS_EmptySet
<1>3. ASSUME NEW x \in s
      PROVE  Cardinality(s \ {x}) \in Nat /\ Cardinality(s \ {x}) = Cardinality(s) - 1
  <2>1. IsFiniteSet(s \ {x})
    BY <1>1, FS_RemoveElement
  <2>2. Cardinality(s \ {x}) = Cardinality(s) - 1
    BY <1>1, FS_RemoveElement
  <2>. QED  BY <2>1, <2>2, FS_CardinalityType
<1>. QED  BY <1>1, <1>2, <1>3

-----------------------------------------------------------------------------
(* What the fold computes, and that there is such a function.                *)
FoldPick(s) == CHOOSE x \in s : TRUE
FoldStep(g, f, s) == IF s = {} THEN 0 ELSE f[FoldPick(s)] + g[s \ {FoldPick(s)}]
IsFold(g, f, S) == g = [s \in SUBSET S |-> FoldStep(g, f, s)]

(* The sum is a fold that chooses the next element.                         *)
LEMMA SumIsFold ==
  ASSUME NEW f, NEW S
  PROVE  SumFunctionOnSet(f, S) = (CHOOSE g : IsFold(g, f, S))[S]
BY DEF SumFunctionOnSet, FoldFunctionOnSet, MapThenFoldSet, IsFold, FoldPick, FoldStep

(* The element chosen is one of the set.                                    *)
LEMMA Picked ==
  ASSUME NEW s, s # {}
  PROVE  FoldPick(s) \in s
BY DEF FoldPick

(* A fold is defined on every subset of a finite set ...                    *)
LEMMA FoldExists ==
  ASSUME NEW f, NEW U, IsFiniteSet(U)
  PROVE  \E g : IsFold(g, f, U)
<1>. DEFINE Upto(h, n) == \A s \in SUBSET U : Cardinality(s) <= n => h[s] = FoldStep(h, f, s)
            T == {n \in Nat : ~ \E h : Upto(h, n)}
<1>1. T = {}
  <2>. SUFFICES ASSUME T # {}  PROVE FALSE
    OBVIOUS
  <2>1. PICK m \in T : \A k \in T : m <= k
    BY NatLeast
  <2>2. m # 0
    <3>. DEFINE h == [s \in SUBSET U |-> 0]
    <3>1. \A s \in SUBSET U : Cardinality(s) <= 0 => s = {}
      BY Smaller
    <3>2. Upto(h, 0)
      BY <3>1 DEF FoldStep
    <3>. QED  BY <3>2
  <2>3. m \in Nat /\ m - 1 \in Nat /\ m - 1 \notin T
    BY <2>1, <2>2
  <2>4. PICK h : Upto(h, m - 1)
    BY <2>3
  <2>. DEFINE k == [s \in SUBSET U |-> IF Cardinality(s) <= m - 1 THEN h[s] ELSE FoldStep(h, f, s)]
  <2>5. ASSUME NEW s \in SUBSET U, Cardinality(s) <= m
        PROVE  k[s] = FoldStep(k, f, s)
    <3>1. k[s] = FoldStep(h, f, s)
      BY <2>4
    <3>2. s # {} => k[s \ {FoldPick(s)}] = h[s \ {FoldPick(s)}]
      <4>. SUFFICES ASSUME s # {}  PROVE k[s \ {FoldPick(s)}] = h[s \ {FoldPick(s)}]
        OBVIOUS
      <4>1. FoldPick(s) \in s
        BY Picked
      <4>2. Cardinality(s \ {FoldPick(s)}) <= m - 1
        BY <2>3, <2>5, <4>1, Smaller
      <4>. QED  BY <4>2
    <3>. HIDE DEF k
    <3>. QED  BY <3>1, <3>2 DEF FoldStep
  <2>6. Upto(k, m)
    BY <2>5
  <2>. QED  BY <2>1, <2>6
<1>2. PICK h : Upto(h, Cardinality(U))
  BY <1>1, Smaller
<1>. DEFINE g == [s \in SUBSET U |-> h[s]]
<1>3. \A s \in SUBSET U : h[s] = FoldStep(h, f, s)
  BY <1>2, Smaller
<1>4. ASSUME NEW s \in SUBSET U  PROVE FoldStep(h, f, s) = FoldStep(g, f, s)
  BY Picked DEF FoldStep
<1>5. g = [s \in SUBSET U |-> FoldStep(g, f, s)]
  <2>1. \A s \in SUBSET U : g[s] = FoldStep(g, f, s)
    BY <1>3, <1>4
  <2>2. \E p : p = [s \in SUBSET U |-> FoldStep(g, f, s)]
    OBVIOUS
  <2>3. PICK p : p = [s \in SUBSET U |-> FoldStep(g, f, s)]
    BY <2>2
  <2>4. \A s \in SUBSET U : p[s] = h[s]
    BY <2>1, <2>3
  <2>. HIDE DEF FoldStep
  <2>5. p = [s \in SUBSET U |-> p[s]]
    BY <2>3
  <2>6. [s \in SUBSET U |-> p[s]] = [s \in SUBSET U |-> h[s]]
    BY <2>4
  <2>. QED  BY <2>3, <2>5, <2>6
<1>. QED  BY <1>5 DEF IsFold

(* ... and no two differ, on whichever set they are defined.                *)
LEMMA FoldUnique ==
  ASSUME NEW f, NEW U, IsFiniteSet(U), NEW V \in SUBSET U, NEW g, NEW k, IsFold(g, f, U), IsFold(k, f, V)
  PROVE  g[V] = k[V]
<1>. DEFINE T == {n \in Nat : \E s \in SUBSET V : Cardinality(s) = n /\ g[s] # k[s]}
<1>1. \A s \in SUBSET V : g[s] = FoldStep(g, f, s) /\ k[s] = FoldStep(k, f, s)
  BY DEF IsFold
<1>2. T = {}
  <2>. SUFFICES ASSUME T # {}  PROVE FALSE
    OBVIOUS
  <2>1. PICK m \in T : \A j \in T : m <= j
    BY NatLeast
  <2>2. PICK s \in SUBSET V : Cardinality(s) = m /\ g[s] # k[s]
    BY <2>1
  <2>3. s # {}
    BY <1>1, <2>2 DEF FoldStep
  <2>4. FoldPick(s) \in s
    BY <2>3, Picked
  <2>5. Cardinality(s \ {FoldPick(s)}) \in Nat /\ ~ (m <= Cardinality(s \ {FoldPick(s)}))
    BY <2>2, <2>4, Smaller
  <2>6. g[s \ {FoldPick(s)}] = k[s \ {FoldPick(s)}]
    BY <2>1, <2>5
  <2>. QED  BY <1>1, <2>2, <2>6 DEF FoldStep
<1>. QED  BY <1>2, Smaller

(* The fold's first step.                                                    *)
LEMMA SumStep ==
  ASSUME NEW f, NEW S, IsFiniteSet(S)
  PROVE  SumFunctionOnSet(f, S)
           = IF S = {} THEN 0 ELSE f[FoldPick(S)] + SumFunctionOnSet(f, S \ {FoldPick(S)})
<1>1. PICK g : g = CHOOSE h : IsFold(h, f, S)
  OBVIOUS
<1>2. IsFold(g, f, S) /\ SumFunctionOnSet(f, S) = g[S]
  BY <1>1, FoldExists, SumIsFold
<1>3. g[S] = FoldStep(g, f, S)
  BY <1>2 DEF IsFold
<1>4. CASE S = {}
  BY <1>2, <1>3, <1>4 DEF FoldStep
<1>5. CASE S # {}
  <2>1. PICK R \in SUBSET S : R = S \ {FoldPick(S)}
    OBVIOUS
  <2>2. IsFiniteSet(R)
    BY FS_Subset
  <2>3. PICK k : k = CHOOSE h : IsFold(h, f, R)
    OBVIOUS
  <2>4. IsFold(k, f, R) /\ SumFunctionOnSet(f, R) = k[R]
    BY <2>2, <2>3, FoldExists, SumIsFold
  <2>5. g[R] = k[R]
    BY <1>2, <2>4, FoldUnique
  <2>. QED  BY <1>2, <1>3, <1>5, <2>1, <2>4, <2>5 DEF FoldStep
<1>. QED  BY <1>4, <1>5

-----------------------------------------------------------------------------
(* Sums of integers.                                                         *)
LEMMA SumInt ==
  ASSUME NEW U, IsFiniteSet(U), NEW f, \A x \in U : f[x] \in Int
  PROVE  SumFunctionOnSet(f, U) \in Int
<1>. DEFINE T == {n \in Nat : \E s \in SUBSET U : Cardinality(s) = n /\ SumFunctionOnSet(f, s) \notin Int}
<1>1. T = {}
  <2>. SUFFICES ASSUME T # {}  PROVE FALSE
    OBVIOUS
  <2>1. PICK m \in T : \A j \in T : m <= j
    BY NatLeast
  <2>2. PICK s \in SUBSET U : Cardinality(s) = m /\ SumFunctionOnSet(f, s) \notin Int
    BY <2>1
  <2>3. SumFunctionOnSet(f, s) = IF s = {} THEN 0 ELSE f[FoldPick(s)] + SumFunctionOnSet(f, s \ {FoldPick(s)})
    BY Smaller, SumStep
  <2>4. s # {} /\ FoldPick(s) \in s
    BY <2>2, <2>3, Picked
  <2>5. Cardinality(s \ {FoldPick(s)}) \in Nat /\ ~ (m <= Cardinality(s \ {FoldPick(s)}))
    BY <2>2, <2>4, Smaller
  <2>6. SumFunctionOnSet(f, s \ {FoldPick(s)}) \in Int
    BY <2>1, <2>5
  <2>. QED  BY <2>2, <2>3, <2>4, <2>6
<1>. QED  BY <1>1, Smaller

(* The elements may be taken in any order.                                   *)
LEMMA SumRemove ==
  ASSUME NEW U, IsFiniteSet(U), NEW f, \A x \in U : f[x] \in Int, NEW x \in U
  PROVE  SumFunctionOnSet(f, U) = f[x] + SumFunctionOnSet(f, U \ {x})
<1>. DEFINE Wrong(s) == \E y \in s : SumFunctionOnSet(f, s) # f[y] + SumFunctionOnSet(f, s \ {y})
            T == {n \in Nat : \E s \in SUBSET U : Cardinality(s) = n /\ Wrong(s)}
<1>1. T = {}
  <2>. SUFFICES ASSUME T # {}  PROVE FALSE
    OBVIOUS
  <2>1. PICK m \in T : \A j \in T : m <= j
    BY NatLeast
  <2>2. PICK s \in SUBSET U : Cardinality(s) = m /\ Wrong(s)
    BY <2>1
  <2>3. PICK y \in s : SumFunctionOnSet(f, s) # f[y] + SumFunctionOnSet(f, s \ {y})
    BY <2>2
  <2>4. PICK p \in s : p = FoldPick(s)
    BY Picked
  <2>5. SumFunctionOnSet(f, s) = f[p] + SumFunctionOnSet(f, s \ {p})
    BY <2>4, Smaller, SumStep
  <2>6. p # y
    BY <2>3, <2>5
  <2>7. Cardinality(s \ {p}) \in Nat /\ ~ (m <= Cardinality(s \ {p}))
    BY <2>2, Smaller
  <2>8. ~ Wrong(s \ {p})
    BY <2>1, <2>7
  <2>9. SumFunctionOnSet(f, s \ {p}) = f[y] + SumFunctionOnSet(f, (s \ {p}) \ {y})
    BY <2>6, <2>8
  <2>10. Cardinality(s \ {y}) \in Nat /\ ~ (m <= Cardinality(s \ {y}))
    BY <2>2, Smaller
  <2>11. ~ Wrong(s \ {y})
    BY <2>1, <2>10
  <2>12. SumFunctionOnSet(f, s \ {y}) = f[p] + SumFunctionOnSet(f, (s \ {y}) \ {p})
    BY <2>6, <2>11
  <2>13. PICK rest \in SUBSET U : rest = (s \ {y}) \ {p} /\ rest = (s \ {p}) \ {y}
    OBVIOUS
  <2>14. IsFiniteSet(rest) /\ \A z \in rest : f[z] \in Int
    BY Smaller
  <2>15. PICK a, b, c \in Int : a = f[p] /\ b = f[y] /\ c = SumFunctionOnSet(f, rest)
    BY <2>14, SumInt
  <2>16. SumFunctionOnSet(f, s) = a + (b + c)
    BY <2>5, <2>9, <2>13, <2>15
  <2>17. SumFunctionOnSet(f, s \ {y}) = a + c
    BY <2>12, <2>13, <2>15
  <2>18. SumFunctionOnSet(f, s) # b + (a + c)
    BY <2>3, <2>15, <2>17
  <2>. QED  BY <2>15, <2>16, <2>18
<1>2. ~ Wrong(U)
  BY <1>1, Smaller
<1>. QED  BY <1>2

(* Nothing adds up to nothing.                                              *)
LEMMA SumEmpty ==
  ASSUME NEW f
  PROVE  SumFunctionOnSet(f, {}) = 0
BY SumStep, FS_EmptySet

(* One element more adds its own.                                           *)
LEMMA SumAdd ==
  ASSUME NEW S, IsFiniteSet(S), NEW x, x \notin S, NEW f, \A y \in S \cup {x} : f[y] \in Int
  PROVE  SumFunctionOnSet(f, S \cup {x}) = SumFunctionOnSet(f, S) + f[x]
<1>1. IsFiniteSet(S \cup {x}) /\ (S \cup {x}) \ {x} = S
  BY FS_AddElement
<1>2. SumFunctionOnSet(f, S \cup {x}) = f[x] + SumFunctionOnSet(f, S)
  BY <1>1, SumRemove
<1>. QED  BY <1>2, SumInt

(* Only the values on the set count.                                         *)
LEMMA SumSame ==
  ASSUME NEW U, IsFiniteSet(U), NEW f, NEW g, \A x \in U : f[x] = g[x]
  PROVE  SumFunctionOnSet(f, U) = SumFunctionOnSet(g, U)
<1>. DEFINE T == {n \in Nat : \E s \in SUBSET U : Cardinality(s) = n
                                /\ SumFunctionOnSet(f, s) # SumFunctionOnSet(g, s)}
<1>1. T = {}
  <2>. SUFFICES ASSUME T # {}  PROVE FALSE
    OBVIOUS
  <2>1. PICK m \in T : \A j \in T : m <= j
    BY NatLeast
  <2>2. PICK s \in SUBSET U : Cardinality(s) = m /\ SumFunctionOnSet(f, s) # SumFunctionOnSet(g, s)
    BY <2>1
  <2>3. /\ SumFunctionOnSet(f, s) = IF s = {} THEN 0 ELSE f[FoldPick(s)] + SumFunctionOnSet(f, s \ {FoldPick(s)})
        /\ SumFunctionOnSet(g, s) = IF s = {} THEN 0 ELSE g[FoldPick(s)] + SumFunctionOnSet(g, s \ {FoldPick(s)})
    BY Smaller, SumStep
  <2>4. s # {} /\ FoldPick(s) \in s
    BY <2>2, <2>3, Picked
  <2>5. Cardinality(s \ {FoldPick(s)}) \in Nat /\ ~ (m <= Cardinality(s \ {FoldPick(s)}))
    BY <2>2, <2>4, Smaller
  <2>6. SumFunctionOnSet(f, s \ {FoldPick(s)}) = SumFunctionOnSet(g, s \ {FoldPick(s)})
    BY <2>1, <2>5
  <2>. QED  BY <2>2, <2>3, <2>4, <2>6
<1>. QED  BY <1>1, Smaller

(* One value changes, and the sum by as much.                                *)
LEMMA SumChange ==
  ASSUME NEW U, IsFiniteSet(U), NEW f, NEW g, NEW x \in U,
         \A y \in U : f[y] \in Int, g[x] \in Int, \A y \in U \ {x} : g[y] = f[y]
  PROVE  SumFunctionOnSet(g, U) = SumFunctionOnSet(f, U) + g[x] - f[x]
<1>1. IsFiniteSet(U \ {x}) /\ SumFunctionOnSet(f, U \ {x}) \in Int
  BY FS_RemoveElement, SumInt
<1>2. SumFunctionOnSet(f, U) = f[x] + SumFunctionOnSet(f, U \ {x})
  BY SumRemove
<1>3. SumFunctionOnSet(g, U) = g[x] + SumFunctionOnSet(g, U \ {x})
  <2>1. \A y \in U : g[y] \in Int
    OBVIOUS
  <2>. QED  BY <2>1, SumRemove
<1>4. SumFunctionOnSet(g, U \ {x}) = SumFunctionOnSet(f, U \ {x})
  BY <1>1, SumSame
<1>. QED  BY <1>1, <1>2, <1>3, <1>4

(* What is nothing does not count.                                           *)
LEMMA SumOfSubset ==
  ASSUME NEW U, IsFiniteSet(U), NEW f, \A x \in U : f[x] \in Int,
         NEW S \in SUBSET U, \A x \in U \ S : f[x] = 0
  PROVE  SumFunctionOnSet(f, S) = SumFunctionOnSet(f, U)
<1>. DEFINE T == {n \in Nat : \E s \in SUBSET U : /\ S \subseteq s /\ Cardinality(s) = n
                                /\ SumFunctionOnSet(f, s) # SumFunctionOnSet(f, S)}
<1>1. T = {}
  <2>. SUFFICES ASSUME T # {}  PROVE FALSE
    OBVIOUS
  <2>1. PICK m \in T : \A j \in T : m <= j
    BY NatLeast
  <2>2. PICK s \in SUBSET U : /\ S \subseteq s /\ Cardinality(s) = m
                              /\ SumFunctionOnSet(f, s) # SumFunctionOnSet(f, S)
    BY <2>1
  <2>3. PICK x \in s : x \notin S
    BY <2>2
  <2>4. SumFunctionOnSet(f, s) = f[x] + SumFunctionOnSet(f, s \ {x})
    BY Smaller, SumRemove
  <2>5. Cardinality(s \ {x}) \in Nat /\ ~ (m <= Cardinality(s \ {x}))
    BY <2>2, Smaller
  <2>6. SumFunctionOnSet(f, s \ {x}) = SumFunctionOnSet(f, S)
    BY <2>1, <2>2, <2>3, <2>5
  <2>7. SumFunctionOnSet(f, S) \in Int /\ f[x] = 0
    BY <2>3, Smaller, SumInt
  <2>. QED  BY <2>2, <2>4, <2>6, <2>7
<1>. QED  BY <1>1, Smaller

(* Sums are added term by term.                                              *)
LEMMA SumPlus ==
  ASSUME NEW U, IsFiniteSet(U), NEW f, NEW g, NEW h,
         \A x \in U : f[x] \in Int /\ g[x] \in Int /\ h[x] = f[x] + g[x]
  PROVE  SumFunctionOnSet(h, U) = SumFunctionOnSet(f, U) + SumFunctionOnSet(g, U)
<1>. DEFINE T == {n \in Nat : \E s \in SUBSET U : /\ Cardinality(s) = n
                     /\ SumFunctionOnSet(h, s) # SumFunctionOnSet(f, s) + SumFunctionOnSet(g, s)}
<1>1. T = {}
  <2>. SUFFICES ASSUME T # {}  PROVE FALSE
    OBVIOUS
  <2>1. PICK m \in T : \A j \in T : m <= j
    BY NatLeast
  <2>2. PICK s \in SUBSET U : /\ Cardinality(s) = m
                              /\ SumFunctionOnSet(h, s) # SumFunctionOnSet(f, s) + SumFunctionOnSet(g, s)
    BY <2>1
  <2>3. s # {}
    <3>1. /\ SumFunctionOnSet(f, {}) = 0 /\ SumFunctionOnSet(g, {}) = 0
          /\ SumFunctionOnSet(h, {}) = 0
      BY SumEmpty
    <3>. QED  BY <2>2, <3>1
  <2>4. PICK x \in s : TRUE
    BY <2>3
  <2>11. IsFiniteSet(s) /\ \A y \in s : f[y] \in Int /\ g[y] \in Int /\ h[y] \in Int
    BY Smaller
  <2>5. /\ SumFunctionOnSet(f, s) = f[x] + SumFunctionOnSet(f, s \ {x})
        /\ SumFunctionOnSet(g, s) = g[x] + SumFunctionOnSet(g, s \ {x})
    BY <2>11, SumRemove
  <2>6. SumFunctionOnSet(h, s) = h[x] + SumFunctionOnSet(h, s \ {x})
    BY <2>11, SumRemove
  <2>7. Cardinality(s \ {x}) \in Nat /\ ~ (m <= Cardinality(s \ {x}))
    BY <2>2, Smaller
  <2>8. SumFunctionOnSet(h, s \ {x}) = SumFunctionOnSet(f, s \ {x}) + SumFunctionOnSet(g, s \ {x})
    BY <2>1, <2>7
  <2>9. SumFunctionOnSet(f, s \ {x}) \in Int /\ SumFunctionOnSet(g, s \ {x}) \in Int
    BY Smaller, SumInt
  <2>10. f[x] \in Int /\ g[x] \in Int /\ h[x] = f[x] + g[x]
    OBVIOUS
  <2>. QED  BY <2>2, <2>5, <2>6, <2>8, <2>9, <2>10
<1>. QED  BY <1>1, Smaller

(* Nothing but zeros adds up to nothing.                                    *)
LEMMA SumZero ==
  ASSUME NEW U, IsFiniteSet(U), NEW f, \A x \in U : f[x] = 0
  PROVE  SumFunctionOnSet(f, U) = 0
<1>1. SumFunctionOnSet(f, {}) = SumFunctionOnSet(f, U)
  <2>1. {} \in SUBSET U /\ \A x \in U : f[x] \in Int
    OBVIOUS
  <2>2. \A x \in U \ {} : f[x] = 0
    OBVIOUS
  <2>. QED  BY <2>1, <2>2, SumOfSubset
<1>. QED  BY <1>1, SumEmpty

(* The difference of two sums is the sum of the differences.                *)
LEMMA SumMinus ==
  ASSUME NEW U, IsFiniteSet(U), NEW f, NEW g, NEW h,
         \A x \in U : f[x] \in Int /\ g[x] \in Int /\ h[x] = f[x] - g[x]
  PROVE  SumFunctionOnSet(h, U) = SumFunctionOnSet(f, U) - SumFunctionOnSet(g, U)
<1>1. \A x \in U : h[x] \in Int /\ g[x] \in Int /\ f[x] = h[x] + g[x]
  OBVIOUS
<1>2. SumFunctionOnSet(f, U) = SumFunctionOnSet(h, U) + SumFunctionOnSet(g, U)
  BY <1>1, SumPlus
<1>. QED  BY <1>1, <1>2, SumInt

(* One term only.                                                            *)
LEMMA SumOfOne ==
  ASSUME NEW U, IsFiniteSet(U), NEW f, NEW x \in U, f[x] \in Int, \A y \in U \ {x} : f[y] = 0
  PROVE  SumFunctionOnSet(f, U) = f[x]
<1>1. \A y \in U : f[y] \in Int
  OBVIOUS
<1>2. SumFunctionOnSet(f, U \ {x}) = 0
  BY FS_RemoveElement, SumZero
<1>. QED  BY <1>1, <1>2, SumRemove

(* Rows and columns: the terms of a table may be added by rows or by columns.  *)
Transposed(m, t, U, V) == \A x \in U, y \in V : m[x][y] \in Int /\ t[y][x] = m[x][y]
RowSums(rows, m, U, V) == \A x \in U : rows[x] = SumFunctionOnSet(m[x], V)

(* The sums of the rows and of the columns of a table add up to the same. *)
LEMMA SumSwap ==
  ASSUME NEW U, IsFiniteSet(U), NEW V, IsFiniteSet(V), NEW m, NEW t, Transposed(m, t, U, V),
         NEW rows, RowSums(rows, m, U, V), NEW columns, RowSums(columns, t, V, U)
  PROVE  SumFunctionOnSet(rows, U) = SumFunctionOnSet(columns, V)
<1>. USE DEF Transposed, RowSums
<1>. DEFINE Column(y) == [x \in U |-> m[x][y]]
            Upto(s) == [y \in V |-> SumFunctionOnSet(Column(y), s)]
            T == {n \in Nat : \E s \in SUBSET U : /\ Cardinality(s) = n
                     /\ SumFunctionOnSet(rows, s) # SumFunctionOnSet(Upto(s), V)}
<1>1. \A x \in U : rows[x] \in Int
  <2>. SUFFICES ASSUME NEW x \in U  PROVE rows[x] \in Int
    OBVIOUS
  <2>1. \A y \in V : m[x][y] \in Int
    OBVIOUS
  <2>2. SumFunctionOnSet(m[x], V) \in Int
    BY <2>1, SumInt
  <2>. QED  BY <2>2
<1>2. ASSUME NEW s \in SUBSET U, NEW y \in V
      PROVE  SumFunctionOnSet(Column(y), s) \in Int
  <2>1. IsFiniteSet(s) /\ \A x \in s : Column(y)[x] \in Int
    BY Smaller
  <2>. HIDE DEF Column
  <2>. QED  BY <2>1, SumInt
<1>3. T = {}
  <2>. SUFFICES ASSUME T # {}  PROVE FALSE
    OBVIOUS
  <2>1. PICK n \in T : \A j \in T : n <= j
    BY NatLeast
  <2>2. PICK s \in SUBSET U : /\ Cardinality(s) = n
                              /\ SumFunctionOnSet(rows, s) # SumFunctionOnSet(Upto(s), V)
    BY <2>1
  <2>3. s # {}
    <3>1. SumFunctionOnSet(rows, {}) = 0
      BY SumEmpty
    <3>2. \A y \in V : Upto({})[y] = SumFunctionOnSet(Column(y), {})
      OBVIOUS
    <3>3. \A y \in V : SumFunctionOnSet(Column(y), {}) = 0
      BY SumEmpty
    <3>4. \A y \in V : Upto({})[y] = 0
      BY <3>2, <3>3
    <3>. HIDE DEF Upto
    <3>5. SumFunctionOnSet(Upto({}), V) = 0
      BY <3>4, SumZero
    <3>. QED  BY <2>2, <3>1, <3>5
  <2>4. PICK x \in s : TRUE
    BY <2>3
  <2>5. PICK rest \in SUBSET U : rest = s \ {x}
    OBVIOUS
  <2>6. IsFiniteSet(s) /\ Cardinality(rest) \in Nat /\ ~ (n <= Cardinality(rest))
    BY <2>2, <2>5, Smaller
  <2>7. SumFunctionOnSet(rows, rest) = SumFunctionOnSet(Upto(rest), V)
    BY <2>1, <2>6
  <2>8. SumFunctionOnSet(rows, s) = rows[x] + SumFunctionOnSet(rows, rest)
    <3>1. \A z \in s : rows[z] \in Int
      BY <1>1
    <3>2. IsFiniteSet(s)
      BY <2>6
    <3>. HIDE DEF T, Upto, Column
    <3>3. SumFunctionOnSet(rows, s) = rows[x] + SumFunctionOnSet(rows, s \ {x})
      BY <3>1, <3>2, SumRemove
    <3>. QED  BY <2>5, <3>3
  <2>9. ASSUME NEW y \in V
        PROVE  /\ m[x][y] \in Int /\ Upto(rest)[y] \in Int
               /\ Upto(s)[y] = m[x][y] + Upto(rest)[y]
    <3>1. \A z \in s : Column(y)[z] \in Int
      OBVIOUS
    <3>2. Column(y)[x] = m[x][y] /\ m[x][y] \in Int
      OBVIOUS
    <3>3. /\ Upto(s)[y] = SumFunctionOnSet(Column(y), s)
          /\ Upto(rest)[y] = SumFunctionOnSet(Column(y), rest)
      OBVIOUS
    <3>4. Upto(rest)[y] \in Int
      BY <1>2, <3>3
    <3>. HIDE DEF Column, Upto
    <3>5. SumFunctionOnSet(Column(y), s) = Column(y)[x] + SumFunctionOnSet(Column(y), s \ {x})
      BY <2>6, <3>1, SumRemove
    <3>. QED  BY <2>5, <3>2, <3>3, <3>4, <3>5
  <2>. HIDE DEF Upto
  <2>10. SumFunctionOnSet(Upto(s), V) = SumFunctionOnSet(m[x], V) + SumFunctionOnSet(Upto(rest), V)
    BY <2>9, SumPlus
  <2>. QED  BY <2>2, <2>7, <2>8, <2>10
<1>4. SumFunctionOnSet(rows, U) = SumFunctionOnSet(Upto(U), V)
  <2>1. Cardinality(U) \in Nat /\ U \in SUBSET U
    BY Smaller
  <2>. QED  BY <1>3, <2>1
<1>5. ASSUME NEW y \in V  PROVE Upto(U)[y] = columns[y]
  <2>1. \A x \in U : Column(y)[x] = t[y][x]
    OBVIOUS
  <2>2. Upto(U)[y] = SumFunctionOnSet(Column(y), U)
    OBVIOUS
  <2>. HIDE DEF Column, Upto
  <2>3. SumFunctionOnSet(Column(y), U) = SumFunctionOnSet(t[y], U)
    BY <2>1, SumSame
  <2>. QED  BY <2>2, <2>3
<1>. HIDE DEF Upto
<1>6. SumFunctionOnSet(Upto(U), V) = SumFunctionOnSet(columns, V)
  BY <1>5, SumSame
<1>. QED  BY <1>4, <1>6

(* A sum over some of the elements is one over all, with nothing for the others. *)
LEMMA SumFiltered ==
  ASSUME NEW U, IsFiniteSet(U), NEW f, NEW S \in SUBSET U, \A x \in S : f[x] \in Int,
         NEW g, \A x \in U : g[x] = IF x \in S THEN f[x] ELSE 0
  PROVE  SumFunctionOnSet(f, S) = SumFunctionOnSet(g, U)
<1>1. IsFiniteSet(S) /\ \A x \in S : f[x] = g[x]
  BY Smaller
<1>2. SumFunctionOnSet(f, S) = SumFunctionOnSet(g, S)
  BY <1>1, SumSame
<1>3. (\A x \in U : g[x] \in Int) /\ \A x \in U \ S : g[x] = 0
  OBVIOUS
<1>4. SumFunctionOnSet(g, S) = SumFunctionOnSet(g, U)
  BY <1>3, SumOfSubset
<1>. QED  BY <1>2, <1>4

(* Sets that share nothing add up by themselves.                            *)
LEMMA SumUnion ==
  ASSUME NEW S, IsFiniteSet(S), NEW R, IsFiniteSet(R), S \cap R = {},
         NEW f, \A x \in S \cup R : f[x] \in Int
  PROVE  SumFunctionOnSet(f, S \cup R) = SumFunctionOnSet(f, S) + SumFunctionOnSet(f, R)
<1>. DEFINE U == S \cup R
            g == [x \in U |-> IF x \in S THEN f[x] ELSE 0]
            h == [x \in U |-> IF x \in R THEN f[x] ELSE 0]
<1>1. IsFiniteSet(U)
  BY FS_Union
<1>2. /\ \A x \in U : g[x] = IF x \in S THEN f[x] ELSE 0
      /\ \A x \in U : h[x] = IF x \in R THEN f[x] ELSE 0
      /\ \A x \in U : g[x] \in Int /\ h[x] \in Int /\ f[x] = g[x] + h[x]
  OBVIOUS
<1>3. S \in SUBSET U /\ R \in SUBSET U /\ \A x \in U : f[x] \in Int
  OBVIOUS
<1>. HIDE DEF U, g, h
<1>4. SumFunctionOnSet(f, S) = SumFunctionOnSet(g, U)
  BY <1>1, <1>2, <1>3, SumFiltered
<1>5. SumFunctionOnSet(f, R) = SumFunctionOnSet(h, U)
  BY <1>1, <1>2, <1>3, SumFiltered
<1>6. SumFunctionOnSet(f, U) = SumFunctionOnSet(g, U) + SumFunctionOnSet(h, U)
  BY <1>1, <1>2, SumPlus
<1>. QED  BY <1>4, <1>5, <1>6 DEF U

(* Each element has a key, and each key the group of the elements that have it. *)
Grouping(group, key, U, V) ==
  /\ \A x \in U : key[x] \in V
  /\ \A y \in V : group[y] = {x \in U : key[x] = y}

(* The sums of the groups add up to the sum of all.                          *)
LEMMA SumGrouped ==
  ASSUME NEW U, IsFiniteSet(U), NEW V, IsFiniteSet(V), NEW f, \A x \in U : f[x] \in Int,
         NEW group, NEW key, Grouping(group, key, U, V),
         NEW g, \A y \in V : g[y] = SumFunctionOnSet(f, group[y])
  PROVE  SumFunctionOnSet(g, V) = SumFunctionOnSet(f, U)
<1>1. PICK m : m = [y \in V |-> [x \in U |-> IF key[x] = y THEN f[x] ELSE 0]]
  OBVIOUS
<1>2. PICK t : t = [x \in U |-> [y \in V |-> m[y][x]]]
  OBVIOUS
<1>3. \A y \in V, x \in U : m[y][x] = IF key[x] = y THEN f[x] ELSE 0
  BY <1>1
<1>4. \A y \in V, x \in U : m[y][x] \in Int
  BY <1>3
<1>5. \A y \in V, x \in U : t[x][y] = m[y][x]
  BY <1>2
<1>6. ASSUME NEW y \in V  PROVE g[y] = SumFunctionOnSet(m[y], U)
  <2>1. PICK S \in SUBSET U : S = {x \in U : key[x] = y} /\ S = group[y]
    BY DEF Grouping
  <2>2. /\ \A x \in U : m[y][x] = IF x \in S THEN f[x] ELSE 0
        /\ \A x \in S : f[x] \in Int
    BY <1>3, <2>1
  <2>3. SumFunctionOnSet(f, S) = SumFunctionOnSet(m[y], U)
    BY <2>2, SumFiltered
  <2>. QED  BY <2>1, <2>3
<1>7. ASSUME NEW x \in U  PROVE f[x] = SumFunctionOnSet(t[x], V)
  <2>1. PICK y \in V : y = key[x]
    BY DEF Grouping
  <2>2. t[x][y] = f[x] /\ t[x][y] \in Int /\ \A z \in V \ {y} : t[x][z] = 0
    BY <1>3, <1>5, <2>1
  <2>3. SumFunctionOnSet(t[x], V) = t[x][y]
    BY <2>2, SumOfOne
  <2>. QED  BY <2>2, <2>3
<1>8. Transposed(m, t, V, U) /\ RowSums(g, m, V, U) /\ RowSums(f, t, U, V)
  BY <1>4, <1>5, <1>6, <1>7 DEF Transposed, RowSums
<1>. QED  BY <1>8, SumSwap

(* The terms under other names.                                             *)
LEMMA SumRenamed ==
  ASSUME NEW U, IsFiniteSet(U), NEW name, \A x, y \in U : name[x] = name[y] => x = y,
         NEW g, \A x \in U : g[x] \in Int,
         NEW f, \A x \in U : f[name[x]] = g[x]
  PROVE  SumFunctionOnSet(f, {name[x] : x \in U}) = SumFunctionOnSet(g, U)
<1>1. PICK V : V = {name[x] : x \in U}
  OBVIOUS
<1>2. IsFiniteSet(V)
  <2>1. [x \in U |-> name[x]] \in Surjection(U, V)
    BY <1>1 DEF Surjection
  <2>. QED  BY <2>1, FS_Surjection
<1>3. PICK group : group = [y \in V |-> {x \in U : name[x] = y}]
  OBVIOUS
<1>4. Grouping(group, name, U, V)
  BY <1>1, <1>3 DEF Grouping
<1>5. ASSUME NEW y \in V  PROVE f[y] = SumFunctionOnSet(g, group[y])
  <2>1. PICK x \in U : y = name[x]
    BY <1>1
  <2>2. group[y] = {x}
    BY <1>4, <2>1 DEF Grouping
  <2>3. IsFiniteSet({x}) /\ x \in {x} /\ g[x] \in Int /\ \A z \in {x} \ {x} : g[z] = 0
    BY FS_Singleton
  <2>4. SumFunctionOnSet(g, {x}) = g[x]
    BY <2>3, SumOfOne
  <2>. QED  BY <2>1, <2>2, <2>4
<1>6. SumFunctionOnSet(f, V) = SumFunctionOnSet(g, U)
  BY <1>2, <1>4, <1>5, SumGrouped
<1>. QED  BY <1>1, <1>6

(* A sum of natural numbers is one, and not below any of them.               *)
LEMMA SumNat ==
  ASSUME NEW U, IsFiniteSet(U), NEW f, \A x \in U : f[x] \in Nat
  PROVE  /\ SumFunctionOnSet(f, U) \in Nat
         /\ \A x \in U : f[x] <= SumFunctionOnSet(f, U)
<1>. DEFINE T == {n \in Nat : \E s \in SUBSET U : Cardinality(s) = n /\ SumFunctionOnSet(f, s) \notin Nat}
<1>1. T = {}
  <2>. SUFFICES ASSUME T # {}  PROVE FALSE
    OBVIOUS
  <2>1. PICK m \in T : \A j \in T : m <= j
    BY NatLeast
  <2>2. PICK s \in SUBSET U : Cardinality(s) = m /\ SumFunctionOnSet(f, s) \notin Nat
    BY <2>1
  <2>3. SumFunctionOnSet(f, s) = IF s = {} THEN 0 ELSE f[FoldPick(s)] + SumFunctionOnSet(f, s \ {FoldPick(s)})
    BY Smaller, SumStep
  <2>4. s # {} /\ FoldPick(s) \in s
    BY <2>2, <2>3, Picked
  <2>5. Cardinality(s \ {FoldPick(s)}) \in Nat /\ ~ (m <= Cardinality(s \ {FoldPick(s)}))
    BY <2>2, <2>4, Smaller
  <2>6. SumFunctionOnSet(f, s \ {FoldPick(s)}) \in Nat
    BY <2>1, <2>5
  <2>. QED  BY <2>2, <2>3, <2>4, <2>6
<1>2. \A s \in SUBSET U : SumFunctionOnSet(f, s) \in Nat
  BY <1>1, Smaller
<1>3. ASSUME NEW x \in U  PROVE f[x] <= SumFunctionOnSet(f, U)
  <2>1. \A y \in U : f[y] \in Int
    OBVIOUS
  <2>2. SumFunctionOnSet(f, U) = f[x] + SumFunctionOnSet(f, U \ {x})
    BY <2>1, SumRemove
  <2>3. SumFunctionOnSet(f, U \ {x}) \in Nat /\ f[x] \in Nat
    BY <1>2
  <2>. QED  BY <2>2, <2>3
<1>. QED  BY <1>2, <1>3

(* A multiple of a sum is the sum of the multiples.                          *)
LEMMA SumTimes ==
  ASSUME NEW U, IsFiniteSet(U), NEW c \in Int, NEW f, NEW h, \A x \in U : f[x] \in Int /\ h[x] = c * f[x]
  PROVE  SumFunctionOnSet(h, U) = c * SumFunctionOnSet(f, U)
<1>. DEFINE T == {n \in Nat : \E s \in SUBSET U : /\ Cardinality(s) = n
                                /\ SumFunctionOnSet(h, s) # c * SumFunctionOnSet(f, s)}
<1>1. T = {}
  <2>. SUFFICES ASSUME T # {}  PROVE FALSE
    OBVIOUS
  <2>1. PICK m \in T : \A j \in T : m <= j
    BY NatLeast
  <2>2. PICK s \in SUBSET U : Cardinality(s) = m /\ SumFunctionOnSet(h, s) # c * SumFunctionOnSet(f, s)
    BY <2>1
  <2>3. s # {}
    <3>1. SumFunctionOnSet(f, {}) = 0 /\ SumFunctionOnSet(h, {}) = 0
      BY SumEmpty
    <3>. QED  BY <2>2, <3>1
  <2>4. PICK x \in s : TRUE
    BY <2>3
  <2>5. \A y \in s : f[y] \in Int /\ h[y] = c * f[y] /\ h[y] \in Int
    OBVIOUS
  <2>6. SumFunctionOnSet(f, s) = f[x] + SumFunctionOnSet(f, s \ {x})
    BY <2>5, Smaller, SumRemove
  <2>7. SumFunctionOnSet(h, s) = h[x] + SumFunctionOnSet(h, s \ {x})
    BY <2>5, Smaller, SumRemove
  <2>8. Cardinality(s \ {x}) \in Nat /\ ~ (m <= Cardinality(s \ {x}))
    BY <2>2, Smaller
  <2>9. SumFunctionOnSet(h, s \ {x}) = c * SumFunctionOnSet(f, s \ {x})
    BY <2>1, <2>8
  <2>10. PICK r \in Int : r = SumFunctionOnSet(f, s \ {x})
    BY <2>5, Smaller, SumInt
  <2>11. PICK p \in Int : p = f[x]
    BY <2>5
  <2>12. c * (p + r) = c * p + c * r
    OBVIOUS
  <2>13. SumFunctionOnSet(h, s) = c * p + c * r /\ SumFunctionOnSet(f, s) = p + r
    BY <2>4, <2>5, <2>6, <2>7, <2>9, <2>10, <2>11
  <2>. QED  BY <2>2, <2>12, <2>13
<1>. QED  BY <1>1, Smaller

(* Terms within c of zero add up to as many times c at most.                 *)
LEMMA SumWithin ==
  ASSUME NEW U, IsFiniteSet(U), NEW c \in Nat, NEW f, \A x \in U : f[x] \in Int /\ -c <= f[x] /\ f[x] <= c
  PROVE  /\ - (c * Cardinality(U)) <= SumFunctionOnSet(f, U)
         /\ SumFunctionOnSet(f, U) <= c * Cardinality(U)
<1>. DEFINE Within(s) == /\ - (c * Cardinality(s)) <= SumFunctionOnSet(f, s)
                         /\ SumFunctionOnSet(f, s) <= c * Cardinality(s)
            T == {n \in Nat : \E s \in SUBSET U : Cardinality(s) = n /\ ~ Within(s)}
<1>1. T = {}
  <2>. SUFFICES ASSUME T # {}  PROVE FALSE
    OBVIOUS
  <2>1. PICK m \in T : \A j \in T : m <= j
    BY NatLeast
  <2>2. PICK s \in SUBSET U : Cardinality(s) = m /\ ~ Within(s)
    BY <2>1
  <2>3. s # {}
    <3>1. SumFunctionOnSet(f, {}) = 0 /\ Cardinality({}) = 0
      BY SumEmpty, FS_EmptySet
    <3>2. c * Cardinality({}) = 0
      BY <3>1
    <3>3. Within({})
      BY <3>1, <3>2
    <3>. HIDE DEF Within
    <3>. QED  BY <2>2, <3>3
  <2>4. PICK x \in s : TRUE
    BY <2>3
  <2>5. \A y \in s : f[y] \in Int
    OBVIOUS
  <2>6. SumFunctionOnSet(f, s) = f[x] + SumFunctionOnSet(f, s \ {x})
    BY <2>5, Smaller, SumRemove
  <2>7. IsFiniteSet(s) /\ m \in Nat
    BY Smaller
  <2>8. Cardinality(s \ {x}) = m - 1
    BY <2>2, <2>4, <2>7, FS_RemoveElement
  <2>9. m - 1 \in Nat /\ ~ (m <= m - 1)
    BY <2>2, <2>4, <2>8, Smaller
  <2>10. Within(s \ {x})
    <3>. HIDE DEF Within
    <3>. QED  BY <2>1, <2>8, <2>9
  <2>11. PICK r \in Int : r = SumFunctionOnSet(f, s \ {x})
    BY <2>5, Smaller, SumInt
  <2>12. PICK p \in Int : p = f[x] /\ -c <= p /\ p <= c
    BY <2>5
  <2>13. c * (m - 1) = c * m - c
    BY <2>7
  <2>14. c * m \in Int /\ - (c * m - c) <= r /\ r <= c * m - c
    BY <2>7, <2>8, <2>10, <2>11, <2>13
  <2>15. SumFunctionOnSet(f, s) = p + r
    BY <2>6, <2>11, <2>12
  <2>. QED  BY <2>2, <2>12, <2>14, <2>15
<1>2. \A s \in SUBSET U : Cardinality(s) \in Nat
  BY Smaller
<1>. QED  BY <1>1, <1>2

(* Larger terms add up to no less.                                           *)
LEMMA SumAtMost ==
  ASSUME NEW U, IsFiniteSet(U), NEW f, NEW g, \A x \in U : f[x] \in Int /\ g[x] \in Int /\ f[x] <= g[x]
  PROVE  SumFunctionOnSet(f, U) <= SumFunctionOnSet(g, U)
<1>1. PICK h : h = [x \in U |-> g[x] - f[x]]
  OBVIOUS
<1>2. \A x \in U : g[x] \in Int /\ f[x] \in Int /\ h[x] = g[x] - f[x]
  BY <1>1
<1>3. \A x \in U : h[x] \in Nat
  BY <1>2
<1>4. SumFunctionOnSet(h, U) = SumFunctionOnSet(g, U) - SumFunctionOnSet(f, U)
  BY <1>2, SumMinus
<1>5. SumFunctionOnSet(h, U) \in Nat
  BY <1>3, SumNat
<1>6. SumFunctionOnSet(f, U) \in Int /\ SumFunctionOnSet(g, U) \in Int
  BY SumInt
<1>. QED  BY <1>4, <1>5, <1>6

(* Sums are weighted term by term.                                           *)
LEMMA SumWeighted ==
  ASSUME NEW U, IsFiniteSet(U), NEW a \in Int, NEW b \in Int, NEW f, NEW g, NEW h,
         \A x \in U : f[x] \in Int /\ g[x] \in Int /\ h[x] = a * f[x] - b * g[x]
  PROVE  SumFunctionOnSet(h, U) = a * SumFunctionOnSet(f, U) - b * SumFunctionOnSet(g, U)
<1>1. PICK p : p = [x \in U |-> a * f[x]]
  OBVIOUS
<1>2. PICK q : q = [x \in U |-> b * g[x]]
  OBVIOUS
<1>3. \A x \in U : f[x] \in Int /\ p[x] = a * f[x]
  BY <1>1
<1>4. \A x \in U : g[x] \in Int /\ q[x] = b * g[x]
  BY <1>2
<1>5. \A x \in U : p[x] \in Int /\ q[x] \in Int /\ h[x] = p[x] - q[x]
  BY <1>3, <1>4
<1>6. SumFunctionOnSet(p, U) = a * SumFunctionOnSet(f, U)
  BY <1>3, SumTimes
<1>7. SumFunctionOnSet(q, U) = b * SumFunctionOnSet(g, U)
  BY <1>4, SumTimes
<1>8. SumFunctionOnSet(h, U) = SumFunctionOnSet(p, U) - SumFunctionOnSet(q, U)
  BY <1>5, SumMinus
<1>. QED  BY <1>6, <1>7, <1>8

(* The values of a function on a finite set are finitely many.              *)
LEMMA FiniteValues ==
  ASSUME NEW U, IsFiniteSet(U), NEW f
  PROVE  IsFiniteSet({f[x] : x \in U})
<1>1. [x \in U |-> f[x]] \in Surjection(U, {f[x] : x \in U})
  BY DEF Surjection
<1>. QED  BY <1>1, FS_Surjection

(* Documents S with lines L[d], each of a value and of a key in V: the rows of a
   table by keys, and the totals by documents. *)
Lined(S, L, V, val, key) ==
  \A d \in S : IsFiniteSet(L[d]) /\ \A l \in L[d] : val[d][l] \in Int /\ key[d][l] \in V
RowOf(S, L, val, key, v) ==
  SumFunctionOnSet([d \in S |-> SumFunctionOnSet(val[d], {l \in L[d] : key[d][l] = v})], S)

(* The rows add up to the totals.                                            *)
LEMMA SumOfRows ==
  ASSUME NEW S, IsFiniteSet(S), NEW V, IsFiniteSet(V), NEW L, NEW val, NEW key, Lined(S, L, V, val, key),
         NEW rows, \A v \in V : rows[v] = RowOf(S, L, val, key, v),
         NEW total, \A d \in S : total[d] = SumFunctionOnSet(val[d], L[d])
  PROVE  /\ SumFunctionOnSet(rows, V) = SumFunctionOnSet(total, S)
         /\ \A v \in V : rows[v] \in Int
<1>1. PICK group : group = [d \in S |-> [v \in V |-> {l \in L[d] : key[d][l] = v}]]
  OBVIOUS
<1>2. PICK m : m = [d \in S |-> [v \in V |-> SumFunctionOnSet(val[d], group[d][v])]]
  OBVIOUS
<1>3. PICK t : t = [v \in V |-> [d \in S |-> m[d][v]]]
  OBVIOUS
<1>4. \A d \in S, v \in V : group[d][v] = {l \in L[d] : key[d][l] = v}
  BY <1>1
<1>5. \A d \in S, v \in V : m[d][v] = SumFunctionOnSet(val[d], group[d][v])
  BY <1>2
<1>6. \A d \in S, v \in V : m[d][v] \in Int
  <2>. SUFFICES ASSUME NEW d \in S, NEW v \in V  PROVE m[d][v] \in Int
    OBVIOUS
  <2>1. PICK G : G = group[d][v]
    OBVIOUS
  <2>2. IsFiniteSet(L[d]) /\ G \in SUBSET L[d] /\ \A l \in G : val[d][l] \in Int
    BY <1>4, <2>1 DEF Lined
  <2>3. IsFiniteSet(G)
    BY <2>2, FS_Subset
  <2>4. SumFunctionOnSet(val[d], G) \in Int
    BY <2>2, <2>3, SumInt
  <2>. QED  BY <1>5, <2>1, <2>4
<1>7. Transposed(m, t, S, V)
  BY <1>3, <1>6 DEF Transposed
<1>8. RowSums(total, m, S, V)
  <2>. SUFFICES ASSUME NEW d \in S  PROVE total[d] = SumFunctionOnSet(m[d], V)
    BY DEF RowSums
  <2>1. PICK U : U = L[d]
    OBVIOUS
  <2>2. PICK f : f = val[d]
    OBVIOUS
  <2>3. PICK k : k = key[d]
    OBVIOUS
  <2>4. PICK g : g = group[d]
    OBVIOUS
  <2>5. PICK n : n = m[d]
    OBVIOUS
  <2>6. IsFiniteSet(U) /\ \A l \in U : f[l] \in Int
    BY <2>1, <2>2 DEF Lined
  <2>7. Grouping(g, k, U, V)
    BY <1>4, <2>1, <2>3, <2>4 DEF Grouping, Lined
  <2>8. \A v \in V : n[v] = SumFunctionOnSet(f, g[v])
    BY <1>5, <2>2, <2>4, <2>5
  <2>9. SumFunctionOnSet(n, V) = SumFunctionOnSet(f, U)
    BY <2>6, <2>7, <2>8, SumGrouped
  <2>. QED  BY <2>1, <2>2, <2>5, <2>9
<1>9. ASSUME NEW v \in V  PROVE rows[v] = SumFunctionOnSet(t[v], S)
  <2>1. t[v] = [d \in S |-> SumFunctionOnSet(val[d], {l \in L[d] : key[d][l] = v})]
    BY <1>2, <1>3, <1>4
  <2>. QED  BY <2>1 DEF RowOf
<1>10. RowSums(rows, t, V, S)
  BY <1>9 DEF RowSums
<1>11. SumFunctionOnSet(total, S) = SumFunctionOnSet(rows, V)
  BY <1>7, <1>8, <1>10, SumSwap
<1>12. ASSUME NEW v \in V  PROVE rows[v] \in Int
  <2>1. PICK f : f = t[v]
    OBVIOUS
  <2>2. \A d \in S : f[d] \in Int
    BY <1>3, <1>6, <2>1
  <2>. QED  BY <1>9, <2>1, <2>2, SumInt
<1>. QED  BY <1>11, <1>12

RowsAre(rows, W, S, L, val, key) == \A v \in W : rows[v] = RowOf(S, L, val, key, v)
LinesAre(len, S, L) == \A d \in S : len[d] = Cardinality(L[d])
LinesWithin(S, L, val, c) == \A d \in S : \A l \in L[d] : -c <= val[d][l] /\ val[d][l] <= c

(* Values within c of zero: whichever rows are taken, they add up to as many times
   c as there are lines at most. *)
LEMMA RowsWithin ==
  ASSUME NEW S, IsFiniteSet(S), NEW V, IsFiniteSet(V), NEW L, NEW val, NEW key, Lined(S, L, V, val, key),
         NEW c \in Nat, LinesWithin(S, L, val, c),
         NEW W \in SUBSET V,
         NEW rows, RowsAre(rows, W, S, L, val, key),
         NEW len, LinesAre(len, S, L)
  PROVE  /\ - (c * SumFunctionOnSet(len, S)) <= SumFunctionOnSet(rows, W)
         /\ SumFunctionOnSet(rows, W) <= c * SumFunctionOnSet(len, S)
         /\ SumFunctionOnSet(len, S) \in Nat
<1>1. PICK kept : kept = [d \in S |-> [l \in L[d] |-> IF key[d][l] \in W THEN val[d][l] ELSE 0]]
  OBVIOUS
<1>2. \A d \in S : \A l \in L[d] : /\ kept[d][l] = IF key[d][l] \in W THEN val[d][l] ELSE 0
                                 /\ kept[d][l] \in Int /\ -c <= kept[d][l] /\ kept[d][l] <= c
  BY <1>1 DEF Lined, LinesWithin
<1>3. Lined(S, L, V, kept, key)
  BY <1>2 DEF Lined
<1>4. PICK all : all = [v \in V |-> RowOf(S, L, kept, key, v)]
  OBVIOUS
<1>5. PICK total : total = [d \in S |-> SumFunctionOnSet(kept[d], L[d])]
  OBVIOUS
<1>6. (\A v \in V : all[v] = RowOf(S, L, kept, key, v)) /\ \A d \in S : total[d] = SumFunctionOnSet(kept[d], L[d])
  BY <1>4, <1>5
<1>7. SumFunctionOnSet(all, V) = SumFunctionOnSet(total, S) /\ \A v \in V : all[v] \in Int
  BY <1>3, <1>6, SumOfRows
<1>8. ASSUME NEW v \in V, NEW d \in S, NEW G, G = {l \in L[d] : key[d][l] = v}
      PROVE  SumFunctionOnSet(kept[d], G) = IF v \in W THEN SumFunctionOnSet(val[d], G) ELSE 0
  <2>1. PICK f : f = kept[d]
    OBVIOUS
  <2>2. PICK g : g = val[d]
    OBVIOUS
  <2>3. IsFiniteSet(L[d]) /\ G \in SUBSET L[d]
    BY <1>8 DEF Lined
  <2>4. IsFiniteSet(G)
    BY <2>3, FS_Subset
  <2>5. CASE v \in W
    <3>1. \A l \in G : f[l] = g[l]
      BY <1>2, <1>8, <2>1, <2>2, <2>5
    <3>2. SumFunctionOnSet(f, G) = SumFunctionOnSet(g, G)
      BY <2>4, <3>1, SumSame
    <3>. QED  BY <2>1, <2>2, <2>5, <3>2
  <2>6. CASE v \notin W
    <3>1. \A l \in G : f[l] = 0
      BY <1>2, <1>8, <2>1, <2>6
    <3>2. SumFunctionOnSet(f, G) = 0
      BY <2>4, <3>1, SumZero
    <3>. QED  BY <2>1, <2>6, <3>2
  <2>. QED  BY <2>5, <2>6
<1>9. ASSUME NEW v \in W  PROVE all[v] = rows[v]
  <2>1. [d \in S |-> SumFunctionOnSet(kept[d], {l \in L[d] : key[d][l] = v})]
        = [d \in S |-> SumFunctionOnSet(val[d], {l \in L[d] : key[d][l] = v})]
    BY <1>8
  <2>2. RowOf(S, L, kept, key, v) = RowOf(S, L, val, key, v)
    BY <2>1 DEF RowOf
  <2>. QED  BY <1>6, <2>2 DEF RowsAre
<1>10. ASSUME NEW v \in V \ W  PROVE all[v] = 0
  <2>1. PICK h : h = [d \in S |-> SumFunctionOnSet(kept[d], {l \in L[d] : key[d][l] = v})]
    OBVIOUS
  <2>2. \A d \in S : h[d] = 0
    BY <1>8, <2>1
  <2>3. SumFunctionOnSet(h, S) = 0
    BY <2>2, SumZero
  <2>. QED  BY <1>6, <2>1, <2>3 DEF RowOf
<1>11. SumFunctionOnSet(rows, W) = SumFunctionOnSet(total, S)
  <2>1. IsFiniteSet(W)
    BY FS_Subset
  <2>2. SumFunctionOnSet(rows, W) = SumFunctionOnSet(all, W)
    BY <1>9, <2>1, SumSame
  <2>3. SumFunctionOnSet(all, W) = SumFunctionOnSet(all, V)
    BY <1>7, <1>10, SumOfSubset
  <2>. QED  BY <1>7, <2>2, <2>3
<1>12. \A d \in S : total[d] \in Int /\ len[d] \in Nat /\ - (c * len[d]) <= total[d] /\ total[d] <= c * len[d]
  <2>. SUFFICES ASSUME NEW d \in S
       PROVE  total[d] \in Int /\ len[d] \in Nat /\ - (c * len[d]) <= total[d] /\ total[d] <= c * len[d]
    OBVIOUS
  <2>1. PICK U : U = L[d]
    OBVIOUS
  <2>2. PICK f : f = kept[d]
    OBVIOUS
  <2>3. IsFiniteSet(U) /\ \A l \in U : f[l] \in Int /\ -c <= f[l] /\ f[l] <= c
    BY <1>2, <2>1, <2>2 DEF Lined
  <2>4. - (c * Cardinality(U)) <= SumFunctionOnSet(f, U) /\ SumFunctionOnSet(f, U) <= c * Cardinality(U)
    BY <2>3, SumWithin
  <2>5. SumFunctionOnSet(f, U) \in Int /\ Cardinality(U) \in Nat
    BY <2>3, SumInt, FS_CardinalityType
  <2>. QED  BY <1>6, <2>1, <2>2, <2>4, <2>5 DEF LinesAre
<1>13. PICK up : up = [d \in S |-> c * len[d]]
  OBVIOUS
<1>14. PICK down : down = [d \in S |-> - c * len[d]]
  OBVIOUS
<1>15. \A d \in S : len[d] \in Int /\ up[d] = c * len[d]
  BY <1>12, <1>13
<1>16. \A d \in S : len[d] \in Int /\ down[d] = (- c) * len[d]
  BY <1>12, <1>14
<1>17. SumFunctionOnSet(up, S) = c * SumFunctionOnSet(len, S)
  <2>1. c \in Int
    OBVIOUS
  <2>. QED  BY <1>15, <2>1, SumTimes
<1>18. SumFunctionOnSet(down, S) = (- c) * SumFunctionOnSet(len, S)
  <2>1. - c \in Int
    OBVIOUS
  <2>. QED  BY <1>16, <2>1, SumTimes
<1>19. \A d \in S : up[d] \in Int /\ down[d] \in Int /\ total[d] \in Int /\ down[d] <= total[d] /\ total[d] <= up[d]
  BY <1>12, <1>15, <1>16
<1>20. SumFunctionOnSet(down, S) <= SumFunctionOnSet(total, S)
  BY <1>19, SumAtMost
<1>21. SumFunctionOnSet(total, S) <= SumFunctionOnSet(up, S)
  BY <1>19, SumAtMost
<1>22. SumFunctionOnSet(len, S) \in Nat
  BY <1>12, SumNat
<1>23. (- c) * SumFunctionOnSet(len, S) = - (c * SumFunctionOnSet(len, S))
  BY <1>22
<1>. QED  BY <1>11, <1>17, <1>18, <1>20, <1>21, <1>22, <1>23
=============================================================================
