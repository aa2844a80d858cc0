--------------------------- MODULE ComponentProofs ---------------------------
(***************************************************************************)
(* Proofs about components that share no state with one another: Accounts, *)
(* and the instances of IdentityGuard, QueueWait, LaneFeedback,            *)
(* LaneHealth, WeeklyPacing, BodyFit, Watchdog and DrainEstimate in Rules. *)
(* The theorems about one of them name what they assume of its constants;  *)
(* those about RulesSpec, at the end, put them together.                   *)
(***************************************************************************)
EXTENDS Accounts, Rules, TLAPS, WellFoundedInduction, FiniteSetTheorems

(* Numbers and sums. *)

LEMMA LeastIsThere ==
  ASSUME NEW T, T \subseteq Nat, T # {}
  PROVE  \E x \in T : \A y \in T : x <= y
<1> DEFINE R == {p \in Nat \X Nat : p[1] < p[2]}
<1>1. IsWellFoundedOn(R, Nat)
  BY NatLessThanWellFounded, Zenon DEF OpToRel
<1>2. PICK x \in T : \A y \in T : ~(<<y, x>> \in R)
  <2> HIDE DEF R
  <2> QED BY <1>1, WFMin
<1>3. ASSUME NEW y \in T
      PROVE  x <= y
  <2>1. x \in Nat /\ y \in Nat /\ ~(<<y, x>> \in R)
    BY <1>2
  <2> QED BY <2>1
<1> QED BY <1>3

\* Induction over finite sets, as a smallest counterexample.
LEMMA SmallestSet ==
  ASSUME NEW B, B # {}, \A s \in B : IsFiniteSet(s)
  PROVE  \E s \in B : \A t \in SUBSET s : t # s => t \notin B
<1> DEFINE T == {Cardinality(s) : s \in B}
<1>1. T \subseteq Nat /\ T # {}
  BY FS_CardinalityType
<1>2. PICK x \in T : \A y \in T : x <= y
  <2> HIDE DEF T
  <2> QED BY <1>1, LeastIsThere
<1>3. PICK s \in B : x = Cardinality(s)
  BY <1>2
<1>4. ASSUME NEW t \in SUBSET s, t # s, t \in B PROVE FALSE
  <2>1. Cardinality(t) <= Cardinality(s) /\ Cardinality(t) # Cardinality(s)
    BY <1>4, FS_Subset
  <2>2. x <= Cardinality(t)
    BY <1>2, <1>4
  <2>3. Cardinality(t) \in Nat /\ Cardinality(s) \in Nat
    BY <1>4, FS_CardinalityType
  <2> QED BY <1>3, <2>1, <2>2, <2>3
<1> QED BY <1>4

\* MapThenSumSet, of the values of a function.
Pick(s) == CHOOSE x \in s : TRUE
SumFun(f, S) ==
  CHOOSE g : g = [s \in SUBSET S |-> IF s = {} THEN 0 ELSE f[Pick(s)] + g[s \ {Pick(s)}]]
SumOf(f, S) == SumFun(f, S)[S]

LEMMA SumFunAt ==
  ASSUME NEW f, NEW S, IsFiniteSet(S), NEW t \in SUBSET S
  PROVE  SumFun(f, S)[t] = IF t = {} THEN 0 ELSE f[Pick(t)] + SumFun(f, S)[t \ {Pick(t)}]
<1> DEFINE Small(k) == {s \in SUBSET S : Cardinality(s) <= k}
           Solves(g, k) == g = [s \in Small(k) |-> IF s = {} THEN 0
                                                   ELSE f[Pick(s)] + g[s \ {Pick(s)}]]
           Bad == {k \in Nat : \A g : ~Solves(g, k)}
<1>1. \A s \in SUBSET S : IsFiniteSet(s) /\ Cardinality(s) \in Nat /\ (Cardinality(s) = 0 <=> s = {})
  BY FS_Subset, FS_CardinalityType, FS_EmptySet
<1>2. \A s \in SUBSET S : s # {} =>
        s \ {Pick(s)} \in SUBSET S /\ Cardinality(s \ {Pick(s)}) = Cardinality(s) - 1
  BY <1>1, FS_RemoveElement DEF Pick
<1>3. Bad = {}
  <2> SUFFICES ASSUME Bad # {} PROVE FALSE
    OBVIOUS
  <2>1. PICK k \in Bad : \A j \in Bad : k <= j
    BY LeastIsThere
  <2>2. CASE k = 0
    <3> DEFINE g == [s \in Small(0) |-> 0]
    <3>1. \A s \in Small(0) : s = {}
      BY <1>1
    <3>2. g = [s \in Small(0) |-> IF s = {} THEN 0 ELSE f[Pick(s)] + g[s \ {Pick(s)}]]
      BY <3>1
    <3>3. Solves(g, 0)
      BY <3>2
    <3> QED BY <2>1, <2>2, <3>3
  <2>3. CASE k # 0
    <3>1. k - 1 \in Nat /\ k - 1 \notin Bad
      <4>1. k \in Nat /\ ~(k <= k - 1)
        BY <2>1
      <4> HIDE DEF Bad
      <4> QED BY <2>1, <2>3, <4>1
    <3>2. PICK h : Solves(h, k - 1)
      BY <3>1
    <3> DEFINE g == [s \in Small(k) |-> IF s = {} THEN 0 ELSE f[Pick(s)] + h[s \ {Pick(s)}]]
    <3>3. ASSUME NEW s \in Small(k), s # {} PROVE g[s \ {Pick(s)}] = h[s \ {Pick(s)}]
      <4> DEFINE u == s \ {Pick(s)}
      <4>1. u \in Small(k - 1)
        BY <1>1, <1>2, <2>1, <3>3
      <4>2. u \in Small(k)
        BY <1>1, <2>1, <4>1
      <4>3. h[u] = IF u = {} THEN 0 ELSE f[Pick(u)] + h[u \ {Pick(u)}]
        BY <3>2, <4>1
      <4>4. g[u] = IF u = {} THEN 0 ELSE f[Pick(u)] + h[u \ {Pick(u)}]
        BY <4>2
      <4> QED BY <4>3, <4>4
    <3>4. g = [s \in Small(k) |-> IF s = {} THEN 0 ELSE f[Pick(s)] + g[s \ {Pick(s)}]]
      BY <3>3
    <3>5. Solves(g, k)
      BY <3>4
    <3> QED BY <2>1, <3>5
  <2> QED BY <2>2, <2>3
<1>4. Small(Cardinality(S)) = SUBSET S
  BY FS_Subset
<1>5. \E g : g = [s \in SUBSET S |-> IF s = {} THEN 0 ELSE f[Pick(s)] + g[s \ {Pick(s)}]]
  <2>1. Cardinality(S) \notin Bad /\ Cardinality(S) \in Nat
    BY <1>3, FS_CardinalityType
  <2>2. PICK g : Solves(g, Cardinality(S))
    BY <2>1
  <2>3. g = [s \in SUBSET S |-> IF s = {} THEN 0 ELSE f[Pick(s)] + g[s \ {Pick(s)}]]
    BY <1>4, <2>2
  <2> QED BY <2>3
<1> DEFINE g == SumFun(f, S)
<1>6. g = [s \in SUBSET S |-> IF s = {} THEN 0 ELSE f[Pick(s)] + g[s \ {Pick(s)}]]
  BY <1>5 DEF SumFun
<1> HIDE DEF g
<1>7. g[t] = IF t = {} THEN 0 ELSE f[Pick(t)] + g[t \ {Pick(t)}]
  BY <1>6
<1> QED BY <1>7 DEF g

LEMMA SumStep ==
  ASSUME NEW f, NEW S, IsFiniteSet(S)
  PROVE  /\ SumOf(f, {}) = 0
         /\ S # {} => SumOf(f, S) = f[Pick(S)] + SumOf(f, S \ {Pick(S)})
<1>1. SumOf(f, {}) = 0
  BY FS_EmptySet, SumFunAt DEF SumOf
<1>2. ASSUME S # {} PROVE SumOf(f, S) = f[Pick(S)] + SumOf(f, S \ {Pick(S)})
  <2> DEFINE s == S \ {Pick(S)}
             B == {t \in SUBSET s : SumFun(f, S)[t] # SumFun(f, s)[t]}
  <2>1. IsFiniteSet(s) /\ s \in SUBSET S
    BY FS_Subset
  <2>2. B = {}
    <3> SUFFICES ASSUME B # {} PROVE FALSE
      OBVIOUS
    <3>1. PICK t \in B : \A u \in SUBSET t : u # t => u \notin B
      <4>1. \A t \in B : IsFiniteSet(t)
        BY <2>1, FS_Subset
      <4> HIDE DEF B
      <4> QED BY <4>1, SmallestSet
    <3> DEFINE u == t \ {Pick(t)}
    <3>2. t \in SUBSET s /\ t \in SUBSET S
      BY <2>1, <3>1
    <3>3. SumFun(f, S)[t] = (IF t = {} THEN 0 ELSE f[Pick(t)] + SumFun(f, S)[u])
      BY <3>2, SumFunAt
    <3>4. SumFun(f, s)[t] = (IF t = {} THEN 0 ELSE f[Pick(t)] + SumFun(f, s)[u])
      <4>1. IsFiniteSet(s) /\ t \in SUBSET s
        BY <2>1, <3>2
      <4> HIDE DEF s, B
      <4> QED BY <4>1, SumFunAt
    <3>5. t # {} => u \in SUBSET t /\ u # t /\ u \in SUBSET s
      BY <3>2 DEF Pick
    <3>6. t # {} => SumFun(f, S)[u] = SumFun(f, s)[u]
      BY <3>1, <3>5
    <3>7. SumFun(f, S)[t] = SumFun(f, s)[t]
      <4> HIDE DEF u, s
      <4> QED BY <3>3, <3>4, <3>6
    <3> QED BY <3>1, <3>7
  <2>3. SumFun(f, S)[s] = SumFun(f, s)[s]
    BY <2>2
  <2>4. SumFun(f, S)[S] = f[Pick(S)] + SumFun(f, S)[s]
    BY <1>2, SumFunAt
  <2> QED BY <2>3, <2>4 DEF SumOf
<1> QED BY <1>1, <1>2

\* The set that a sum is taken over loses an element.
LEMMA SumTake ==
  ASSUME NEW f, NEW S, IsFiniteSet(S), \A x \in S : f[x] \in Int
  PROVE  /\ SumOf(f, S) \in Int
         /\ \A x \in S : SumOf(f, S) = f[x] + SumOf(f, S \ {x})
<1>1. \A s \in SUBSET S : IsFiniteSet(s)
  BY FS_Subset
<1>2. \A s \in SUBSET S : SumOf(f, s) \in Int
  <2> DEFINE B == {s \in SUBSET S : SumOf(f, s) \notin Int}
  <2> SUFFICES ASSUME B # {} PROVE FALSE
    OBVIOUS
  <2>1. PICK s \in B : \A t \in SUBSET s : t # s => t \notin B
    <3>1. \A s \in B : IsFiniteSet(s)
      BY <1>1
    <3> HIDE DEF B
    <3> QED BY <3>1, SmallestSet
  <2>2. s # {}
    <3>1. SumOf(f, {}) = 0
      BY FS_EmptySet, SumStep
    <3>2. SumOf(f, s) \notin Int
      BY <2>1
    <3> QED BY <3>1, <3>2
  <2>3. Pick(s) \in s
    BY <2>2 DEF Pick
  <2>4. SumOf(f, s \ {Pick(s)}) \in Int
    BY <2>1, <2>3
  <2>5. SumOf(f, s) = f[Pick(s)] + SumOf(f, s \ {Pick(s)})
    BY <1>1, <2>1, <2>2, SumStep
  <2> QED BY <2>1, <2>3, <2>4, <2>5
<1>3. \A s \in SUBSET S : \A x \in s : SumOf(f, s) = f[x] + SumOf(f, s \ {x})
  <2> DEFINE B == {s \in SUBSET S : \E x \in s : SumOf(f, s) # f[x] + SumOf(f, s \ {x})}
  <2> SUFFICES ASSUME B # {} PROVE FALSE
    OBVIOUS
  <2>1. PICK s \in B : \A t \in SUBSET s : t # s => t \notin B
    <3>1. \A s \in B : IsFiniteSet(s)
      BY <1>1
    <3> HIDE DEF B
    <3> QED BY <3>1, SmallestSet
  <2>2. PICK x \in s : SumOf(f, s) # f[x] + SumOf(f, s \ {x})
    BY <2>1
  <2> DEFINE p == Pick(s)
             both == (s \ {p}) \ {x}
  <2>3. p \in s
    BY <2>2 DEF Pick
  <2> HIDE DEF p
  <2>4. SumOf(f, s) = f[p] + SumOf(f, s \ {p})
    BY <1>1, <2>1, <2>3, SumStep DEF p
  <2>5. p # x
    BY <2>2, <2>4
  <2>6. SumOf(f, s \ {p}) = f[x] + SumOf(f, both)
    BY <2>1, <2>2, <2>3, <2>5
  <2>7. SumOf(f, s \ {x}) = f[p] + SumOf(f, both)
    <3>1. (s \ {x}) \ {p} = both
      OBVIOUS
    <3>2. s \ {x} \in SUBSET s /\ s \ {x} # s /\ p \in s \ {x} /\ s \ {x} \in SUBSET S
      BY <2>1, <2>2, <2>3, <2>5
    <3>3. s \ {x} \notin B
      BY <2>1, <3>2
    <3>4. SumOf(f, s \ {x}) = f[p] + SumOf(f, (s \ {x}) \ {p})
      BY <3>2, <3>3
    <3> QED BY <3>1, <3>4
  <2>8. f[p] \in Int /\ f[x] \in Int /\ SumOf(f, both) \in Int
    BY <1>2, <2>1, <2>2, <2>3
  <2> HIDE DEF both
  <2> QED BY <2>2, <2>4, <2>6, <2>7, <2>8
<1> QED BY <1>2, <1>3

LEMMA SumCompares ==
  ASSUME NEW f, NEW g, NEW S, IsFiniteSet(S), \A x \in S : f[x] \in Int /\ g[x] \in Int /\ f[x] <= g[x]
  PROVE  SumOf(f, S) <= SumOf(g, S)
<1> DEFINE B == {s \in SUBSET S : ~(SumOf(f, s) <= SumOf(g, s))}
<1>1. \A s \in SUBSET S : IsFiniteSet(s)
  BY FS_Subset
<1> SUFFICES ASSUME B # {} PROVE FALSE
  OBVIOUS
<1>2. PICK s \in B : \A t \in SUBSET s : t # s => t \notin B
  <2>1. \A s \in B : IsFiniteSet(s)
    BY <1>1
  <2> HIDE DEF B
  <2> QED BY <2>1, SmallestSet
<1>3. s # {}
  <2>1. SumOf(f, {}) = 0 /\ SumOf(g, {}) = 0
    BY FS_EmptySet, SumStep
  <2>2. ~(SumOf(f, s) <= SumOf(g, s))
    BY <1>2
  <2> QED BY <2>1, <2>2
<1>4. PICK x \in s : TRUE
  BY <1>3
<1>5. SumOf(f, s \ {x}) <= SumOf(g, s \ {x})
  BY <1>2, <1>4
<1>6. /\ SumOf(f, s) = f[x] + SumOf(f, s \ {x}) /\ SumOf(f, s \ {x}) \in Int
      /\ SumOf(g, s) = g[x] + SumOf(g, s \ {x}) /\ SumOf(g, s \ {x}) \in Int
  <2>1. IsFiniteSet(s) /\ IsFiniteSet(s \ {x}) /\ \A y \in s : f[y] \in Int /\ g[y] \in Int
    BY <1>1, <1>2
  <2> QED BY <1>4, <2>1, SumTake
<1>7. f[x] \in Int /\ g[x] \in Int /\ f[x] <= g[x]
  BY <1>2, <1>4
<1>8. SumOf(f, s) <= SumOf(g, s)
  BY <1>5, <1>6, <1>7
<1> QED BY <1>2, <1>8

LEMMA SumSame ==
  ASSUME NEW f, NEW g, NEW S, IsFiniteSet(S), \A x \in S : f[x] \in Int /\ f[x] = g[x]
  PROVE  SumOf(f, S) = SumOf(g, S)
<1>1. \A x \in S : f[x] \in Int /\ g[x] \in Int /\ f[x] <= g[x] /\ g[x] <= f[x]
  OBVIOUS
<1>2. SumOf(f, S) <= SumOf(g, S) /\ SumOf(g, S) <= SumOf(f, S)
  BY <1>1, SumCompares
<1>3. SumOf(f, S) \in Int /\ SumOf(g, S) \in Int
  BY <1>1, SumTake
<1> QED BY <1>2, <1>3

LEMMA SumOfNone ==
  ASSUME NEW f, NEW S, IsFiniteSet(S), \A x \in S : f[x] = 0
  PROVE  SumOf(f, S) = 0
<1> DEFINE B == {s \in SUBSET S : SumOf(f, s) # 0}
<1>1. B = {}
  <2> SUFFICES ASSUME B # {} PROVE FALSE
    OBVIOUS
  <2>1. PICK s \in B : \A t \in SUBSET s : t # s => t \notin B
    <3>1. \A s \in B : IsFiniteSet(s)
      BY FS_Subset
    <3> HIDE DEF B
    <3> QED BY <3>1, SmallestSet
  <2>2. s \in SUBSET S /\ IsFiniteSet(s) /\ SumOf(f, s) # 0
    BY <2>1, FS_Subset
  <2>3. s # {}
    BY <2>2, FS_EmptySet, SumStep
  <2>4. Pick(s) \in s
    BY <2>3 DEF Pick
  <2>5. SumOf(f, s \ {Pick(s)}) = 0
    BY <2>1, <2>2, <2>4
  <2>6. SumOf(f, s) = f[Pick(s)] + SumOf(f, s \ {Pick(s)})
    BY <2>2, <2>3, SumStep
  <2> QED BY <2>2, <2>4, <2>5, <2>6
<1> QED BY <1>1

LEMMA SumOfNats ==
  ASSUME NEW f, NEW S, IsFiniteSet(S), \A x \in S : f[x] \in Nat
  PROVE  SumOf(f, S) \in Nat
<1> DEFINE z == [x \in S |-> 0]
<1>1. SumOf(z, S) = 0
  <2>1. \A x \in S : z[x] = 0
    OBVIOUS
  <2> HIDE DEF z
  <2> QED BY <2>1, SumOfNone
<1>2. \A x \in S : z[x] \in Int /\ f[x] \in Int /\ z[x] <= f[x]
  OBVIOUS
<1> HIDE DEF z
<1>3. SumOf(z, S) <= SumOf(f, S)
  BY <1>2, SumCompares
<1>4. SumOf(f, S) \in Int
  BY <1>2, SumTake
<1> QED BY <1>1, <1>3, <1>4

\* A finite set of naturals has a greatest element: else there is a smallest set without one.
LEMMA GreatestIsThere ==
  ASSUME NEW S, IsFiniteSet(S), S \subseteq Nat, S # {}
  PROVE  \E x \in S : \A y \in S : x >= y
<1> DEFINE Topped(s) == s = {} \/ \E x \in s : \A y \in s : x >= y
           B == {s \in SUBSET S : ~Topped(s)}
<1>1. B = {}
  <2> SUFFICES ASSUME B # {} PROVE FALSE
    OBVIOUS
  <2>1. \A s \in B : IsFiniteSet(s)
    BY FS_Subset
  <2>2. PICK s \in B : \A t \in SUBSET s : t # s => t \notin B
    <3> HIDE DEF B
    <3> QED BY <2>1, SmallestSet
  <2>3. PICK e \in s : TRUE
    OBVIOUS
  <2>4. Topped(s \ {e})
    <3>1. s \ {e} \in SUBSET s /\ s \ {e} # s /\ s \ {e} \in SUBSET S
      OBVIOUS
    <3>2. s \ {e} \notin B
      BY <2>2, <3>1
    <3> HIDE DEF Topped
    <3> QED BY <3>1, <3>2
  <2>5. e \in Nat /\ \A y \in s : y \in Nat
    OBVIOUS
  <2>6. CASE s \ {e} = {}
    <3>1. \A y \in s : y = e
      BY <2>6
    <3> QED BY <2>5, <3>1
  <2>7. CASE s \ {e} # {}
    <3>1. PICK x \in s \ {e} : \A y \in s \ {e} : x >= y
      BY <2>4, <2>7
    <3>2. CASE x >= e
      <4>1. \A y \in s : x >= y
        BY <3>1, <3>2
      <4> QED BY <4>1
    <3>3. CASE ~(x >= e)
      <4>1. \A y \in s : e >= y
        BY <2>5, <3>1, <3>3
      <4> QED BY <4>1
    <3> QED BY <3>2, <3>3
  <2> QED BY <2>6, <2>7
<1>2. S \notin B
  BY <1>1
<1> QED BY <1>2

LEMMA SumApart ==
  ASSUME NEW f, NEW S, IsFiniteSet(S), \A x \in S : f[x] \in Int, NEW A \in SUBSET S, NEW R \in SUBSET S,
         A \cap R = {}
  PROVE  SumOf(f, A \cup R) = SumOf(f, A) + SumOf(f, R)
<1> DEFINE B == {s \in SUBSET R : SumOf(f, A \cup s) # SumOf(f, A) + SumOf(f, s)}
<1>1. \A s \in SUBSET S : IsFiniteSet(s) /\ SumOf(f, s) \in Int
  BY FS_Subset, SumTake
<1>2. B = {}
  <2> SUFFICES ASSUME B # {} PROVE FALSE
    OBVIOUS
  <2>1. PICK s \in B : \A t \in SUBSET s : t # s => t \notin B
    <3>1. \A s \in B : IsFiniteSet(s)
      BY <1>1
    <3> HIDE DEF B
    <3> QED BY <3>1, SmallestSet
  <2>2. s \in SUBSET R /\ SumOf(f, A \cup s) # SumOf(f, A) + SumOf(f, s)
    BY <2>1
  <2>3. s # {}
    <3> SUFFICES ASSUME s = {} PROVE FALSE
      OBVIOUS
    <3>1. SumOf(f, {}) = 0 /\ A \cup s = A /\ SumOf(f, A) \in Int
      BY <1>1, FS_EmptySet, SumStep
    <3> QED BY <2>2, <3>1
  <2>4. PICK x \in s : TRUE
    BY <2>3
  <2> DEFINE u == s \ {x}
  <2>5. SumOf(f, A \cup u) = SumOf(f, A) + SumOf(f, u)
    BY <2>1, <2>2, <2>4
  <2>6. SumOf(f, A \cup s) = f[x] + SumOf(f, A \cup u)
    <3>1. A \cup s \in SUBSET S /\ x \in A \cup s /\ (A \cup s) \ {x} = A \cup u
      BY <2>2, <2>4
    <3>2. IsFiniteSet(A \cup s) /\ \A y \in A \cup s : f[y] \in Int
      BY <1>1, <3>1
    <3>3. SumOf(f, A \cup s) = f[x] + SumOf(f, (A \cup s) \ {x})
      BY <3>1, <3>2, SumTake
    <3> QED BY <3>1, <3>3
  <2>7. SumOf(f, s) = f[x] + SumOf(f, u)
    <3>1. IsFiniteSet(s) /\ \A y \in s : f[y] \in Int
      BY <1>1, <2>2
    <3> QED BY <2>4, <3>1, SumTake
  <2>8. f[x] \in Int /\ SumOf(f, A) \in Int /\ SumOf(f, u) \in Int
    BY <1>1, <2>2, <2>4
  <2> HIDE DEF u
  <2> QED BY <2>2, <2>5, <2>6, <2>7, <2>8
<1>3. R \notin B
  BY <1>2
<1> QED BY <1>3

\* As many values, none above any of the others, do not come to more.
LEMMA SumBelow ==
  ASSUME NEW f, NEW S, IsFiniteSet(S), \A x \in S : f[x] \in Int, NEW A \in SUBSET S, NEW R \in SUBSET S,
         Cardinality(A) = Cardinality(R), \A x \in A, y \in R : f[x] <= f[y]
  PROVE  SumOf(f, A) <= SumOf(f, R)
<1> DEFINE Under(s, t) == Cardinality(s) = Cardinality(t) => SumOf(f, s) <= SumOf(f, t)
           B == {s \in SUBSET A : \E t \in SUBSET R : ~Under(s, t)}
<1>1. \A s \in SUBSET S : IsFiniteSet(s) /\ SumOf(f, s) \in Int
  BY FS_Subset, SumTake
<1>2. B = {}
  <2> SUFFICES ASSUME B # {} PROVE FALSE
    OBVIOUS
  <2>1. PICK s \in B : \A t \in SUBSET s : t # s => t \notin B
    <3>1. \A s \in B : IsFiniteSet(s)
      BY <1>1
    <3> HIDE DEF B
    <3> QED BY <3>1, SmallestSet
  <2>2. PICK t \in SUBSET R : Cardinality(s) = Cardinality(t) /\ ~(SumOf(f, s) <= SumOf(f, t))
    BY <2>1
  <2>3. s \in SUBSET A /\ IsFiniteSet(s) /\ IsFiniteSet(t)
    BY <1>1, <2>1
  <2>4. s # {} /\ t # {}
    <3> SUFFICES ASSUME s = {} \/ t = {} PROVE FALSE
      OBVIOUS
    <3>1. s = {} /\ t = {}
      BY <2>2, <2>3, FS_EmptySet
    <3>2. SumOf(f, {}) = 0
      BY FS_EmptySet, SumStep
    <3> QED BY <2>2, <3>1, <3>2
  <2>5. PICK x \in s, y \in t : TRUE
    BY <2>4
  <2>6. /\ Cardinality(s \ {x}) = Cardinality(s) - 1
        /\ Cardinality(t \ {y}) = Cardinality(t) - 1
    BY <2>3, <2>5, FS_RemoveElement
  <2>7. SumOf(f, s \ {x}) <= SumOf(f, t \ {y})
    <3>1. s \ {x} \notin B /\ s \ {x} \in SUBSET A /\ t \ {y} \in SUBSET R
      BY <2>1, <2>3, <2>5
    <3>2. Under(s \ {x}, t \ {y})
      BY <3>1
    <3> HIDE DEF B
    <3> QED BY <2>2, <2>6, <3>2
  <2>8. /\ SumOf(f, s) = f[x] + SumOf(f, s \ {x}) /\ SumOf(f, s \ {x}) \in Int
        /\ SumOf(f, t) = f[y] + SumOf(f, t \ {y}) /\ SumOf(f, t \ {y}) \in Int
    <3>1. (\A z \in s : f[z] \in Int) /\ (\A z \in t : f[z] \in Int)
      BY <2>3
    <3>2. s \ {x} \in SUBSET S /\ t \ {y} \in SUBSET S
      BY <2>3
    <3> QED BY <1>1, <2>3, <2>5, <3>1, <3>2, SumTake
  <2>9. f[x] \in Int /\ f[y] \in Int /\ f[x] <= f[y]
    BY <2>3, <2>5
  <2> HIDE DEF B
  <2> QED BY <2>2, <2>7, <2>8, <2>9
<1>3. A \notin B
  BY <1>2
<1> QED BY <1>3

\* Of all sets of so many, the one with the least values comes to the least.
LEMMA LeastSum ==
  ASSUME NEW f, NEW S, IsFiniteSet(S), \A x \in S : f[x] \in Int, NEW K \in SUBSET S, NEW U \in SUBSET S,
         Cardinality(K) = Cardinality(U), \A x \in K, y \in S \ K : f[x] <= f[y]
  PROVE  SumOf(f, K) <= SumOf(f, U)
<1>1. IsFiniteSet(K) /\ IsFiniteSet(U)
  BY FS_Subset
<1>2. Cardinality(K \ U) = Cardinality(U \ K)
  <2>1. /\ Cardinality(K \ U) = Cardinality(K) - Cardinality(K \cap U)
        /\ Cardinality(U \ K) = Cardinality(U) - Cardinality(U \cap K)
    BY <1>1, FS_Difference
  <2>2. K \cap U = U \cap K
    OBVIOUS
  <2> QED BY <2>1, <2>2
<1>3. SumOf(f, K \ U) <= SumOf(f, U \ K)
  <2>1. K \ U \in SUBSET S /\ U \ K \in SUBSET S /\ \A x \in K \ U, y \in U \ K : f[x] <= f[y]
    OBVIOUS
  <2> QED BY <1>2, <2>1, SumBelow
<1>4. SumOf(f, K) = SumOf(f, K \cap U) + SumOf(f, K \ U)
  <2>1. (K \cap U) \cup (K \ U) = K /\ (K \cap U) \cap (K \ U) = {}
        /\ K \cap U \in SUBSET S /\ K \ U \in SUBSET S
    OBVIOUS
  <2> QED BY <2>1, SumApart
<1>5. SumOf(f, U) = SumOf(f, K \cap U) + SumOf(f, U \ K)
  <2>1. (K \cap U) \cup (U \ K) = U /\ (K \cap U) \cap (U \ K) = {}
        /\ K \cap U \in SUBSET S /\ U \ K \in SUBSET S
    OBVIOUS
  <2> QED BY <2>1, SumApart
<1>6. SumOf(f, K \cap U) \in Int /\ SumOf(f, K \ U) \in Int /\ SumOf(f, U \ K) \in Int
  <2>1. \A s \in SUBSET S : IsFiniteSet(s) /\ \A x \in s : f[x] \in Int
    BY FS_Subset
  <2>2. K \cap U \in SUBSET S /\ K \ U \in SUBSET S /\ U \ K \in SUBSET S
    OBVIOUS
  <2> QED BY <2>1, <2>2, SumTake
<1> QED BY <1>3, <1>4, <1>5, <1>6

\* A sum over other names of the same things.
Renamed(name, S) == {name[x] : x \in S}
Renames(name, g, f, S) ==
  /\ IsFiniteSet(S) /\ \A x \in S : f[name[x]] \in Int /\ g[x] = f[name[x]]
  /\ \A x, y \in S : name[x] = name[y] => x = y

LEMMA SumRenamed ==
  ASSUME NEW f, NEW S, NEW name, NEW g, Renames(name, g, f, S)
  PROVE  SumOf(g, S) = SumOf(f, Renamed(name, S))
<1>0. /\ IsFiniteSet(S) /\ \A x \in S : f[name[x]] \in Int /\ g[x] = f[name[x]]
      /\ \A x, y \in S : name[x] = name[y] => x = y
  BY DEF Renames
<1> DEFINE N(s) == {name[x] : x \in s}
           B == {s \in SUBSET S : SumOf(g, s) # SumOf(f, N(s))}
<1>1. \A s \in SUBSET S : IsFiniteSet(s) /\ IsFiniteSet(N(s))
  <2> TAKE s \in SUBSET S
  <2>1. IsFiniteSet(s)
    BY <1>0, FS_Subset
  <2>2. [x \in s |-> name[x]] \in Surjection(s, N(s))
    BY DEF Surjection
  <2> HIDE DEF N
  <2> QED BY <2>1, <2>2, FS_Surjection
<1>2. B = {}
  <2> SUFFICES ASSUME B # {} PROVE FALSE
    OBVIOUS
  <2>1. PICK s \in B : \A t \in SUBSET s : t # s => t \notin B
    <3>1. \A s \in B : IsFiniteSet(s)
      BY <1>1
    <3> HIDE DEF B
    <3> QED BY <3>1, SmallestSet
  <2>2. s \in SUBSET S /\ SumOf(g, s) # SumOf(f, N(s))
    BY <2>1
  <2>3. s # {}
    <3> SUFFICES ASSUME s = {} PROVE FALSE
      OBVIOUS
    <3>1. N(s) = {}
      OBVIOUS
    <3>2. SumOf(f, {}) = 0 /\ SumOf(g, {}) = 0
      BY FS_EmptySet, SumStep
    <3> HIDE DEF N
    <3> QED BY <2>2, <3>1, <3>2
  <2>4. PICK x \in s : TRUE
    BY <2>3
  <2>5. SumOf(g, s \ {x}) = SumOf(f, N(s \ {x}))
    BY <2>1, <2>2, <2>4
  <2>6. SumOf(g, s) = g[x] + SumOf(g, s \ {x})
    <3>1. IsFiniteSet(s) /\ \A y \in s : g[y] \in Int
      BY <1>0, <1>1, <2>2
    <3> QED BY <2>4, <3>1, SumTake
  <2>7. SumOf(f, N(s)) = f[name[x]] + SumOf(f, N(s) \ {name[x]})
    <3>1. IsFiniteSet(N(s)) /\ name[x] \in N(s) /\ \A y \in N(s) : f[y] \in Int
      BY <1>0, <1>1, <2>2, <2>4
    <3> HIDE DEF N
    <3> QED BY <3>1, SumTake
  <2>8. N(s) \ {name[x]} = N(s \ {x})
    BY <1>0, <2>2, <2>4
  <2>9. g[x] = f[name[x]]
    BY <1>0, <2>2, <2>4
  <2> HIDE DEF N
  <2> QED BY <2>2, <2>5, <2>6, <2>7, <2>8, <2>9
<1>3. S \notin B
  BY <1>2
<1> QED BY <1>3 DEF Renamed

\* A fold over a finite set, one element at a time, is there and stays among the values A.
FoldsTo(g, S, base, next, top) ==
  \A s \in SUBSET S : g[s] = IF s = {} THEN base ELSE next[<<g[s \ {top[s]}], top[s]>>]

LEMMA FoldExists ==
  ASSUME NEW S, IsFiniteSet(S), NEW A, NEW base \in A,
         NEW next, \A a \in A, x \in S : next[<<a, x>>] \in A,
         NEW top, \A s \in SUBSET S : s # {} => top[s] \in s
  PROVE  \E g \in [SUBSET S -> A] : FoldsTo(g, S, base, next, top)
<1> DEFINE Small(k) == {s \in SUBSET S : Cardinality(s) <= k}
           Solves(g, k) == g \in [Small(k) -> A] /\
             g = [s \in Small(k) |-> IF s = {} THEN base ELSE next[<<g[s \ {top[s]}], top[s]>>]]
           Bad == {k \in Nat : \A g : ~Solves(g, k)}
<1>1. \A s \in SUBSET S : IsFiniteSet(s) /\ Cardinality(s) \in Nat /\ (Cardinality(s) = 0 <=> s = {})
  BY FS_Subset, FS_CardinalityType, FS_EmptySet
<1>2. \A s \in SUBSET S : s # {} =>
        s \ {top[s]} \in SUBSET S /\ Cardinality(s \ {top[s]}) = Cardinality(s) - 1
  BY <1>1, FS_RemoveElement
<1>3. Bad = {}
  <2> SUFFICES ASSUME Bad # {} PROVE FALSE
    OBVIOUS
  <2>1. PICK k \in Bad : \A j \in Bad : k <= j
    BY LeastIsThere
  <2>2. CASE k = 0
    <3> DEFINE g == [s \in Small(0) |-> base]
    <3>1. \A s \in Small(0) : s = {}
      BY <1>1
    <3>2. g = [s \in Small(0) |-> IF s = {} THEN base ELSE next[<<g[s \ {top[s]}], top[s]>>]]
      BY <3>1
    <3>3. Solves(g, 0)
      BY <3>2
    <3> QED BY <2>1, <2>2, <3>3
  <2>3. CASE k # 0
    <3>1. k - 1 \in Nat /\ k - 1 \notin Bad
      <4>1. k \in Nat /\ ~(k <= k - 1)
        BY <2>1
      <4> HIDE DEF Bad
      <4> QED BY <2>1, <2>3, <4>1
    <3>2. PICK h : Solves(h, k - 1)
      BY <3>1
    <3> DEFINE g == [s \in Small(k) |-> IF s = {} THEN base ELSE next[<<h[s \ {top[s]}], top[s]>>]]
    <3>3. ASSUME NEW s \in Small(k), s # {}
          PROVE  g[s \ {top[s]}] = h[s \ {top[s]}] /\ h[s \ {top[s]}] \in A
      <4> DEFINE u == s \ {top[s]}
      <4>1. u \in Small(k - 1)
        BY <1>1, <1>2, <2>1, <3>3
      <4>2. u \in Small(k)
        BY <1>1, <2>1, <4>1
      <4>3. h[u] = (IF u = {} THEN base ELSE next[<<h[u \ {top[u]}], top[u]>>]) /\ h[u] \in A
        BY <3>2, <4>1
      <4>4. g[u] = IF u = {} THEN base ELSE next[<<h[u \ {top[u]}], top[u]>>]
        BY <4>2
      <4> QED BY <4>3, <4>4
    <3>4. g = [s \in Small(k) |-> IF s = {} THEN base ELSE next[<<g[s \ {top[s]}], top[s]>>]]
      BY <3>3
    <3>5. g \in [Small(k) -> A]
      <4>1. ASSUME NEW s \in Small(k), s # {} PROVE next[<<h[s \ {top[s]}], top[s]>>] \in A
        <5>1. h[s \ {top[s]}] \in A /\ top[s] \in S
          BY <3>3, <4>1
        <5> QED BY <5>1
      <4> QED BY <4>1
    <3>6. Solves(g, k)
      BY <3>4, <3>5
    <3> QED BY <2>1, <3>6
  <2> QED BY <2>2, <2>3
<1>4. Small(Cardinality(S)) = SUBSET S
  BY FS_Subset
<1>5. Cardinality(S) \notin Bad /\ Cardinality(S) \in Nat
  BY <1>3, FS_CardinalityType
<1>6. PICK g : Solves(g, Cardinality(S))
  BY <1>5
<1>7. g \in [SUBSET S -> A] /\
      g = [s \in SUBSET S |-> IF s = {} THEN base ELSE next[<<g[s \ {top[s]}], top[s]>>]]
  BY <1>4, <1>6
<1>8. \A s \in SUBSET S : g[s] = IF s = {} THEN base ELSE next[<<g[s \ {top[s]}], top[s]>>]
  BY <1>7
<1> QED BY <1>7, <1>8 DEF FoldsTo

-----------------------------------------------------------------------------
(* Accounts: what the proxy knows of one account. *)

\* A power of two is a number and at least 1: arithmetic the provers do not have.
PowersGrow == \A k \in 0..Steps : 2 ^ k \in Nat /\ 2 ^ k >= 1

Entries == [known : BOOLEAN, of : 0..MaxVersion, age : Nat]
Stages == {"idle", "waiting", "usage", "label", "profile"}

AccountsTyped ==
  /\ file \in 0..MaxVersion /\ newest \in Versions
  /\ entry \in Entries /\ disk \in Entries
  /\ pause \in Int /\ failures \in Nat
  /\ pc \in [Tasks -> Stages] /\ tok \in [Tasks -> 0..MaxVersion]
  /\ stamp \in [Tasks -> 0..MaxVersion] /\ began \in [Tasks -> 0..MaxWait]
  /\ since \in 0..Aged /\ asked \in Nat

\* A task that asks whose a token is would certify the very version it was read from.
CertifiesItsOwn ==
  /\ \A t \in Tasks : pc[t] \in {"label", "profile"} => tok[t] = stamp[t]
  /\ email.of # 0 => email.who = Owner[email.of]

CardsInv == AccountsTyped /\ CertifiesItsOwn /\ DeadStaysDead

LEMMA ConstantsTyped ==
  /\ MaxVersion \in Nat \ {0} /\ TTL \in Nat \ {0} /\ StaleMax \in Nat /\ StaleMax >= TTL
  /\ GateCap \in Nat /\ Steps \in Nat /\ MaxWait \in Nat \ {0} /\ Aged = StaleMax + 1
  /\ RetryAfters \subseteq Nat /\ Expired = -MaxWait /\ Refreshers \cap Verifiers = {}
BY AccountsAssumption DEF Aged, Expired

LEMMA PowersTyped == ASSUME NEW k \in Nat PROVE 2 ^ k \in Int
OBVIOUS

LEMMA Minimum ==
  ASSUME NEW a \in Int, NEW b \in Int
  PROVE  Least(a, b) \in Int /\ Least(a, b) \in {a, b} /\ Least(a, b) <= a /\ Least(a, b) <= b
BY DEF Least
LEMMA Maximum ==
  ASSUME NEW a \in Int, NEW b \in Int
  PROVE  Most(a, b) \in Int /\ Most(a, b) \in {a, b} /\ Most(a, b) >= a /\ Most(a, b) >= b
BY DEF Most

\* The delay after a failure is an integer, and no shorter than what the endpoint asked for.
LEMMA DelayTyped ==
  ASSUME NEW fails \in Nat, NEW retryAfter \in Nat
  PROVE  Delay(fails, retryAfter) \in Int /\ Delay(fails, retryAfter) >= retryAfter
<1> DEFINE k == Least(Most(fails - 1, 0), Steps)
<1>1. k \in 0..Steps
  BY ConstantsTyped DEF Least, Most
<1>2. TTL * 2 ^ k \in Int
  BY <1>1, PowersTyped, ConstantsTyped
<1> HIDE DEF k
<1>3. Least(TTL * 2 ^ k, StaleMax) \in Int
  BY <1>2, Minimum, ConstantsTyped
<1>4. Delay(fails, retryAfter) = Most(Least(TTL * 2 ^ k, StaleMax), retryAfter)
  BY DEF Delay, k
<1>5. QED BY <1>3, <1>4, Maximum

\* Our own delay is at least TTL.
LEMMA DelayAtLeastTTL ==
  ASSUME PowersGrow, NEW fails \in Nat, NEW retryAfter \in Nat
  PROVE  Delay(fails, retryAfter) >= TTL
<1> DEFINE k == Least(Most(fails - 1, 0), Steps)
<1>1. k \in 0..Steps
  BY ConstantsTyped DEF Least, Most
<1>2. PICK p \in Nat : p = 2 ^ k /\ p >= 1
  BY <1>1 DEF PowersGrow
<1>3. TTL * p \in Int /\ TTL * p >= TTL
  <2>1. PICK q \in Nat : p = q + 1
    <3>1. p - 1 \in Nat /\ p = (p - 1) + 1
      BY <1>2
    <3>2. QED BY <3>1
  <2>2. TTL * p = TTL * q + TTL
    BY <2>1, ConstantsTyped
  <2>3. TTL * q \in Nat
    BY ConstantsTyped
  <2>4. QED BY <2>2, <2>3, ConstantsTyped
<1>4. Delay(fails, retryAfter) = Most(Least(TTL * p, StaleMax), retryAfter)
  BY <1>2 DEF Delay
<1>5. Least(TTL * p, StaleMax) \in Int /\ Least(TTL * p, StaleMax) >= TTL
  BY <1>3, ConstantsTyped DEF Least
<1>6. QED BY <1>4, <1>5, ConstantsTyped DEF Most

LEMMA CardsInit == Init => CardsInv
BY ConstantsTyped DEF Init, CardsInv, AccountsTyped, CertifiesItsOwn, DeadStaysDead, Entries,
   NoEntry, Nobody, Versions, Stages, Tasks

\* t's step to the end of what it does leaves nothing that could be certified.
LEMMA QuitKeeps ==
  ASSUME AccountsTyped, NEW t \in Tasks, Quit(t)
  PROVE  /\ pc' \in [Tasks -> Stages] /\ tok' \in [Tasks -> 0..MaxVersion]
         /\ stamp' \in [Tasks -> 0..MaxVersion] /\ began' \in [Tasks -> 0..MaxWait]
         /\ pc'[t] = "idle" /\ \A u \in Tasks \ {t} : pc'[u] = pc[u]
         /\ (\A u \in Tasks : pc[u] \in {"label", "profile"} => tok[u] = stamp[u])
            => \A u \in Tasks : pc'[u] \in {"label", "profile"} => tok'[u] = stamp'[u]
<1>1. 0 \in 0..MaxVersion /\ 0 \in 0..MaxWait
  BY ConstantsTyped
<1>2. QED BY <1>1 DEF AccountsTyped, Quit, Stages

LEMMA CardsStep == CardsInv /\ [Next]_vars => CardsInv'
<1> SUFFICES ASSUME CardsInv, [Next]_vars PROVE CardsInv'
  OBVIOUS
<1> USE DEF CardsInv, entryVars, emailVars, taskVars, ghosts
<1>1. ASSUME NEW t \in Tasks, Refresh(t) PROVE CardsInv'
  <2>1. 0 \in 0..MaxWait /\ "waiting" \in Stages
    BY ConstantsTyped DEF Stages
  <2>2. QED BY <1>1, <2>1 DEF Refresh, AccountsTyped, CertifiesItsOwn, DeadStaysDead
<1>2. ASSUME NEW t \in Tasks, Verify(t) PROVE CardsInv'
  <2>1. "label" \in Stages
    BY DEF Stages
  <2>2. QED BY <1>2, <2>1 DEF Verify, Nobody, AccountsTyped, CertifiesItsOwn, DeadStaysDead
<1>3. ASSUME NEW t \in Tasks, Enter(t) PROVE CardsInv'
  <2>1. CASE Fetch(t)
    <3>1. "usage" \in Stages /\ 0 \in 0..Aged
      BY ConstantsTyped DEF Stages
    <3>2. QED BY <2>1, <3>1 DEF Fetch, AccountsTyped, CertifiesItsOwn, DeadStaysDead
  <2>2. CASE Quit(t) /\ UNCHANGED <<file, newest, healthy, entryVars, emailVars, ghosts>>
    BY <2>2, QuitKeeps DEF AccountsTyped, CertifiesItsOwn, DeadStaysDead
  <2>3. QED BY <1>3, <2>1, <2>2 DEF Enter
<1>4. ASSUME NEW t \in Tasks, UsageRead(t) PROVE CardsInv'
  <2>1. /\ entry' \in Entries /\ disk' \in Entries /\ failures' \in Nat /\ pause' \in Int
        /\ DeadStaysDead'
    <3>1. /\ [known |-> TRUE, of |-> tok[t], age |-> began[t]] \in Entries
          /\ began[t] \in Int
      BY ConstantsTyped DEF AccountsTyped, Entries
    <3>2. /\ entry' = [known |-> TRUE, of |-> tok[t], age |-> began[t]] /\ disk' = entry'
          /\ failures' = 0 /\ refused' = FALSE
          /\ pause' = Expired \/ \E wait \in TTL..GateCap : pause' = wait - began[t]
      BY <1>4 DEF UsageRead, KeepReading
    <3>3. QED BY <3>1, <3>2, ConstantsTyped DEF DeadStaysDead
  <2>2. UNCHANGED <<file, newest, healthy, emailVars, since, asked>>
    BY <1>4 DEF UsageRead
  <2>3. CASE Quit(t)
    BY <2>1, <2>2, <2>3, QuitKeeps DEF AccountsTyped, CertifiesItsOwn
  <2>4. CASE file = tok[t] /\ AskWhose(t)
    <3>1. "label" \in Stages
      BY DEF Stages
    <3>2. QED BY <2>1, <2>2, <2>4, <3>1 DEF AskWhose, AccountsTyped, CertifiesItsOwn
  <2>5. QED BY <1>4, <2>3, <2>4 DEF UsageRead
<1>5. ASSUME NEW t \in Tasks, NEW retryAfter \in Nat, BackOff(t, retryAfter)
      PROVE  failures' \in Nat /\ pause' \in Int /\ asked' \in Nat
  <2>1. failures' \in Nat /\ pause' = Delay(failures', retryAfter) - began[t]
    BY <1>5, ConstantsTyped DEF BackOff, AccountsTyped, Least
  <2>2. pause' \in Int
    BY <2>1, DelayTyped, ConstantsTyped DEF AccountsTyped
  <2>3. asked' \in Nat
    BY <1>5 DEF BackOff, AccountsTyped, Most
  <2>4. QED BY <2>1, <2>2, <2>3
<1>6. ASSUME NEW t \in Tasks, UsageRefused(t) PROVE CardsInv'
  <2>1. /\ entry' \in Entries /\ disk' \in Entries /\ DeadStaysDead'
    BY <1>6, ConstantsTyped
    DEF UsageRefused, DeadStaysDead, NoEntry, Entries, AccountsTyped
  <2>2. failures' \in Nat /\ pause' \in Int /\ asked' \in Nat
    BY <1>5, <1>6 DEF UsageRefused
  <2>3. Quit(t) /\ UNCHANGED <<file, newest, healthy, emailVars, since>>
    BY <1>6 DEF UsageRefused
  <2>4. QED BY <2>1, <2>2, <2>3, QuitKeeps DEF AccountsTyped, CertifiesItsOwn
<1>7. ASSUME NEW t \in Tasks, UsageFailed(t) PROVE CardsInv'
  <2>1. /\ entry' \in Entries /\ disk' \in Entries /\ DeadStaysDead'
    BY <1>7 DEF UsageFailed, DeadStaysDead, Entries, AccountsTyped
  <2>2. failures' \in Nat /\ pause' \in Int /\ asked' \in Nat
    BY <1>5, <1>7, ConstantsTyped DEF UsageFailed
  <2>3. Quit(t) /\ UNCHANGED <<file, newest, healthy, emailVars, since>>
    BY <1>7 DEF UsageFailed
  <2>4. QED BY <2>1, <2>2, <2>3, QuitKeeps DEF AccountsTyped, CertifiesItsOwn
<1>8. ASSUME NEW t \in Tasks, Probe(t) PROVE CardsInv'
  <2>1. UNCHANGED <<file, newest, healthy, entryVars, emailVars, ghosts>> /\ pc[t] = "label"
    BY <1>8 DEF Probe
  <2>2. CASE Quit(t)
    BY <2>1, <2>2, QuitKeeps DEF AccountsTyped, CertifiesItsOwn, DeadStaysDead
  <2>3. CASE /\ pc' = [pc EXCEPT ![t] = "profile"] /\ began' = [began EXCEPT ![t] = 0]
             /\ UNCHANGED <<tok, stamp>>
    <3>1. "profile" \in Stages /\ 0 \in 0..MaxWait
      BY ConstantsTyped DEF Stages
    <3>2. QED BY <2>1, <2>3, <3>1 DEF AccountsTyped, CertifiesItsOwn, DeadStaysDead
  <2>4. QED BY <1>8, <2>2, <2>3 DEF Probe
<1>9. ASSUME NEW t \in Tasks, Certify(t) PROVE CardsInv'
  <2>1. /\ Quit(t) /\ UNCHANGED <<file, newest, healthy, entryVars, ghosts>>
        /\ pc[t] = "profile"
    BY <1>9 DEF Certify
  <2>2. email' = [of |-> stamp[t], who |-> Owner[tok[t]]] \/ email' = email
    BY <1>9 DEF Certify
  <2>3. email'.of # 0 => email'.who = Owner[email'.of]
    BY <2>1, <2>2 DEF CertifiesItsOwn
  <2>4. QED BY <2>1, <2>3, QuitKeeps DEF AccountsTyped, CertifiesItsOwn, DeadStaysDead
<1>10. ASSUME NEW t \in Tasks, ProbeFailed(t) PROVE CardsInv'
  <2>1. /\ Quit(t) /\ UNCHANGED <<file, newest, healthy, entryVars, email, ghosts>>
    BY <1>10 DEF ProbeFailed
  <2>2. QED BY <2>1, QuitKeeps DEF AccountsTyped, CertifiesItsOwn, DeadStaysDead
<1>16. ASSUME NEW t \in Tasks, BreaksOff(t) PROVE CardsInv'
  <2>1. /\ Quit(t)
        /\ UNCHANGED <<file, newest, healthy, entryVars, emailVars, asked, refused>>
    BY <1>16 DEF BreaksOff
  <2>2. since' \in 0..Aged
    BY <1>16, ConstantsTyped DEF BreaksOff, AccountsTyped
  <2>3. QED BY <2>1, <2>2, QuitKeeps DEF AccountsTyped, CertifiesItsOwn, DeadStaysDead
<1>11. CASE Look \/ Rotate \/ Vanish \/ Heal
  <2>1. UNCHANGED <<entryVars, taskVars, ghosts>> /\ (email' = Nobody \/ email' = email)
    BY <1>11 DEF Look, Rotate, Vanish, Heal
  <2>2. file' \in 0..MaxVersion /\ newest' \in Versions
    BY <1>11, ConstantsTyped DEF Look, Rotate, Vanish, Heal, AccountsTyped, Versions
  <2>3. QED BY <2>1, <2>2 DEF AccountsTyped, CertifiesItsOwn, DeadStaysDead, Nobody
<1>12. CASE Restart
  BY <1>12, ConstantsTyped
  DEF Restart, Nobody, Stages, AccountsTyped, CertifiesItsOwn, DeadStaysDead
<1>13. CASE Tick
  <2>1. ASSUME NEW e \in Entries PROVE Older(e) \in Entries /\ Older(e).of = e.of
    BY ConstantsTyped DEF Entries, Older, Least
  <2>2. began' \in [Tasks -> 0..MaxWait]
    <3>1. ASSUME NEW t \in Tasks
          PROVE  (IF pc[t] = "idle" THEN 0 ELSE began[t] + 1) \in 0..MaxWait
      BY <1>13, ConstantsTyped DEF Tick, AccountsTyped
    <3>2. QED BY <1>13, <3>1 DEF Tick
  <2>3. pause' \in Int /\ since' \in 0..Aged /\ asked' \in Nat
    BY <1>13, ConstantsTyped DEF Tick, AccountsTyped, Most, Least
  <2>4. /\ entry' = Older(entry) /\ disk' = Older(disk)
        /\ UNCHANGED <<file, newest, failures, email, pc, tok, stamp, refused>>
    BY <1>13 DEF Tick
  <2>5. QED BY <2>1, <2>2, <2>3, <2>4 DEF AccountsTyped, CertifiesItsOwn, DeadStaysDead
<1>14. CASE UNCHANGED vars
  BY <1>14 DEF vars, AccountsTyped, CertifiesItsOwn, DeadStaysDead
<1>15. QED
  BY <1>1, <1>2, <1>3, <1>4, <1>6, <1>7, <1>8, <1>9, <1>10, <1>11, <1>12, <1>13, <1>14, <1>16
  DEF Next, Progress

\* The label shown beside a credential is that of its own account, wherever rotations fell
\* between the reads, and once the endpoint has refused a credential its cache keeps no numbers
\* for it, after a restart neither (accounts.py _apply_email_probe, _apply_usage_auth_failure).
THEOREM CardsAreTrueHolds == Spec => []CardsAreTrue
<1>1. CardsInv => CardsAreTrue
  BY DEF CardsInv, CertifiesItsOwn, CardsAreTrue, EmailIsCertified
<1>2. QED BY <1>1, CardsInit, CardsStep, PTL DEF Spec

InLock == {"usage", "label", "profile"}

\* Only refreshers fetch, one at a time.
OneFetches ==
  /\ \A t \in Tasks : pc[t] \in {"waiting", "usage"} => t \in Refreshers
  /\ \A t, u \in Refreshers : pc[t] \in InLock /\ pc[u] \in InLock => t = u

\* While nobody fetches, the reading or the pause reaches back to the last fetch.
FetchIsRemembered ==
  \/ \E t \in Tasks : pc[t] = "usage"
  \/ entry.known /\ entry.age <= since + MaxWait
  \/ pause >= TTL - MaxWait - since

\* What the endpoint asked for is over but for a task's own waiting, or in the pause; whoever
\* fetches has let it pass.
AskedIsKept ==
  /\ asked <= MaxWait \/ asked <= pause + MaxWait
  /\ \A t \in Tasks : pc[t] = "usage" => asked <= MaxWait
  /\ pause >= Expired

PollsInv == CardsInv /\ OneFetches /\ FetchIsRemembered /\ AskedIsKept

LEMMA Shifted ==
  ASSUME NEW a \in Int, NEW b \in Int, NEW c \in Int, NEW d \in Int, b >= c - 1
  PROVE  a <= c + d => a - 1 <= b + d
OBVIOUS

LEMMA PollsInit == Init => PollsInv
<1> SUFFICES ASSUME Init PROVE PollsInv
  OBVIOUS
<1>1. since = Aged /\ pause = Expired /\ asked = 0 /\ \A t \in Tasks : pc[t] = "idle"
  BY DEF Init
<1>2. pause >= TTL - MaxWait - since /\ 0 <= MaxWait /\ pause >= Expired
  BY <1>1, ConstantsTyped
<1>3. QED
  BY <1>1, <1>2, CardsInit DEF PollsInv, OneFetches, FetchIsRemembered, AskedIsKept, InLock, Tasks

\* A step that leaves the books of the endpoint alone and nobody in the lock who was not.
LEMMA BooksUntouched ==
  ASSUME PollsInv, CardsInv', UNCHANGED <<entry, pause, since, asked>>,
         \A t \in Tasks : pc'[t] \in {"waiting", "usage"} => t \in Refreshers,
         \A t \in Tasks : pc'[t] = "usage" <=> pc[t] = "usage",
         \A t \in Refreshers : pc'[t] \in InLock => pc[t] \in InLock
  PROVE  PollsInv'
<1>1. OneFetches'
  BY DEF PollsInv, OneFetches, Tasks
<1>2. FetchIsRemembered' /\ AskedIsKept'
  BY DEF PollsInv, FetchIsRemembered, AskedIsKept
<1>3. QED BY <1>1, <1>2 DEF PollsInv

\* A fetch that ends, with a reading or a pause of at least TTL and of what was asked.
LEMMA FetchEnds ==
  ASSUME PollsInv, CardsInv', NEW t \in Tasks, pc[t] = "usage", pc'[t] \in {"idle", "label"},
         \A u \in Tasks \ {t} : pc'[u] = pc[u], since' = since,
         (entry'.known /\ entry'.age <= MaxWait) \/ pause' >= TTL - MaxWait,
         asked' <= MaxWait \/ asked' <= pause' + MaxWait, pause' >= Expired
  PROVE  PollsInv'
<1>1. t \in Refreshers /\ pc[t] \in InLock
  BY DEF PollsInv, OneFetches, InLock
<1>2. OneFetches'
  BY <1>1 DEF PollsInv, OneFetches, Tasks
<1>3. \A u \in Tasks : pc'[u] # "usage"
  BY <1>1 DEF PollsInv, OneFetches, InLock
<1>4. since \in Nat /\ pause' \in Int /\ entry'.age \in Nat
  BY ConstantsTyped DEF PollsInv, CardsInv, AccountsTyped, Entries
<1>5. FetchIsRemembered'
  BY <1>4, ConstantsTyped DEF FetchIsRemembered
<1>6. AskedIsKept'
  BY <1>3 DEF AskedIsKept, Expired
<1>7. QED BY <1>2, <1>5, <1>6 DEF PollsInv

LEMMA FailureKeeps ==
  ASSUME PowersGrow, PollsInv, NEW t \in Tasks, pc[t] = "usage", NEW retryAfter \in Nat,
         BackOff(t, retryAfter)
  PROVE  /\ pause' >= TTL - MaxWait /\ pause' >= Expired
         /\ asked' <= MaxWait \/ asked' <= pause' + MaxWait
<1>1. failures' \in Nat /\ pause' = Delay(failures', retryAfter) - began[t]
  BY ConstantsTyped DEF BackOff, PollsInv, CardsInv, AccountsTyped, Least
<1>2. /\ Delay(failures', retryAfter) \in Int /\ Delay(failures', retryAfter) >= retryAfter
      /\ Delay(failures', retryAfter) >= TTL
  BY <1>1, DelayTyped, DelayAtLeastTTL
<1>3. began[t] \in 0..MaxWait /\ asked \in Nat /\ asked <= MaxWait
  BY DEF PollsInv, CardsInv, AccountsTyped, AskedIsKept
<1>4. asked' \in {asked, retryAfter}
  BY DEF BackOff, Most
<1>5. QED BY <1>1, <1>2, <1>3, <1>4, ConstantsTyped

\* Whoever starts to fetch has let the last reading, the pause and the request pass.
LEMMA EnterIsSpaced ==
  ASSUME PollsInv, NEW t \in Tasks, pc[t] = "waiting", ~LockHeld, ~Withheld(t)
  PROVE  since >= TTL - MaxWait /\ asked <= MaxWait /\ \A u \in Tasks : pc[u] # "usage"
<1>1. /\ pause \in Int /\ since \in Nat /\ asked \in Nat /\ began[t] \in 0..MaxWait
      /\ entry.age \in Nat
  BY ConstantsTyped DEF PollsInv, CardsInv, AccountsTyped, Entries
<1>2. \A u \in Tasks : pc[u] # "usage"
  BY DEF LockHeld, PollsInv, OneFetches
<1>3. /\ entry.known => entry.age - began[t] >= TTL
      /\ pause + began[t] <= 0
  BY <1>1, ConstantsTyped DEF Withheld
<1>4. since >= TTL - MaxWait
  BY <1>1, <1>2, <1>3, ConstantsTyped DEF PollsInv, FetchIsRemembered
<1>5. asked <= MaxWait
  BY <1>1, <1>3, ConstantsTyped DEF PollsInv, AskedIsKept
<1>6. QED BY <1>2, <1>4, <1>5

LEMMA PollsStep == PowersGrow /\ PollsInv /\ [Next]_vars => PollsInv'
<1> SUFFICES ASSUME PowersGrow, PollsInv, [Next]_vars PROVE PollsInv'
  OBVIOUS
<1> USE DEF entryVars, emailVars, taskVars, ghosts
<1>a. CardsInv'
  BY CardsStep DEF PollsInv
<1>b. /\ pc \in [Tasks -> Stages]
      /\ \A t \in Tasks : pc[t] \in {"waiting", "usage"} => t \in Refreshers
  BY DEF PollsInv, CardsInv, AccountsTyped, OneFetches
<1>1. ASSUME NEW t \in Tasks, Refresh(t) PROVE PollsInv'
  <2>1. /\ t \in Refreshers /\ pc' = [pc EXCEPT ![t] = "waiting"] /\ pc[t] = "idle"
        /\ UNCHANGED <<entry, pause, since, asked>>
    BY <1>1 DEF Refresh
  <2>2. QED BY <2>1, <1>a, <1>b, BooksUntouched DEF InLock
<1>2. ASSUME NEW t \in Tasks, Verify(t) PROVE PollsInv'
  <2>1. /\ t \in Verifiers /\ pc' = [pc EXCEPT ![t] = "label"] /\ pc[t] = "idle"
        /\ UNCHANGED <<entry, pause, since, asked>>
    BY <1>2 DEF Verify
  <2>2. t \notin Refreshers
    BY <2>1, ConstantsTyped
  <2>3. QED BY <2>1, <2>2, <1>a, <1>b, BooksUntouched DEF InLock
<1>3. ASSUME NEW t \in Tasks, Quit(t), UNCHANGED <<entry, pause, since, asked>>, pc[t] # "usage"
      PROVE  PollsInv'
  <2>1. pc' = [pc EXCEPT ![t] = "idle"]
    BY <1>3 DEF Quit
  <2>2. QED BY <2>1, <1>3, <1>a, <1>b, BooksUntouched DEF InLock
<1>4. ASSUME NEW t \in Tasks, Enter(t) PROVE PollsInv'
  <2>1. CASE ~Withheld(t) /\ file # 0 /\ Fetch(t)
    <3>1. /\ pc[t] = "waiting" /\ ~LockHeld /\ pc' = [pc EXCEPT ![t] = "usage"]
          /\ UNCHANGED <<pause, asked>>
      BY <1>4, <2>1 DEF Enter, Fetch
    <3>2. asked <= MaxWait
      BY <2>1, <3>1, EnterIsSpaced
    <3>3. OneFetches'
      BY <3>1, <1>b DEF PollsInv, OneFetches, LockHeld, InLock, Tasks
    <3>4. FetchIsRemembered' /\ AskedIsKept'
      BY <3>1, <3>2, <1>b DEF FetchIsRemembered, AskedIsKept, PollsInv
    <3>5. QED BY <1>a, <3>3, <3>4 DEF PollsInv
  <2>2. CASE Quit(t) /\ UNCHANGED <<file, newest, healthy, entryVars, emailVars, ghosts>>
    BY <1>4, <2>2, <1>3 DEF Enter
  <2>3. QED BY <1>4, <2>1, <2>2 DEF Enter
<1>5. ASSUME NEW t \in Tasks, UsageRead(t) PROVE PollsInv'
  <2>1. /\ entry' = [known |-> TRUE, of |-> tok[t], age |-> began[t]]
        /\ pause' = Expired \/ \E wait \in TTL..GateCap : pause' = wait - began[t]
        /\ UNCHANGED <<since, asked>> /\ pc[t] = "usage"
    BY <1>5 DEF UsageRead, KeepReading
  <2>2. began[t] \in 0..MaxWait /\ asked <= MaxWait
    BY <2>1 DEF PollsInv, CardsInv, AccountsTyped, AskedIsKept
  <2>3. entry'.known /\ entry'.age <= MaxWait /\ pause' >= Expired
    BY <2>1, <2>2, ConstantsTyped
  <2>4. /\ pc'[t] \in {"idle", "label"}
        /\ \A u \in Tasks \ {t} : pc'[u] = pc[u]
    BY <1>5, <1>b DEF UsageRead, Quit, AskWhose
  <2>5. QED BY <2>1, <2>2, <2>3, <2>4, <1>a, FetchEnds
<1>6. ASSUME NEW t \in Tasks, pc[t] = "usage", Quit(t), since' = since,
             NEW retryAfter \in Nat, BackOff(t, retryAfter)
      PROVE  PollsInv'
  <2>1. /\ pc'[t] \in {"idle", "label"}
        /\ \A u \in Tasks \ {t} : pc'[u] = pc[u]
    BY <1>6, <1>b DEF Quit
  <2>2. /\ pause' >= TTL - MaxWait /\ pause' >= Expired
        /\ asked' <= MaxWait \/ asked' <= pause' + MaxWait
    BY <1>6, FailureKeeps
  <2>3. QED BY <1>6, <2>1, <2>2, <1>a, FetchEnds
<1>7. ASSUME NEW t \in Tasks, UsageRefused(t) \/ UsageFailed(t) PROVE PollsInv'
  <2>1. \E retryAfter \in Nat : BackOff(t, retryAfter)
    BY <1>7, ConstantsTyped DEF UsageRefused, UsageFailed
  <2>2. pc[t] = "usage" /\ Quit(t) /\ since' = since
    BY <1>7 DEF UsageRefused, UsageFailed
  <2>3. QED BY <2>1, <2>2, <1>6
<1>8. ASSUME NEW t \in Tasks, Probe(t) PROVE PollsInv'
  <2>1. UNCHANGED <<entry, pause, since, asked>> /\ pc[t] = "label"
    BY <1>8 DEF Probe
  <2>2. CASE Quit(t)
    BY <2>1, <2>2, <1>3
  <2>3. CASE pc' = [pc EXCEPT ![t] = "profile"]
    BY <2>1, <2>3, <1>a, <1>b, BooksUntouched DEF InLock
  <2>4. QED BY <1>8, <2>2, <2>3 DEF Probe
<1>9. ASSUME NEW t \in Tasks, Certify(t) \/ ProbeFailed(t) PROVE PollsInv'
  <2>1. UNCHANGED <<entry, pause, since, asked>> /\ pc[t] = "profile" /\ Quit(t)
    BY <1>9 DEF Certify, ProbeFailed
  <2>2. QED BY <2>1, <1>3
<1>14. ASSUME NEW t \in Tasks, BreaksOff(t), pc[t] = "profile" PROVE PollsInv'
  <2>1. UNCHANGED <<entry, pause, since, asked>> /\ Quit(t)
    BY <1>14 DEF BreaksOff
  <2>2. QED BY <2>1, <1>14, <1>3
<1>15. ASSUME NEW t \in Tasks, BreaksOff(t), pc[t] = "usage" PROVE PollsInv'
  <2>1. /\ UNCHANGED <<entry, pause, asked>> /\ since' = Aged
        /\ pc' = [pc EXCEPT ![t] = "idle"]
    BY <1>15 DEF BreaksOff, Quit
  <2>2. OneFetches'
    BY <2>1, <1>b DEF PollsInv, OneFetches, InLock, Tasks
  <2>3. pause' >= TTL - MaxWait - since'
    BY <2>1, ConstantsTyped DEF PollsInv, AskedIsKept, CardsInv, AccountsTyped
  <2>4. AskedIsKept'
    BY <2>1, <1>b DEF PollsInv, AskedIsKept, Expired
  <2>5. QED BY <2>2, <2>3, <2>4, <1>a DEF PollsInv, FetchIsRemembered
<1>16. ASSUME NEW t \in Tasks, BreaksOff(t) PROVE PollsInv'
  BY <1>14, <1>15, <1>16 DEF BreaksOff
<1>10. CASE Look \/ Rotate \/ Vanish \/ Heal \/ UNCHANGED vars
  <2>1. UNCHANGED <<entry, pause, since, asked, pc>>
    BY <1>10 DEF Look, Rotate, Vanish, Heal, vars
  <2>2. QED BY <2>1, <1>a, <1>b, BooksUntouched
<1>11. CASE Restart
  <2>1. since' = Aged /\ pause' = Expired /\ asked' = 0 /\ \A t \in Tasks : pc'[t] = "idle"
    BY <1>11 DEF Restart
  <2>2. pause' >= TTL - MaxWait - since' /\ 0 <= MaxWait /\ pause' >= Expired
    BY <2>1, ConstantsTyped
  <2>3. OneFetches' /\ FetchIsRemembered' /\ AskedIsKept'
    BY <2>1, <2>2 DEF OneFetches, FetchIsRemembered, AskedIsKept, InLock, Tasks, Expired
  <2>4. QED BY <2>3, <1>a DEF PollsInv
<1>12. CASE Tick
  <2>1. /\ entry' = Older(entry) /\ pause' = Most(pause - 1, Expired)
        /\ since' = Least(since + 1, Aged) /\ asked' = Most(asked - 1, 0) /\ pc' = pc
    BY <1>12 DEF Tick
  <2>2. /\ pause \in Int /\ since \in 0..Aged /\ asked \in Nat /\ entry \in Entries
    BY DEF PollsInv, CardsInv, AccountsTyped
  <2>3. /\ entry'.known = entry.known /\ entry'.age = Least(entry.age + 1, Aged)
        /\ entry.age \in Nat
    BY <2>1, <2>2 DEF Older, Entries
  <2>4. /\ pause' \in Int /\ pause' >= pause - 1 /\ pause' >= Expired
        /\ asked' \in {asked - 1, 0}
        /\ since' = since + 1 \/ since' = Aged
    BY <2>1, <2>2, ConstantsTyped DEF Most, Least
  <2>5. entry'.age <= entry.age + 1 /\ entry'.age <= Aged /\ entry'.age \in Nat
    BY <2>3, ConstantsTyped DEF Least
  <2>6. FetchIsRemembered'
    <3>1. CASE \E t \in Tasks : pc[t] = "usage"
      BY <2>1, <3>1 DEF FetchIsRemembered
    <3>2. CASE entry.known /\ entry.age <= since + MaxWait
      BY <2>2, <2>3, <2>4, <2>5, <3>2, ConstantsTyped DEF FetchIsRemembered
    <3>3. CASE pause >= TTL - MaxWait - since
      BY <2>2, <2>4, <3>3, ConstantsTyped DEF FetchIsRemembered
    <3>4. QED BY <3>1, <3>2, <3>3 DEF PollsInv, FetchIsRemembered
  <2>7. AskedIsKept'
    <3>1. asked' <= MaxWait \/ asked' <= pause' + MaxWait
      <4>1. asked <= MaxWait \/ asked <= pause + MaxWait
        BY DEF PollsInv, AskedIsKept
      <4>2. CASE asked' = 0
        BY <4>2, ConstantsTyped
      <4>3. CASE asked' = asked - 1
        <5>1. asked <= MaxWait => asked - 1 <= MaxWait
          BY <2>2, ConstantsTyped
        <5>2. asked <= pause + MaxWait => asked - 1 <= pause' + MaxWait
          <6>1. /\ pause \in Int /\ pause' \in Int
                /\ asked \in Int /\ MaxWait \in Int /\ pause' >= pause - 1
            BY <2>2, <2>4, ConstantsTyped
          <6>2. QED BY <6>1, Shifted
        <5>3. QED BY <4>1, <4>3, <5>1, <5>2
      <4>4. QED BY <2>4, <4>2, <4>3
    <3>2. asked <= MaxWait => asked' <= MaxWait
      BY <2>2, <2>4, ConstantsTyped
    <3>3. QED BY <2>1, <2>4, <3>1, <3>2 DEF PollsInv, AskedIsKept, Expired
  <2>8. OneFetches'
    BY <2>1 DEF PollsInv, OneFetches
  <2>9. QED BY <2>6, <2>7, <2>8, <1>a DEF PollsInv
<1>13. QED
  BY <1>1, <1>2, <1>4, <1>5, <1>7, <1>8, <1>9, <1>10, <1>11, <1>12, <1>16 DEF Next, Progress

LEMMA PollsAreSpacedStep ==
  ASSUME PollsInv, [Next]_vars, NEW t \in Refreshers, pc[t] = "waiting", pc'[t] = "usage"
  PROVE  since >= TTL - MaxWait /\ asked <= MaxWait /\ \A u \in Tasks : pc[u] # "usage"
<1> USE DEF entryVars, emailVars, taskVars, ghosts
<1>0. t \in Tasks /\ pc \in [Tasks -> Stages]
  BY DEF PollsInv, CardsInv, AccountsTyped, Tasks
<1>1. Enter(t) /\ pc'[t] = "usage" => ~LockHeld /\ ~Withheld(t)
  BY <1>0 DEF Enter, Quit
<1>2. ASSUME NEW u \in Tasks, Refresh(u) \/ Verify(u) PROVE FALSE
  BY <1>0, <1>2 DEF Refresh, Verify
<1>3. ASSUME NEW u \in Tasks, Progress(u) PROVE Enter(t)
  <2>1. CASE u = t
    BY <1>3, <2>1 DEF Progress, UsageRead, UsageRefused, UsageFailed, Probe, Certify, ProbeFailed,
       BreaksOff
  <2>2. CASE u # t
    BY <1>0, <1>3, <2>2 DEF Progress, Enter, Fetch, UsageRead, UsageRefused, UsageFailed,
       Probe, Certify, ProbeFailed, BreaksOff, Quit, AskWhose
  <2>3. QED BY <2>1, <2>2
<1>4. Look \/ Rotate \/ Vanish \/ Heal \/ Tick \/ UNCHANGED vars => pc' = pc
  BY DEF Look, Rotate, Vanish, Heal, Tick, vars
<1>5. Restart => pc'[t] = "idle"
  BY <1>0 DEF Restart
<1>6. Enter(t)
  BY <1>2, <1>3, <1>4, <1>5 DEF Next
<1>7. QED BY <1>0, <1>1, <1>6, EnterIsSpaced

\* However many refreshes are asked for, a process fetches usage one at a time, once in TTL at
\* most, and not while the endpoint has asked it to stay away, but for the time a refresh itself
\* has to wait (accounts.py _refresh_one, _failed_poll_backoff_until).  The spacing is from the
\* last fetch that was recorded: one that breaks off on an answer that is not JSON leaves none.
THEOREM PollsAreSpacedHolds == PowersGrow => (Spec => PollsAreSpaced)
<1> DEFINE P == \A t \in Refreshers : pc[t] = "waiting" /\ pc'[t] = "usage" =>
                  /\ since >= TTL - MaxWait /\ asked <= MaxWait
                  /\ \A u \in Tasks : pc[u] # "usage"
<1> SUFFICES ASSUME PowersGrow PROVE Spec => PollsAreSpaced
  OBVIOUS
<1>1. PollsInv /\ [Next]_vars => PollsInv'
  BY PollsStep
<1>2. PollsInv /\ [Next]_vars => [P]_vars
  BY PollsAreSpacedStep
<1>3. QED BY <1>1, <1>2, PollsInit, PTL DEF Spec, PollsAreSpaced

-----------------------------------------------------------------------------
(* IdentityGuard: two credential stores of one account. *)

Suspicions == SUBSET [email : Emails, stores : SUBSET Stores]
Verification == [key : Suspicions, pass : Int, todo : SUBSET Stores, listed : BOOLEAN,
         state : {"none", "live", "over"}]

VerifiersOK == tasks \in [1..MaxTasks -> Verification]

\* A live task is listed under its suspicion, and nothing else is listed under it.
ListIsExact ==
  /\ \A t \in DOMAIN tasks : Guard!Live(t) => tasks[t].listed
  /\ \A t, u \in DOMAIN tasks :
       tasks[t].listed /\ tasks[u].listed /\ tasks[t].key = tasks[u].key => t = u

\* The list alone carries OneVerifier; the two halves about warnings need that somebody
\* is live whenever a spawn returns.
GuardInv ==
  /\ VerifiersOK /\ ListIsExact
  /\ Guard!DuplicatesAreWarnedOf /\ Guard!SuspicionsAreFollowedUp

\* identity_state returns groups of stores.
LEMMA VerdictTyped ==
  Guard!Verdict.suspected \in Suspicions /\ (Guard!Verdict.suspected)' \in Suspicions
BY DEF Guard!Verdict, Guard!Groups, Suspicions

\* After a spawn the list is exact and somebody verifies the suspicion.
LEMMA SpawnKeepsList ==
  ASSUME VerifiersOK, ListIsExact, NEW key \in Suspicions, Guard!Spawn(key)
  PROVE  VerifiersOK' /\ ListIsExact' /\ (\E t \in DOMAIN tasks : Guard!Live(t))'
<1>1. CASE \E t \in DOMAIN tasks : Guard!ListedAs(t, key) /\ Guard!Live(t)
  BY <1>1 DEF Guard!Spawn, VerifiersOK, ListIsExact, Guard!Live
<1>2. CASE ~(\E t \in DOMAIN tasks : Guard!ListedAs(t, key) /\ Guard!Live(t))
  <2>1. Guard!Slot \in DOMAIN tasks /\ DOMAIN tasks = 1..MaxTasks /\ tasks' = Guard!Listing(key)
    <3>1. Guard!Free # {} /\ tasks' = Guard!Listing(key)
      BY <1>2 DEF Guard!Spawn
    <3>2. PICK t \in Guard!Free : TRUE
      BY <3>1
    <3>3. Guard!Slot \in Guard!Free
      BY <3>2, Zenon DEF Guard!Slot
    <3>4. QED BY <3>1, <3>3 DEF Guard!Free, VerifiersOK
  <2>2. VerifiersOK'
    <3>1. ASSUME NEW t \in 1..MaxTasks PROVE Guard!Listing(key)[t] \in Verification
      <4>1. tasks[t] \in Verification /\ t \in DOMAIN tasks
        BY DEF VerifiersOK
      <4>2. [key |-> key, pass |-> 0, todo |-> {}, listed |-> TRUE,
           state |-> "live"] \in Verification
        BY DEF Verification
      <4>3. [tasks[t] EXCEPT !.listed = FALSE] \in Verification
        BY <4>1 DEF Verification
      <4>4. QED BY <4>1, <4>2, <4>3 DEF Guard!Listing
    <3>2. Guard!Listing(key) \in [1..MaxTasks -> Verification]
      BY <3>1, <2>1 DEF Guard!Listing
    <3>3. QED BY <2>1, <3>2 DEF VerifiersOK
  <2>3. ASSUME NEW t \in DOMAIN tasks
        PROVE  /\ tasks'[t].key = IF t = Guard!Slot THEN key ELSE tasks[t].key
               /\ tasks'[t].state = IF t = Guard!Slot THEN "live" ELSE tasks[t].state
               /\ tasks'[t].listed = (t = Guard!Slot \/ (tasks[t].listed /\ tasks[t].key # key))
    BY <2>1 DEF Guard!Listing, VerifiersOK, Verification, Guard!ListedAs
  <2>4. DOMAIN tasks' = DOMAIN tasks
    BY <2>1 DEF Guard!Listing
  <2>5. ListIsExact'
    <3>1. \A t \in DOMAIN tasks : tasks[t].listed /\ tasks[t].key = key => ~Guard!Live(t)
      BY <1>2 DEF Guard!ListedAs
    <3>2. ASSUME NEW t \in DOMAIN tasks', Guard!Live(t)' PROVE tasks'[t].listed
      BY <2>3, <2>4, <3>1, <3>2 DEF ListIsExact, Guard!Live
    <3>3. ASSUME NEW t \in DOMAIN tasks', NEW u \in DOMAIN tasks', tasks'[t].listed,
                 tasks'[u].listed, tasks'[t].key = tasks'[u].key
          PROVE  t = u
      BY <2>3, <2>4, <3>3 DEF ListIsExact
    <3>4. QED BY <3>2, <3>3 DEF ListIsExact
  <2>6. (\E t \in DOMAIN tasks : Guard!Live(t))'
    BY <2>1, <2>3, <2>4 DEF Guard!Live
  <2>7. QED BY <2>2, <2>5, <2>6
<1>3. QED BY <1>1, <1>2

\* A verifier that ends leaves nothing on the books that nobody was warned of.
LEMMA ConcludeKeepsInv ==
  ASSUME GuardInv, NEW t \in DOMAIN tasks, Guard!Conclude(t)
  PROVE  GuardInv'
<1>1. VerifiersOK' /\ ListIsExact'
  BY DEF GuardInv, Guard!Conclude, VerifiersOK, Verification, ListIsExact, Guard!Live
<1>2. Guard!DuplicatesAreWarnedOf'
  BY DEF GuardInv, Guard!Conclude, Guard!DuplicatesAreWarnedOf
<1>3. Guard!SuspicionsAreFollowedUp'
  BY DEF Guard!Conclude, Guard!SuspicionsAreFollowedUp
<1>4. QED BY <1>1, <1>2, <1>3 DEF GuardInv

\* A step of a task that goes on, and the books as they were.
LEMMA TaskGoesOn ==
  ASSUME GuardInv, NEW t \in DOMAIN tasks, Guard!Live(t), NEW pass \in Int,
       NEW todo \in SUBSET Stores,
         tasks' = [tasks EXCEPT ![t] = [tasks[t] EXCEPT !.pass = pass, !.todo = todo]],
         UNCHANGED <<sig, emitted, warned, broken>>
  PROVE  GuardInv'
<1>1. VerifiersOK'
  BY DEF GuardInv, VerifiersOK, Verification
<1>2. ASSUME NEW u \in DOMAIN tasks
      PROVE  /\ tasks'[u].key = tasks[u].key /\ tasks'[u].state = tasks[u].state
             /\ tasks'[u].listed = tasks[u].listed
  BY DEF GuardInv, VerifiersOK, Verification
<1>3. DOMAIN tasks' = DOMAIN tasks
  OBVIOUS
<1>4. ListIsExact' /\ (\E u \in DOMAIN tasks : Guard!Live(u))'
  BY <1>2, <1>3 DEF GuardInv, ListIsExact, Guard!Live
<1>5. QED BY <1>1, <1>4 DEF GuardInv, Guard!DuplicatesAreWarnedOf, Guard!SuspicionsAreFollowedUp

LEMMA NextPassKeepsInv ==
  ASSUME GuardInv, NEW t \in DOMAIN tasks, Guard!Live(t), Guard!NextPass(t)
  PROVE  GuardInv'
<1> DEFINE todo == {s \in UNION {g.stores : g \in tasks[t].key} : ~probed'[s]}
<1>1. CASE tasks[t].pass < 2 /\ todo # {}
  <2>1. tasks[t].pass + 1 \in Int /\ todo \in SUBSET Stores
    BY DEF GuardInv, VerifiersOK, Verification, Suspicions
  <2>2. tasks' = [tasks EXCEPT ![t] = [tasks[t] EXCEPT !.pass = tasks[t].pass + 1,
                                                        !.todo = todo]]
    BY <1>1 DEF Guard!NextPass, GuardInv, VerifiersOK, Verification
  <2>3. UNCHANGED <<sig, emitted, warned, broken>>
    BY <1>1, Zenon DEF Guard!NextPass
  <2>4. QED BY <2>1, <2>2, <2>3, TaskGoesOn
<1>2. CASE ~(tasks[t].pass < 2 /\ todo # {})
  BY <1>2, ConcludeKeepsInv DEF Guard!NextPass
<1>3. QED BY <1>1, <1>2

LEMMA GuardStart == Guard!IdentityInit => GuardInv
BY DEF Guard!IdentityInit, GuardInv, VerifiersOK, Verification, Suspicions, Guard!NoTask,
     Guard!NoVerdict, ListIsExact, Guard!Live,
       Guard!DuplicatesAreWarnedOf, Guard!SuspicionsAreFollowedUp

LEMMA GuardStep == GuardInv /\ [Guard!IdentityNext]_(Guard!identityVars) => GuardInv'
<1> SUFFICES ASSUME GuardInv, [Guard!IdentityNext]_(Guard!identityVars) PROVE GuardInv'
  OBVIOUS
<1>1. CASE Guard!HealthPoll
  <2>1. Guard!DuplicatesAreWarnedOf'
    BY <1>1 DEF Guard!HealthPoll, Guard!DuplicatesAreWarnedOf
  <2>2. CASE Guard!Verdict.suspected = {}
    BY <1>1, <2>1, <2>2 DEF Guard!HealthPoll, GuardInv, VerifiersOK, ListIsExact, Guard!Live,
         Guard!SuspicionsAreFollowedUp
  <2>3. CASE Guard!Verdict.suspected # {}
    <3>1. Guard!Spawn(Guard!Verdict.suspected)
      BY <1>1, <2>3 DEF Guard!HealthPoll
    <3>2. VerifiersOK' /\ ListIsExact' /\ (\E t \in DOMAIN tasks : Guard!Live(t))'
      BY <3>1, VerdictTyped, SpawnKeepsList DEF GuardInv
    <3>3. QED BY <2>1, <3>2 DEF GuardInv, Guard!SuspicionsAreFollowedUp
  <2>4. QED BY <2>2, <2>3
<1>2. CASE Guard!Login \/ Guard!Promote \/ Guard!RefreshEmail
  <2>1. UNCHANGED <<sig, emitted, tasks, warned, broken>>
    BY <1>2 DEF Guard!Login, Guard!Promote, Guard!RefreshEmail, Guard!Rewritten
  <2>2. QED
    BY <2>1 DEF GuardInv, VerifiersOK, ListIsExact, Guard!Live, Guard!DuplicatesAreWarnedOf,
         Guard!SuspicionsAreFollowedUp
<1>3. ASSUME NEW t \in DOMAIN tasks, Guard!Begin(t) PROVE GuardInv'
  BY <1>3, NextPassKeepsInv DEF Guard!Begin
<1>4. ASSUME NEW t \in DOMAIN tasks, Guard!Probe(t) PROVE GuardInv'
  <2>1. PICK s \in tasks[t].todo :
          IF tasks[t].todo = {s} THEN Guard!NextPass(t)
          ELSE /\ tasks' = [tasks EXCEPT ![t].todo = @ \ {s}]
               /\ UNCHANGED <<sig, emitted, warned, broken>>
    BY <1>4 DEF Guard!Probe
  <2>2. Guard!Live(t)
    BY <1>4 DEF Guard!Probe
  <2>3. CASE tasks[t].todo = {s}
    BY <2>1, <2>2, <2>3, NextPassKeepsInv
  <2>4. CASE tasks[t].todo # {s}
    <3>1. /\ tasks' = [tasks EXCEPT ![t] = [tasks[t] EXCEPT !.pass = tasks[t].pass,
                                                            !.todo = tasks[t].todo \ {s}]]
          /\ tasks[t].pass \in Int /\ tasks[t].todo \ {s} \in SUBSET Stores
      BY <2>1, <2>4 DEF GuardInv, VerifiersOK, Verification
    <3>2. UNCHANGED <<sig, emitted, warned, broken>>
      BY <2>1, <2>4, Zenon
    <3>3. QED BY <2>2, <3>1, <3>2, TaskGoesOn
  <2>5. QED BY <2>3, <2>4
<1>5. ASSUME NEW t \in DOMAIN tasks, Guard!Cleanup(t) PROVE GuardInv'
  <2>1. /\ Guard!Over(t) /\ tasks' = [tasks EXCEPT ![t] = Guard!NoTask] /\ UNCHANGED <<sig, emitted, warned, broken>>
    BY <1>5 DEF Guard!Cleanup
  <2>2. VerifiersOK'
    BY <2>1 DEF GuardInv, VerifiersOK, Verification, Guard!NoTask, Suspicions
  <2>3. DOMAIN tasks' = DOMAIN tasks /\ tasks'[t] = Guard!NoTask
        /\ \A u \in DOMAIN tasks : u # t => tasks'[u] = tasks[u]
    BY <2>1 DEF GuardInv, VerifiersOK
  <2>4. ListIsExact'
    BY <2>3 DEF GuardInv, ListIsExact, Guard!Live, Guard!NoTask
  <2>5. Guard!SuspicionsAreFollowedUp'
    BY <2>1, <2>3 DEF GuardInv, Guard!SuspicionsAreFollowedUp, Guard!Live, Guard!Over
  <2>6. QED BY <2>1, <2>2, <2>4, <2>5 DEF GuardInv, Guard!DuplicatesAreWarnedOf
<1>6. ASSUME NEW t \in DOMAIN tasks, Guard!BreakOff(t) PROVE GuardInv'
  <2>1. /\ tasks' = [tasks EXCEPT ![t].state = "over", ![t].todo = {}]
        /\ broken' = TRUE /\ UNCHANGED <<sig, emitted, warned>>
    BY <1>6 DEF Guard!BreakOff
  <2>2. VerifiersOK' /\ ListIsExact'
    BY <2>1 DEF GuardInv, VerifiersOK, Verification, ListIsExact, Guard!Live
  <2> QED BY <2>1, <2>2 DEF GuardInv, Guard!DuplicatesAreWarnedOf, Guard!SuspicionsAreFollowedUp
<1>7. CASE UNCHANGED Guard!identityVars
  BY <1>7 DEF Guard!identityVars, GuardInv, VerifiersOK, ListIsExact, Guard!Live,
       Guard!DuplicatesAreWarnedOf,
              Guard!SuspicionsAreFollowedUp
<1>8. QED BY <1>1, <1>2, <1>3, <1>4, <1>5, <1>6, <1>7 DEF Guard!IdentityNext

\* Whatever order polls, logins, swaps, probes and done-callbacks come in, a verified
\* collision the guard has seen was warned of, a suspicion it has seen is being verified or
\* was warned of unless its task broke off, and no suspicion has two verifiers (proxy.py, the FR-005 guard).
THEOREM CollisionsAreFollowedUpHolds == Guard!IdentitySpec => []Guard!CollisionsAreFollowedUp
<1>1. GuardInv => Guard!CollisionsAreFollowedUp
  BY DEF GuardInv, ListIsExact, Guard!OneVerifier, Guard!CollisionsAreFollowedUp
<1>2. QED BY <1>1, GuardStart, GuardStep, PTL DEF Guard!IdentitySpec

-----------------------------------------------------------------------------
(* QueueWait: one model request through the client. *)

Exchange ==
  [answer : {"none", "queue", "lookalike", "other", "fine"}, body : {"none", "unread", "read"},
   back : BOOLEAN, stop : BOOLEAN]
Endings == {"native", "gave up", "done", "error", "aborted"}

ClientTyped ==
  /\ clientPc \in {"dispatch", "streaming", "settling", "waiting", "ended"}
  /\ fetches \in Seq(Exchange)
  /\ rejection \in Nat /\ rejections \in Nat /\ waited \in Nat /\ delay \in Nat /\ proven \in Nat
  /\ saw \in BOOLEAN /\ out \in [through : BOOLEAN, terminal : Seq(Endings)]

\* The latest fetch is answered and handed back, and the native stream will not ask again.
LastOne(asked1, len) ==
  /\ len > 0 /\ asked1[len].back
  /\ asked1[len].stop \/ (NativeRetries = 0 /\ asked1[len].answer = "queue")

\* A verdict is about the latest fetch, whose copy is the one that is waited for.
VerdictIsLatest ==
  /\ Len(fetches) > 0 /\ fetches[Len(fetches)].body # "none" => capture = Len(fetches)
  /\ rejection # 0 =>
       Len(fetches) > 0 /\ fetches[Len(fetches)].answer = "queue" /\ capture = Len(fetches)

\* What went through is of this attempt, and none is waited for after that.
ThroughIsNow ==
  /\ clientPc \in {"streaming", "settling"} => out.through = saw
  /\ clientPc \in {"dispatch", "waiting"} => ~out.through
  /\ clientPc = "waiting" => rejection # 0

\* What has been counted of the rejections at each stage.
CountIsKept ==
  /\ rejections <= MaxRejections + 1 /\ waited <= ClientMaxWait
  /\ clientPc # "ended" => rejections <= MaxRejections
  /\ clientPc = "waiting" => waited + delay <= ClientMaxWait
  /\ ~out.through =>
       /\ proven <= rejections + 1
       /\ clientPc \in {"dispatch", "waiting"} => proven <= rejections
       /\ clientPc \in {"streaming", "settling"} =>
            proven <= rejections \/ LastOne(fetches, Len(fetches))

ClientInv ==
  ClientTyped /\ Client!EndsOnce /\ VerdictIsLatest /\ ThroughIsNow /\ CountIsKept

LEMMA ClientStart == ClientParameters /\ Client!Init => ClientInv
<1> SUFFICES ASSUME ClientParameters, Client!Init PROVE ClientInv
  OBVIOUS
<1>1. /\ clientPc = "dispatch" /\ fetches = <<>> /\ rejection = 0 /\ saw = FALSE
      /\ rejections = 0 /\ waited = 0 /\ delay = 0 /\ proven = 0
      /\ out = [through |-> FALSE, terminal |-> <<>>] /\ waiting = FALSE
  BY DEF Client!Init
<1>2. <<>> \in Seq(Exchange) /\ <<>> \in Seq(Endings) /\ Len(<<>>) = 0
  OBVIOUS
<1>3. /\ out.through = FALSE /\ out.terminal = <<>>
      /\ out \in [through : BOOLEAN, terminal : Seq(Endings)]
  BY <1>1, <1>2
<1>4. ClientTyped
  BY <1>1, <1>2, <1>3 DEF ClientTyped
<1>5. Client!EndsOnce /\ VerdictIsLatest /\ ThroughIsNow
  BY <1>1, <1>2, <1>3 DEF Client!EndsOnce, VerdictIsLatest, ThroughIsNow
<1>6. CountIsKept
  BY <1>1, <1>3 DEF CountIsKept, ClientParameters
<1>7. QED BY <1>4, <1>5, <1>6 DEF ClientInv

LEMMA OutEnds ==
  ASSUME ClientTyped, NEW how \in Endings, Client!End(how)
  PROVE  /\ clientPc' = "ended" /\ waiting' = FALSE
         /\ out' \in [through : BOOLEAN, terminal : Seq(Endings)] /\ out'.through = out.through
         /\ Len(out'.terminal) = Len(out.terminal) + 1
<1>1. /\ clientPc' = "ended" /\ waiting' = FALSE
      /\ out' = [out EXCEPT !.terminal = Append(out.terminal, how)]
  BY DEF Client!End
<1>2. /\ Append(out.terminal, how) \in Seq(Endings)
      /\ Len(Append(out.terminal, how)) = Len(out.terminal) + 1
      /\ out \in [through : BOOLEAN, terminal : Seq(Endings)]
  BY DEF ClientTyped
<1>3. QED BY <1>1, <1>2

LEMMA CountsGrow ==
  ASSUME NEW n \in Nat, NEW r \in Nat, NEW s \in Nat, s >= r
  PROVE  n <= r + 1 => n <= s + 1
OBVIOUS

\* The end of the loop, from wherever it is.
LEMMA EndKeeps ==
  ASSUME ClientInv, clientPc # "ended", NEW how \in Endings, Client!End(how),
         UNCHANGED <<fetches, rejection, capture, saw, waited, proven>>,
         rejections' \in Nat, rejections' <= MaxRejections + 1, rejections' >= rejections,
         delay' \in Nat
  PROVE  ClientInv'
<1>1. clientPc' = "ended" /\ waiting' = FALSE
  BY OutEnds DEF ClientInv
<1>3. /\ out' \in [through : BOOLEAN, terminal : Seq(Endings)] /\ out'.through = out.through
      /\ Len(out'.terminal) = Len(out.terminal) + 1
  BY OutEnds DEF ClientInv
<1>4. ClientTyped'
  BY <1>1, <1>3 DEF ClientInv, ClientTyped
<1>5. Client!EndsOnce'
  BY <1>1, <1>3 DEF ClientInv, Client!EndsOnce
<1>6. VerdictIsLatest' /\ ThroughIsNow'
  BY <1>1 DEF ClientInv, VerdictIsLatest, ThroughIsNow
<1>7. CountIsKept'
  <2>1. out.through \/ proven <= rejections + 1
    BY DEF ClientInv, CountIsKept
  <2>2. out.through \/ proven' <= rejections' + 1
    <3>1. rejections \in Nat /\ proven \in Nat /\ proven' = proven
      BY DEF ClientInv, ClientTyped
    <3>2. proven <= rejections + 1 => proven <= rejections' + 1
      BY <3>1, CountsGrow
    <3>3. QED BY <2>1, <3>1, <3>2
  <2>3. QED BY <1>1, <1>3, <2>2 DEF ClientInv, CountIsKept
<1>8. QED BY <1>4, <1>5, <1>6, <1>7 DEF ClientInv

\* A native error is passed on, ends the request, or begins a wait on a proven rejection.
LEMMA ClassifyKeeps ==
  ASSUME ClientParameters, ClientInv, clientPc \in {"streaming", "settling"}, NEW free,
         Client!Classify(free), UNCHANGED <<fetches, rejection, capture, saw>>
  PROVE  ClientInv'
<1>1. CASE Client!MustForward(free) /\ Client!End("native") /\ UNCHANGED Client!books
  <2>1. Client!End("native") /\ UNCHANGED <<rejections, waited, delay, proven>>
    BY <1>1 DEF Client!books
  <2>2. /\ rejections' \in Nat /\ rejections' <= MaxRejections + 1 /\ rejections' >= rejections
        /\ delay' \in Nat
    <3>1. /\ rejections \in Nat /\ rejections <= MaxRejections + 1 /\ rejections' = rejections
          /\ delay \in Nat /\ delay' = delay
      BY <2>1 DEF ClientInv, ClientTyped, CountIsKept
    <3>2. QED BY ONLY <3>1
  <2>3. clientPc # "ended" /\ "native" \in Endings
    BY DEF Endings
  <2>4. QED BY <2>1, <2>2, <2>3, EndKeeps
<1>2. CASE ~(Client!MustForward(free) /\ Client!End("native") /\ UNCHANGED Client!books)
  <2>1. /\ ~saw /\ rejection # 0 /\ rejections' = rejections + 1 /\ UNCHANGED <<waited, proven>>
        /\ IF rejections' > MaxRejections \/ waited + rejection > ClientMaxWait
           THEN Client!End("gave up") /\ UNCHANGED delay
           ELSE /\ \/ clientPc' = "waiting" /\ waiting' = TRUE /\ out' = out
                   \/ Client!End("error")
                /\ delay' = rejection
    BY <1>2 DEF Client!Classify, Client!MustForward
  <2>2. /\ rejections' \in Nat /\ rejections' <= MaxRejections + 1 /\ rejections' >= rejections
    <3>1. rejections \in Nat /\ MaxRejections \in Nat /\ rejections <= MaxRejections
      BY DEF ClientParameters, ClientInv, ClientTyped, CountIsKept
    <3>2. rejections' = rejections + 1
      BY <2>1
    <3>3. QED BY ONLY <3>1, <3>2
  <2>3. delay' \in Nat
    BY <2>1 DEF ClientInv, ClientTyped
  <2>4. CASE Client!End("gave up") \/ Client!End("error")
    <3>1. clientPc # "ended" /\ "gave up" \in Endings /\ "error" \in Endings
      BY DEF Endings
    <3>2. UNCHANGED <<fetches, rejection, capture, saw, waited, proven>>
      BY <2>1
    <3>3. QED BY <2>2, <2>3, <2>4, <3>1, <3>2, EndKeeps
  <2>5. CASE /\ ~(rejections' > MaxRejections \/ waited + rejection > ClientMaxWait)
             /\ clientPc' = "waiting" /\ waiting' = TRUE /\ out' = out /\ delay' = rejection
    <3>1. ClientTyped' /\ VerdictIsLatest' /\ Client!EndsOnce'
      BY <2>1, <2>2, <2>3, <2>5 DEF ClientInv, ClientTyped, VerdictIsLatest, Client!EndsOnce
    <3>2. ~out.through
      BY <2>1 DEF ClientInv, ThroughIsNow
    <3>3. ThroughIsNow'
      BY <2>1, <2>5, <3>2 DEF ThroughIsNow
    <3>4. proven <= rejections + 1
      BY <3>2 DEF ClientInv, CountIsKept
    <3>5. CountIsKept'
      BY <2>1, <2>2, <2>5, <3>4
      DEF ClientParameters, ClientInv, ClientTyped, CountIsKept
    <3>6. QED BY <3>1, <3>3, <3>5 DEF ClientInv
  <2>6. QED BY <2>1, <2>4, <2>5
<1>3. QED BY <1>1, <1>2 DEF Client!Classify

\* A step that changes only an exchange or the verdict, with the loop and its books as they were.
LEMMA ExchangeKeeps ==
  ASSUME ClientParameters, ClientInv, clientPc \in {"streaming", "settling"},
         UNCHANGED <<clientPc, saw, out, waiting, rejections, waited, delay>>,
         fetches' \in Seq(Exchange), rejection' \in Nat, proven' \in Nat, VerdictIsLatest',
         ~saw => \/ proven' <= rejections
                 \/ proven' <= rejections + 1 /\ LastOne(fetches', Len(fetches'))
  PROVE  ClientInv'
<1>1. ClientTyped' /\ Client!EndsOnce' /\ ThroughIsNow'
  BY DEF ClientInv, ClientTyped, Client!EndsOnce, ThroughIsNow
<1>2. out.through = saw
  BY DEF ClientInv, ThroughIsNow
<1>3. CountIsKept'
  BY <1>2 DEF ClientInv, ClientTyped, CountIsKept
<1>4. QED BY <1>1, <1>3 DEF ClientInv

LEMMA OneExchange ==
  ASSUME NEW fs \in Seq(Exchange), NEW i \in 1..Len(fs), NEW e \in Exchange
  PROVE  LET gs == [fs EXCEPT ![i] = e]
         IN  /\ gs \in Seq(Exchange) /\ Len(gs) = Len(fs) /\ gs[i] = e
             /\ \A j \in 1..Len(fs) : j # i => gs[j] = fs[j]
OBVIOUS

LEMMA AskKeeps == ASSUME ClientParameters, ClientInv, Client!Ask PROVE ClientInv'
<1>1. /\ clientPc = "streaming" /\ Len(fetches) <= NativeRetries
      /\ Len(fetches) > 0 => ~fetches[Len(fetches)].stop
      /\ fetches' = Append(fetches, Client!Asked) /\ rejection' = 0 /\ capture' = 0
      /\ UNCHANGED <<clientPc, saw, out, waiting, rejections, waited, delay, proven>>
  BY DEF Client!Ask, Client!Latest, Client!books
<1>2. Client!Asked \in Exchange /\ Client!Asked.body = "none"
  BY DEF Client!Asked, Exchange
<1>3. fetches \in Seq(Exchange) /\ Len(fetches) \in Nat /\ proven \in Nat
  BY DEF ClientInv, ClientTyped
<1>4. /\ fetches' \in Seq(Exchange) /\ Len(fetches') = Len(fetches) + 1
      /\ fetches'[Len(fetches')] = Client!Asked
  BY <1>1, <1>2, <1>3
<1>5. VerdictIsLatest'
  BY <1>1, <1>2, <1>4 DEF VerdictIsLatest
<1>6. ~LastOne(fetches, Len(fetches))
  BY <1>1, <1>3 DEF LastOne, ClientParameters
<1>7. ~saw => proven' <= rejections
  BY <1>1, <1>6 DEF ClientInv, ThroughIsNow, CountIsKept
<1>8. QED BY <1>1, <1>3, <1>4, <1>5, <1>7, ExchangeKeeps

LEMMA AnswerKeeps ==
  ASSUME ClientParameters, ClientInv, clientPc = "streaming",
         NEW reply \in {"queue", "lookalike", "other", "fine"}, Client!Answer(reply)
  PROVE  ClientInv'
<1> DEFINE last == Len(fetches)
           stamped == reply \in {"queue", "lookalike"}
           kept == stamped /\ NativeRetries > 0 /\ ~saw
           e == [answer |-> reply, body |-> IF stamped THEN "unread" ELSE fetches[last].body,
                 back |-> ~kept, stop |-> fetches[last].stop]
<1>1. /\ last > 0 /\ fetches[last].answer = "none" /\ ~fetches[last].back
      /\ fetches' = [fetches EXCEPT ![last].answer = reply,
                                    ![last].body = IF stamped THEN "unread" ELSE @,
                                    ![last].back = ~kept]
      /\ capture' = IF stamped THEN last ELSE capture
      /\ proven' = IF stamped /\ reply = "queue" /\ ~kept THEN proven + 1 ELSE proven
      /\ UNCHANGED <<clientPc, rejection, saw, out, waiting, rejections, waited, delay>>
  BY DEF Client!Answer, Client!Latest
<1>2. /\ fetches \in Seq(Exchange) /\ last \in 1..Len(fetches) /\ proven \in Nat /\ rejections \in Nat
      /\ fetches[last] \in Exchange /\ rejection \in Nat
  BY <1>1 DEF ClientInv, ClientTyped
<1>3. e \in Exchange
  BY <1>2 DEF Exchange
<1>4. fetches' = [fetches EXCEPT ![last] = e]
  <2> DEFINE gs == [fetches EXCEPT ![last].answer = reply,
                                   ![last].body = IF stamped THEN "unread" ELSE @,
                                   ![last].back = ~kept]
  <2>1. fetches' = gs /\ DOMAIN gs = DOMAIN fetches
    BY <1>1
  <2>2. \A j \in DOMAIN fetches : j # last => gs[j] = fetches[j]
    BY <1>2
  <2>3. /\ gs[last].answer = reply /\ gs[last].back = ~kept /\ gs[last].stop = fetches[last].stop
        /\ gs[last].body = IF stamped THEN "unread" ELSE fetches[last].body
        /\ DOMAIN gs[last] = DOMAIN fetches[last]
    BY <1>2 DEF Exchange
  <2>4. gs[last] = e
    <3>1. gs[last] \in Exchange
      <4> DEFINE body == IF stamped THEN "unread" ELSE fetches[last].body
                 f1 == [fetches[last] EXCEPT !.answer = reply]
                 f2 == [f1 EXCEPT !.body = body]
                 g1 == [fetches EXCEPT ![last].answer = reply]
                 g2 == [g1 EXCEPT ![last].body = IF stamped THEN "unread" ELSE @]
      <4>1. /\ reply \in {"none", "queue", "lookalike", "other", "fine"}
              /\ body \in {"none", "unread", "read"}
        BY <1>2 DEF Exchange
      <4>2. f1 \in Exchange /\ f1.body = fetches[last].body
        BY <1>2, <4>1 DEF Exchange
      <4>3. f2 \in Exchange /\ [f2 EXCEPT !.back = ~kept] \in Exchange
        <5> HIDE DEF f1
        <5>1. f2 \in Exchange
          BY <4>1, <4>2 DEF Exchange
        <5> HIDE DEF f2
        <5>2. QED BY <5>1 DEF Exchange
      <4>4. g1[last] = f1 /\ DOMAIN g1 = DOMAIN fetches
        BY <1>2
      <4>5. g2[last] = f2 /\ DOMAIN g2 = DOMAIN fetches
        <5> HIDE DEF g1, f1
        <5>1. QED BY <1>2, <4>2, <4>4
      <4>6. gs = [g2 EXCEPT ![last].back = ~kept]
        OBVIOUS
      <4>7. gs[last] = [f2 EXCEPT !.back = ~kept]
        <5> HIDE DEF g2, f2, gs, kept
        <5>1. last \in DOMAIN g2
          BY <1>2, <4>5
        <5>2. QED BY <4>5, <4>6, <5>1
      <4>8. QED BY <4>3, <4>7
    <3>2. \A a, b \in Exchange : a.answer = b.answer /\ a.body = b.body /\ a.back = b.back
                                 /\ a.stop = b.stop => a = b
      BY DEF Exchange
    <3>3. QED BY <1>3, <2>3, <3>1, <3>2
  <2>5. QED BY <1>2, <2>1, <2>2, <2>4
<1>5. fetches' \in Seq(Exchange) /\ Len(fetches') = last /\ fetches'[last] = e
  BY <1>2, <1>3, <1>4, OneExchange
<1>6. rejection' = 0
  BY <1>1 DEF ClientInv, VerdictIsLatest
<1>7. VerdictIsLatest'
  BY <1>1, <1>5, <1>6 DEF ClientInv, VerdictIsLatest
<1>8. ~saw => proven <= rejections
  BY <1>1 DEF ClientInv, ThroughIsNow, CountIsKept, LastOne
<1>9. proven' # proven /\ ~saw => LastOne(fetches', last)
  <2>1. proven' # proven => reply = "queue" /\ ~kept
    BY <1>1
  <2>2. ~kept /\ reply = "queue" /\ ~saw => NativeRetries = 0
    BY DEF ClientParameters
  <2>3. e.answer = reply /\ e.back = ~kept
    OBVIOUS
  <2>4. QED BY <1>1, <1>5, <2>1, <2>2, <2>3 DEF LastOne
<1>10. ~saw => \/ proven' <= rejections
               \/ proven' <= rejections + 1 /\ LastOne(fetches', Len(fetches'))
  BY <1>1, <1>2, <1>5, <1>8, <1>9
<1>11. proven' \in Nat
  BY <1>1, <1>2
<1>12. QED BY <1>1, <1>2, <1>5, <1>7, <1>10, <1>11, ExchangeKeeps

\* The verdict on a copy that has been read, or cannot be.
LEMMA ReadKeeps ==
  ASSUME ClientParameters, ClientInv, clientPc \in {"streaming", "settling"},
         NEW i \in DOMAIN fetches, fetches[i].body = "unread",
         fetches' = [fetches EXCEPT ![i].body = "read"], rejection' \in Nat,
         i = Len(fetches) /\ rejection' # 0 => fetches[i].answer = "queue",
         i # Len(fetches) => rejection' = rejection,
         UNCHANGED <<clientPc, capture, saw, out, waiting, rejections, waited, delay, proven>>
  PROVE  ClientInv'
<1> DEFINE last == Len(fetches)
           e == [fetches[i] EXCEPT !.body = "read"]
<1>1. /\ fetches \in Seq(Exchange) /\ i \in 1..Len(fetches) /\ proven \in Nat
      /\ fetches[i] \in Exchange /\ last \in Nat
  BY DEF ClientInv, ClientTyped
<1>2. /\ e \in Exchange /\ e.answer = fetches[i].answer /\ e.back = fetches[i].back
      /\ e.stop = fetches[i].stop
  BY <1>1 DEF Exchange
<1>3. /\ fetches' \in Seq(Exchange) /\ Len(fetches') = last /\ fetches'[i] = e
      /\ \A j \in 1..last : j # i => fetches'[j] = fetches[j]
  BY <1>1, <1>2, OneExchange
<1> HIDE DEF e
<1>4. last > 0 => /\ fetches'[last].answer = fetches[last].answer
                  /\ fetches'[last].back = fetches[last].back
                  /\ fetches'[last].stop = fetches[last].stop
                  /\ fetches'[last].body # "none" => fetches[last].body # "none"
  BY <1>1, <1>2, <1>3
<1>5. VerdictIsLatest'
  BY <1>1, <1>2, <1>3, <1>4 DEF ClientInv, VerdictIsLatest
<1>6. LastOne(fetches, last) => LastOne(fetches', last)
  BY <1>4 DEF LastOne
<1>7. ~saw => proven <= rejections \/ (proven <= rejections + 1 /\ LastOne(fetches, last))
  BY DEF ClientInv, ThroughIsNow, CountIsKept
<1>8. QED BY <1>1, <1>3, <1>5, <1>6, <1>7, ExchangeKeeps

LEMMA HandBackKeeps ==
  ASSUME ClientParameters, ClientInv, clientPc = "streaming", Client!HandBack
  PROVE  ClientInv'
<1> DEFINE last == Len(fetches)
           e == [fetches[last] EXCEPT !.back = TRUE, !.stop = rejection > 0 /\ ~saw]
<1>1. /\ last > 0 /\ ~fetches[last].back
      /\ fetches' = [fetches EXCEPT ![last].back = TRUE, ![last].stop = rejection > 0 /\ ~saw]
      /\ proven' = IF rejection > 0 THEN proven + 1 ELSE proven
      /\ UNCHANGED <<clientPc, rejection, capture, saw, out, waiting, rejections, waited, delay>>
  BY DEF Client!HandBack, Client!Latest
<1>2. /\ fetches \in Seq(Exchange) /\ last \in 1..Len(fetches) /\ proven \in Nat /\ rejections \in Nat
      /\ fetches[last] \in Exchange /\ rejection \in Nat
  BY <1>1 DEF ClientInv, ClientTyped
<1>3. /\ e \in Exchange /\ e.answer = fetches[last].answer /\ e.body = fetches[last].body
      /\ e.back = TRUE /\ e.stop = (rejection > 0 /\ ~saw)
  BY <1>2 DEF Exchange
<1>4. fetches' = [fetches EXCEPT ![last] = e]
  BY <1>1, <1>2
<1> HIDE DEF e
<1>5. fetches' \in Seq(Exchange) /\ Len(fetches') = last /\ fetches'[last] = e
  BY <1>2, <1>3, <1>4, OneExchange
<1>7. VerdictIsLatest'
  BY <1>1, <1>3, <1>5 DEF ClientInv, VerdictIsLatest
<1>8. ~saw => proven <= rejections
  BY <1>1 DEF ClientInv, ThroughIsNow, CountIsKept, LastOne
<1>9. proven' # proven /\ ~saw => LastOne(fetches', last)
  BY <1>1, <1>3, <1>5 DEF LastOne
<1>10. ~saw => \/ proven' <= rejections
               \/ proven' <= rejections + 1 /\ LastOne(fetches', Len(fetches'))
  BY <1>1, <1>2, <1>5, <1>8, <1>9
<1>11. proven' \in Nat
  BY <1>1, <1>2
<1>12. QED BY <1>1, <1>2, <1>5, <1>7, <1>10, <1>11, ExchangeKeeps

LEMMA FetchThrowsKeeps ==
  ASSUME ClientParameters, ClientInv, clientPc = "streaming", Client!FetchThrows
  PROVE  ClientInv'
<1> DEFINE last == Len(fetches)
           e == [fetches[last] EXCEPT !.back = TRUE]
<1>1. /\ last > 0 /\ ~fetches[last].back
      /\ fetches' = [fetches EXCEPT ![last].back = TRUE]
      /\ UNCHANGED <<clientPc, rejection, capture, saw, out, waiting, rejections, waited,
                    delay, proven>>
  BY DEF Client!FetchThrows, Client!Latest, Client!books
<1>2. /\ fetches \in Seq(Exchange) /\ last \in 1..Len(fetches) /\ proven \in Nat /\ rejections \in Nat
      /\ fetches[last] \in Exchange /\ rejection \in Nat
  BY <1>1 DEF ClientInv, ClientTyped
<1>3. e \in Exchange /\ e.answer = fetches[last].answer /\ e.body = fetches[last].body
  BY <1>2 DEF Exchange
<1>4. fetches' = [fetches EXCEPT ![last] = e]
  BY <1>1, <1>2
<1> HIDE DEF e
<1>5. fetches' \in Seq(Exchange) /\ Len(fetches') = last /\ fetches'[last] = e
  BY <1>2, <1>3, <1>4, OneExchange
<1>7. VerdictIsLatest'
  BY <1>1, <1>3, <1>5 DEF ClientInv, VerdictIsLatest
<1>8. ~saw => proven' <= rejections
  BY <1>1 DEF ClientInv, ThroughIsNow, CountIsKept, LastOne
<1>9. QED BY <1>1, <1>2, <1>5, <1>7, <1>8, ExchangeKeeps

LEMMA DispatchKeeps == ASSUME ClientInv, Client!Dispatch PROVE ClientInv'
<1>1. clientPc = "dispatch" /\ UNCHANGED <<rejections, waited, delay, proven>>
  BY DEF Client!Dispatch, Client!books
<1>2. /\ rejections \in Nat /\ delay \in Nat /\ rejections <= MaxRejections + 1
      /\ rejections >= rejections
      /\ clientPc # "ended"
  BY <1>1 DEF ClientInv, ClientTyped, CountIsKept
<1>3. CASE Client!End("aborted") /\ UNCHANGED Client!attempt
  <2>1. "aborted" \in Endings
    BY DEF Endings
  <2>2. UNCHANGED <<fetches, rejection, capture, saw>>
    BY <1>3 DEF Client!attempt
  <2>3. QED BY <1>1, <1>2, <1>3, <2>1, <2>2, EndKeeps
<1>4. CASE /\ clientPc' = "streaming"
           /\ fetches' = <<>> /\ rejection' = 0 /\ capture' = 0 /\ saw' = FALSE
           /\ UNCHANGED <<out, waiting>>
  <2>1. <<>> \in Seq(Exchange) /\ Len(<<>>) = 0
    OBVIOUS
  <2>2. ~out.through
    BY <1>1 DEF ClientInv, ThroughIsNow
  <2>3. ClientTyped' /\ Client!EndsOnce'
    BY <1>1, <1>4, <2>1 DEF ClientInv, ClientTyped, Client!EndsOnce
  <2>4. VerdictIsLatest' /\ ThroughIsNow'
    <3>1. Len(fetches') = 0 /\ rejection' = 0
      BY <1>4, <2>1
    <3>2. VerdictIsLatest'
      BY <3>1 DEF VerdictIsLatest
    <3>3. ThroughIsNow'
      <4>1. out'.through = FALSE /\ saw' = FALSE /\ clientPc' = "streaming"
        BY <1>4, <2>2 DEF ClientInv, ClientTyped
      <4>2. QED BY <4>1 DEF ThroughIsNow
    <3>4. QED BY <3>2, <3>3
  <2>5. CountIsKept'
    BY <1>1, <1>4, <2>2 DEF ClientInv, CountIsKept
  <2>6. QED BY <2>3, <2>4, <2>5 DEF ClientInv
<1>5. QED BY <1>3, <1>4 DEF Client!Dispatch

\* A step that ends the loop and touches nothing else.
LEMMA PlainEnd ==
  ASSUME ClientInv, clientPc # "ended", NEW how \in Endings, Client!End(how),
         UNCHANGED Client!attempt, UNCHANGED Client!books
  PROVE  ClientInv'
<1>1. UNCHANGED <<fetches, rejection, capture, saw, waited, proven, rejections, delay>>
  BY DEF Client!attempt, Client!books
<1>2. /\ rejections \in Nat /\ delay \in Nat /\ rejections <= MaxRejections + 1
      /\ rejections >= rejections
  BY DEF ClientInv, ClientTyped, CountIsKept
<1>3. QED BY <1>1, <1>2, EndKeeps

LEMMA AwakeKeeps == ASSUME ClientInv, Client!Awake PROVE ClientInv'
<1>1. /\ clientPc = "waiting" /\ UNCHANGED <<fetches, rejection, capture, saw, rejections, delay,
                                              proven>>
  BY DEF Client!Awake, Client!attempt
<1>2. /\ rejections \in Nat /\ delay \in Nat /\ rejections <= MaxRejections + 1
      /\ rejections >= rejections
      /\ clientPc # "ended" /\ waited \in Nat /\ waited + delay <= ClientMaxWait
  BY <1>1 DEF ClientInv, ClientTyped, CountIsKept
<1>3. CASE Client!End("aborted") /\ UNCHANGED waited
  <2>1. "aborted" \in Endings
    BY DEF Endings
  <2>2. QED BY <1>1, <1>2, <1>3, <2>1, EndKeeps
<1>4. CASE waited' = waited + delay /\ clientPc' = "dispatch" /\ waiting' = FALSE /\ out' = out
  <2>1. ClientTyped' /\ Client!EndsOnce' /\ VerdictIsLatest'
    BY <1>1, <1>2, <1>4 DEF ClientInv, ClientTyped, Client!EndsOnce, VerdictIsLatest
  <2>2. ThroughIsNow' /\ CountIsKept'
    BY <1>1, <1>2, <1>4 DEF ClientInv, ThroughIsNow, CountIsKept
  <2>3. QED BY <2>1, <2>2 DEF ClientInv
<1>5. CASE waited' = waited + delay /\ Client!End("error")
  <2>1. "error" \in Endings
    BY DEF Endings
  <2>3. /\ clientPc' = "ended" /\ waiting' = FALSE
        /\ out' \in [through : BOOLEAN, terminal : Seq(Endings)] /\ out'.through = out.through
        /\ Len(out'.terminal) = Len(out.terminal) + 1
    BY <1>5, <2>1, OutEnds DEF ClientInv
  <2>4. ClientTyped' /\ Client!EndsOnce'
    BY <1>1, <1>2, <1>5, <2>3 DEF ClientInv, ClientTyped, Client!EndsOnce
  <2>5. VerdictIsLatest' /\ ThroughIsNow' /\ CountIsKept'
    BY <1>1, <1>2, <1>5, <2>3 DEF ClientInv, VerdictIsLatest, ThroughIsNow, CountIsKept
  <2>6. QED BY <2>4, <2>5 DEF ClientInv
<1>6. QED BY <1>3, <1>4, <1>5 DEF Client!Awake

LEMMA ClientStep == ClientParameters /\ ClientInv /\ [Client!Next]_(Client!vars) => ClientInv'
<1> SUFFICES ASSUME ClientParameters, ClientInv, [Client!Next]_(Client!vars) PROVE ClientInv'
  OBVIOUS
<1>0. /\ "done" \in Endings /\ "aborted" \in Endings /\ "error" \in Endings
      /\ fetches \in Seq(Exchange) /\ rejection \in Nat
  BY DEF Endings, ClientInv, ClientTyped
<1>1. CASE clientPc = "streaming" /\ Client!FetchStep
  BY <1>1, AskKeeps, AnswerKeeps, HandBackKeeps, FetchThrowsKeeps DEF Client!FetchStep
<1>2. ASSUME NEW i \in DOMAIN fetches, clientPc \in {"streaming", "settling"},
             Client!ReadFails(i) \/ \E d \in Delays : Client!Read(i, d)
      PROVE  ClientInv'
  <2>1. /\ fetches[i].body = "unread" /\ fetches' = [fetches EXCEPT ![i].body = "read"]
        /\ UNCHANGED <<clientPc, capture, saw, out, waiting, rejections, waited, delay, proven>>
    BY <1>2 DEF Client!ReadFails, Client!Read, Client!books
  <2>2. \/ rejection' \in {0, rejection} /\ (i = Len(fetches) => rejection' = 0)
        \/ \E d \in Delays : rejection' = IF i # Len(fetches) THEN rejection
                                          ELSE IF fetches[i].answer = "queue" THEN d ELSE 0
    BY <1>2 DEF Client!ReadFails, Client!Read, Client!Latest
  <2>3. i # Len(fetches) => rejection' = rejection
    BY <1>2 DEF Client!ReadFails, Client!Read, Client!Latest
  <2>4. /\ rejection' \in Nat
        /\ i = Len(fetches) /\ rejection' # 0 => fetches[i].answer = "queue"
    BY <1>0, <2>2 DEF ClientParameters
  <2>5. QED BY <1>2, <2>1, <2>3, <2>4, ReadKeeps
<1>3. CASE Client!Event
  <2>1. /\ clientPc = "streaming" /\ saw' = TRUE /\ out' = [out EXCEPT !.through = TRUE]
        /\ UNCHANGED <<clientPc, fetches, rejection, capture, rejections, waited, delay, proven,
                        waiting>>
    BY <1>3 DEF Client!Event, Client!books
  <2>2. /\ out' \in [through : BOOLEAN, terminal : Seq(Endings)] /\ out'.through = TRUE
        /\ out'.terminal = out.terminal
    BY <2>1 DEF ClientInv, ClientTyped
  <2>3. ClientTyped' /\ Client!EndsOnce' /\ VerdictIsLatest'
    BY <2>1, <2>2 DEF ClientInv, ClientTyped, Client!EndsOnce, VerdictIsLatest
  <2>4. ThroughIsNow' /\ CountIsKept'
    BY <2>1, <2>2 DEF ClientInv, ThroughIsNow, CountIsKept
  <2>5. QED BY <2>3, <2>4 DEF ClientInv
<1>4. CASE Client!Done \/ Client!Throw
  <2>1. /\ clientPc # "ended" /\ UNCHANGED Client!attempt /\ UNCHANGED Client!books
        /\ Client!End("done") \/ Client!End("aborted") \/ Client!End("error")
    BY <1>4 DEF Client!Done, Client!Throw
  <2>2. QED BY <1>0, <2>1, PlainEnd
<1>5. ASSUME NEW free \in BOOLEAN, Client!Error(free) PROVE ClientInv'
  <2>1. clientPc = "streaming" /\ UNCHANGED <<fetches, rejection, capture, saw>>
    BY <1>5 DEF Client!Error
  <2>2. CASE Client!Classify(free)
    BY <2>1, <2>2, ClassifyKeeps
  <2>3. CASE clientPc' = "settling" /\ UNCHANGED <<Client!books, out, waiting>>
    <3>1. UNCHANGED <<rejections, waited, delay, proven, out, waiting>>
      BY <2>3 DEF Client!books
    <3>2. ClientTyped' /\ Client!EndsOnce' /\ VerdictIsLatest'
      BY <2>1, <2>3, <3>1 DEF ClientInv, ClientTyped, Client!EndsOnce, VerdictIsLatest
    <3>3. ThroughIsNow' /\ CountIsKept'
      BY <2>1, <2>3, <3>1 DEF ClientInv, ThroughIsNow, CountIsKept
    <3>4. QED BY <3>2, <3>3 DEF ClientInv
  <2>4. QED BY <1>5, <2>2, <2>3 DEF Client!Error
<1>6. CASE Client!Settle
  <2>1. clientPc = "settling" /\ UNCHANGED Client!attempt
    BY <1>6 DEF Client!Settle
  <2>2. CASE Client!Classify(event)
    <3>1. UNCHANGED <<fetches, rejection, capture, saw>>
      BY <2>1 DEF Client!attempt
    <3>2. QED BY <2>1, <2>2, <3>1, ClassifyKeeps
  <2>3. CASE Client!End("aborted") /\ UNCHANGED Client!books
    BY <1>0, <2>1, <2>3, PlainEnd
  <2>4. QED BY <1>6, <2>2, <2>3 DEF Client!Settle
<1>7. CASE Client!CutShort
  <2>1. /\ clientPc # "ended" /\ UNCHANGED Client!attempt /\ UNCHANGED Client!books
        /\ Client!End("aborted") \/ Client!End("error")
    BY <1>7 DEF Client!CutShort
  <2>2. QED BY <1>0, <2>1, PlainEnd
<1>8. CASE Client!Abort \/ UNCHANGED Client!vars
  <2>1. UNCHANGED <<clientPc, fetches, rejection, capture, saw, out, waiting, rejections, waited,
                    delay, proven>>
    BY <1>8 DEF Client!Abort, Client!vars, Client!attempt, Client!books
  <2>2. ClientTyped' /\ Client!EndsOnce' /\ VerdictIsLatest'
    BY <2>1 DEF ClientInv, ClientTyped, Client!EndsOnce, VerdictIsLatest
  <2>3. ThroughIsNow' /\ CountIsKept'
    BY <2>1 DEF ClientInv, ThroughIsNow, CountIsKept
  <2>4. QED BY <2>2, <2>3 DEF ClientInv
<1>9. QED
  BY <1>1, <1>2, <1>3, <1>4, <1>5, <1>6, <1>7, <1>8, DispatchKeeps, AwakeKeeps
  DEF Client!Next, Client!NativeEnds, Client!LoopStep

\* Nothing but the end of a wait sends the request again.
LEMMA OnlyAwakeSendsAgain ==
  ASSUME ClientInv, [Client!Next]_(Client!vars), clientPc = "waiting", clientPc' = "dispatch"
  PROVE  ~out.through /\ fetches[Len(fetches)].answer = "queue" /\ capture = Len(fetches)
BY DEF ClientInv, ThroughIsNow, VerdictIsLatest

\* The stream ends exactly once and shows no wait after that; every rejection the native
\* stream was handed is one the client waited for or ended on, within its budgets of
\* rejections and of time (queue-wait.mjs, run and awaitCapture).
THEOREM ClientEndsAccounted ==
  ClientParameters => (Client!Spec => [](Client!EndsOnce /\ Client!RejectionsAreCounted))
<1> SUFFICES ASSUME ClientParameters
             PROVE  Client!Spec => [](Client!EndsOnce /\ Client!RejectionsAreCounted)
  OBVIOUS
<1>1. ClientInv => Client!EndsOnce /\ Client!RejectionsAreCounted
  BY DEF ClientInv, CountIsKept, Client!RejectionsAreCounted
<1>2. ClientInv /\ [Client!Next]_(Client!vars) => ClientInv'
  BY ClientStep
<1>3. QED BY <1>1, <1>2, ClientStart, PTL DEF Client!Spec

\* The request goes out again only if nothing of it has reached the caller and its latest
\* fetch, not an earlier one, was rejected by the queue.
THEOREM ClientRetryIsProven == ClientParameters => (Client!Spec => Client!RetryIsProven)
<1> DEFINE P == clientPc = "waiting" /\ clientPc' = "dispatch" =>
                  ~out.through /\ fetches[Len(fetches)].answer = "queue" /\ capture = Len(fetches)
<1> SUFFICES ASSUME ClientParameters PROVE Client!Spec => Client!RetryIsProven
  OBVIOUS
<1>1. ClientInv /\ [Client!Next]_(Client!vars) => ClientInv'
  BY ClientStep
<1>2. ClientInv /\ [Client!Next]_(Client!vars) => [P]_(Client!vars)
  BY OnlyAwakeSendsAgain
<1>3. QED BY <1>1, <1>2, ClientStart, PTL DEF Client!Spec, Client!RetryIsProven, Client!Latest

-----------------------------------------------------------------------------
(* LaneFeedback: how answers move the live cap. *)

LaneFields ==
  {"hard", "cap", "successes", "age", "recent", "pause", "cache", "cacheAge", "glided"}

\* The cap is between one and the hard ceiling.
CapWithin(l) ==
  /\ DOMAIN l = LaneFields
  /\ l.cap \in Nat /\ l.hard \in Nat /\ l.age \in Nat /\ 1 <= l.cap /\ l.cap <= l.hard

LaneInv == CapWithin(lane)

\* m is l after a reaction to an answer: no wider, and not below the floor either.
Reacted(l, m) ==
  /\ CapWithin(m) /\ m.hard = l.hard /\ m.age \in {0, l.age}
  /\ l.cap >= Lane!AimdFloor(l) => m.cap <= l.cap /\ m.cap >= Lane!AimdFloor(m)

LEMMA SmallerOfTwo ==
  ASSUME NEW a \in Int, NEW b \in Int
  PROVE  Lane!Min({a, b}) = IF a <= b THEN a ELSE b
<1>1. \E x \in {a, b} : \A y \in {a, b} : x <= y
  <2>1. CASE a <= b
    BY <2>1
  <2>2. CASE ~(a <= b)
    BY <2>2
  <2>3. QED BY <2>1, <2>2
<1>2. QED BY <1>1 DEF Lane!Min

LEMMA LargerOfTwo ==
  ASSUME NEW a \in Int, NEW b \in Int
  PROVE  Lane!Max({a, b}) = IF a >= b THEN a ELSE b
<1>1. \E x \in {a, b} : \A y \in {a, b} : x >= y
  <2>1. CASE a >= b
    BY <2>1
  <2>2. CASE ~(a >= b)
    BY <2>2
  <2>3. QED BY <2>1, <2>2
<1>2. QED BY <1>1 DEF Lane!Max

LEMMA FloorWithin ==
  ASSUME LaneParameters, NEW l, CapWithin(l)
  PROVE  Lane!AimdFloor(l) \in Nat /\ Lane!AimdFloor(l) >= 1 /\ Lane!AimdFloor(l) <= l.hard
<1>1. l.hard \in Int /\ AimdMin \in Int /\ l.hard >= 1 /\ AimdMin >= 1
  BY DEF LaneParameters, CapWithin
<1>2. Lane!Min({l.hard, AimdMin}) = IF l.hard <= AimdMin THEN l.hard ELSE AimdMin
  BY ONLY <1>1, SmallerOfTwo
<1>3. QED BY <1>1, <1>2 DEF Lane!AimdFloor

LEMMA FloorOfHard ==
  ASSUME NEW l, NEW m, l.hard = m.hard
  PROVE  Lane!AimdFloor(l) = Lane!AimdFloor(m)
BY DEF Lane!AimdFloor

LEMMA ReactedTwice ==
  ASSUME LaneParameters, NEW l, NEW m, NEW n, CapWithin(l), Reacted(l, m), Reacted(m, n)
  PROVE  Reacted(l, n)
<1>1. /\ Lane!AimdFloor(l) = Lane!AimdFloor(m) /\ n.hard = l.hard /\ n.age \in {0, l.age}
  BY FloorOfHard DEF Reacted
<1>2. l.cap \in Nat /\ m.cap \in Nat /\ n.cap \in Nat
  BY DEF Reacted, CapWithin
<1>3. QED BY <1>1, <1>2 DEF Reacted

LEMMA ShrinkReacts ==
  ASSUME LaneParameters, NEW l, CapWithin(l)
  PROVE  Reacted(l, Lane!Shrink(l)) /\ Lane!Shrink(l).age = 0
<1> DEFINE floor == Lane!AimdFloor(l)
           less == Lane!Min({(l.cap * DecreasePct) \div 100, l.cap - 1})
           narrow == Lane!Max({floor, less})
           m == Lane!Shrink(l)
<1>1. floor \in Nat /\ floor >= 1 /\ floor <= l.hard
  BY FloorWithin
<1>2. less \in Int /\ less <= l.cap - 1
  <2>1. (l.cap * DecreasePct) \div 100 \in Int /\ l.cap - 1 \in Int
    <3>1. l.cap * DecreasePct \in Nat
      BY DEF LaneParameters, CapWithin
    <3>2. QED BY <3>1 DEF CapWithin
  <2>2. QED BY <2>1, SmallerOfTwo
<1> HIDE DEF less, floor
<1>3. narrow \in {floor, less} /\ narrow >= floor /\ narrow \in Nat
  <2>1. floor \in Int
    BY <1>1
  <2>2. narrow = IF floor >= less THEN floor ELSE less
    BY ONLY <2>1, <1>2, LargerOfTwo
  <2>3. QED BY <1>1, <1>2, <2>2
<1>4. DOMAIN m = LaneFields /\ m.cap = narrow /\ m.hard = l.hard /\ m.age = 0
  BY DEF Lane!Shrink, CapWithin, LaneFields, floor, less
<1> HIDE DEF m, narrow
<1>5. CapWithin(m)
  BY <1>1, <1>2, <1>3, <1>4 DEF CapWithin
<1>6. Lane!AimdFloor(m) = floor
  BY <1>4, FloorOfHard DEF floor
<1>7. l.cap >= floor => m.cap <= l.cap /\ m.cap >= Lane!AimdFloor(m)
  BY <1>1, <1>2, <1>3, <1>4, <1>6 DEF CapWithin
<1>8. QED BY <1>4, <1>5, <1>7 DEF Reacted, floor, m

LEMMA SameCapReacts ==
  ASSUME LaneParameters, NEW l, NEW m, CapWithin(l), DOMAIN m = LaneFields, m.cap = l.cap,
         m.hard = l.hard, m.age \in {0, l.age}
  PROVE  Reacted(l, m)
<1>1. CapWithin(m)
  BY DEF CapWithin
<1>2. Lane!AimdFloor(l) = Lane!AimdFloor(m)
  BY FloorOfHard
<1>3. QED BY <1>1, <1>2 DEF Reacted, CapWithin

LEMMA NoteReacts ==
  ASSUME LaneParameters, NEW l, CapWithin(l), NEW seconds
  PROVE  Reacted(l, Lane!NoteRetryAfter(l, seconds))
<1> DEFINE m == Lane!NoteRetryAfter(l, seconds)
<1>1. /\ DOMAIN m = LaneFields /\ m.cap = l.cap /\ m.hard = l.hard /\ m.age \in {0, l.age}
  BY DEF Lane!NoteRetryAfter, CapWithin, LaneFields
<1> HIDE DEF m
<1>2. Reacted(l, m)
  BY <1>1, SameCapReacts
<1>3. QED BY <1>2 DEF m

LEMMA ApplyReacts ==
  ASSUME LaneParameters, NEW l, CapWithin(l), NEW report, NEW untilReset
  PROVE  Reacted(l, Lane!ApplyUnified(l, report, untilReset))
<1> DEFINE read == [l EXCEPT !.cache = report, !.cacheAge = 0]
           glided == [Lane!Shrink(read) EXCEPT !.glided = report.reset]
<1>1. Reacted(l, l)
  BY SameCapReacts DEF CapWithin
<1>2. Reacted(l, read)
  <2>1. DOMAIN read = LaneFields /\ read.cap = l.cap /\ read.hard = l.hard /\ read.age = l.age
    BY DEF CapWithin, LaneFields
  <2> HIDE DEF read
  <2>2. QED BY <2>1, SameCapReacts
<1>3. CapWithin(read)
  BY <1>2 DEF Reacted
<1> HIDE DEF read
<1>4. Reacted(read, Lane!NoteRetryAfter(read, Lane!Min({untilReset, RejectCap})))
  BY <1>3, NoteReacts
<1>5. Reacted(read, glided)
  <2> DEFINE m == Lane!Shrink(read)
  <2>1. Reacted(read, m) /\ CapWithin(m)
    BY <1>3, ShrinkReacts DEF Reacted
  <2> HIDE DEF m
  <2>2. /\ DOMAIN glided = LaneFields /\ glided.cap = m.cap
        /\ glided.hard = m.hard /\ glided.age = m.age
    BY <2>1 DEF CapWithin, LaneFields, m
  <2> HIDE DEF glided
  <2>3. Reacted(m, glided)
    BY <2>1, <2>2, SameCapReacts
  <2>4. QED BY <1>3, <2>1, <2>3, ReactedTwice
<1>6. Lane!Glide(read, report) \in {read, glided}
  BY DEF Lane!Glide
<1>7. Reacted(l, glided) /\ Reacted(l, Lane!NoteRetryAfter(read, Lane!Min({untilReset, RejectCap})))
  BY <1>2, <1>4, <1>5, ReactedTwice
<1> HIDE DEF glided
<1>8. QED BY <1>1, <1>2, <1>6, <1>7 DEF Lane!ApplyUnified, read

\* A lane that has just been throttled does not grow.
LEMMA GrowAfter ==
  ASSUME LaneParameters, NEW l, CapWithin(l)
  PROVE  /\ CapWithin(Lane!Grow(l)) /\ Lane!Grow(l).age = l.age /\ Lane!Grow(l).hard = l.hard
         /\ l.age = 0 => Lane!Grow(l).cap = l.cap
<1> DEFINE earned == [l EXCEPT !.successes = Lane!Min({@ + 1, Lane!Max({Slow, Fast})})]
           grown == [earned EXCEPT !.cap = @ + 1, !.successes = 0]
<1>1. CapWithin(earned) /\ earned.age = l.age /\ earned.hard = l.hard /\ earned.cap = l.cap
  BY DEF CapWithin, LaneFields
<1>2. Lane!MayGrow(earned) => earned.age >= Backoff /\ earned.cap < earned.hard
  BY DEF Lane!MayGrow
<1> HIDE DEF earned
<1>3. grown.cap = earned.cap + 1 /\ grown.hard = earned.hard /\ grown.age = earned.age
      /\ DOMAIN grown = LaneFields
  BY <1>1 DEF CapWithin, LaneFields
<1> HIDE DEF grown
<1>4. Lane!MayGrow(earned) => CapWithin(grown) /\ l.age # 0
  BY <1>1, <1>2, <1>3 DEF CapWithin, LaneParameters
<1>5. Lane!Grow(l) = IF Lane!MayGrow(earned) THEN grown ELSE earned
  BY DEF Lane!Grow, earned, grown
<1>6. QED BY <1>1, <1>3, <1>4, <1>5

\* What an answer that throttles may not do.
Narrowed ==
  lane.age # 0 /\ lane'.age = 0 /\ lane.cap >= Lane!AimdFloor(lane) => lane'.cap <= lane.cap

LEMMA LaneStep ==
  ASSUME LaneParameters, LaneInv, Lane!FeedbackNext
  PROVE  LaneInv' /\ Narrowed
<1>0. CapWithin(lane)
  BY DEF LaneInv
<1>1. CASE Lane!Served
  <2>1. PICK report \in Lane!Readings, untilReset \in 0..RejectCap :
          lane' = Lane!Grow(Lane!ApplyUnified(lane, report, untilReset))
    BY <1>1 DEF Lane!Served
  <2> DEFINE m == Lane!ApplyUnified(lane, report, untilReset)
  <2>2. Reacted(lane, m) /\ CapWithin(m)
    BY <1>0, ApplyReacts DEF Reacted
  <2>3. lane' = Lane!Grow(m)
    BY <2>1
  <2> HIDE DEF m
  <2>4. CapWithin(lane') /\ lane'.age = m.age /\ (m.age = 0 => lane'.cap = m.cap)
    BY <2>2, <2>3, GrowAfter
  <2>5. QED BY <2>2, <2>4 DEF LaneInv, Narrowed, Reacted
<1>2. ASSUME NEW reaction \in {"shrink", "pause", "ignore"}, Lane!Refused(reaction)
      PROVE  LaneInv' /\ Narrowed
  <2>1. PICK report \in Lane!Readings, retryAfter \in LaneRetryAfters, untilReset \in 0..RejectCap,
             meter \in {"unknown", "concurrency"} :
          LET read == Lane!ApplyUnified(lane, report, untilReset)
              evidence == Lane!Evidence(read, report, retryAfter, meter)
              braked == Lane!NoteRetryAfter(read, Lane!PushbackPause(evidence, retryAfter))
          IN  lane' = CASE reaction = "ignore" -> read
                        [] reaction = "pause" -> braked
                        [] reaction = "shrink" ->
                             IF evidence = "concurrency" THEN braked ELSE Lane!Shrink(braked)
    BY <1>2 DEF Lane!Refused
  <2> DEFINE read == Lane!ApplyUnified(lane, report, untilReset)
             evidence == Lane!Evidence(read, report, retryAfter, meter)
             pausing == Lane!PushbackPause(evidence, retryAfter)
             braked == Lane!NoteRetryAfter(read, pausing)
  <2>2. lane' \in {read, braked, Lane!Shrink(braked)}
    BY <2>1
  <2>3. Reacted(lane, read) /\ CapWithin(read)
    BY <1>0, ApplyReacts DEF Reacted
  <2> HIDE DEF read, evidence, pausing
  <2>4. Reacted(read, braked) /\ CapWithin(braked)
    BY <2>3, NoteReacts DEF Reacted
  <2> HIDE DEF braked
  <2>5. Reacted(lane, braked)
    BY <1>0, <2>3, <2>4, ReactedTwice
  <2>6. Reacted(lane, Lane!Shrink(braked))
    BY <1>0, <2>4, <2>5, ShrinkReacts, ReactedTwice
  <2>7. Reacted(lane, lane')
    BY <2>2, <2>3, <2>5, <2>6
  <2>8. QED BY <2>7 DEF LaneInv, Narrowed, Reacted
<1>3. CASE Lane!Retune
  <2>1. PICK hard \in Ceilings, liveFloor \in {0} \cup LiveFloors :
          LET clamped == IF hard < lane.hard THEN Lane!Min({lane.cap, hard}) ELSE lane.cap
              warm == IF liveFloor = 0 THEN 0 ELSE Lane!Min({hard, Lane!Max({AimdMin, liveFloor})})
          IN  lane' = [lane EXCEPT !.hard = hard, !.cap = Lane!Max({clamped, warm})]
    BY <1>3 DEF Lane!Retune
  <2> DEFINE clamped == IF hard < lane.hard THEN Lane!Min({lane.cap, hard}) ELSE lane.cap
             warm == IF liveFloor = 0 THEN 0 ELSE Lane!Min({hard, Lane!Max({AimdMin, liveFloor})})
  <2>2. hard \in Nat \ {0} /\ liveFloor \in Nat
    BY DEF LaneParameters
  <2>3. clamped \in Nat /\ clamped >= 1 /\ clamped <= hard
    <3>1. lane.cap \in Int /\ hard \in Int
      BY <1>0, <2>2 DEF CapWithin
    <3>2. Lane!Min({lane.cap, hard}) = IF lane.cap <= hard THEN lane.cap ELSE hard
      BY ONLY <3>1, SmallerOfTwo
    <3>3. QED BY <1>0, <2>2, <3>2 DEF CapWithin
  <2>4. warm \in Nat /\ warm <= hard
    <3>1. AimdMin \in Int /\ liveFloor \in Int /\ hard \in Int /\ AimdMin \in Nat
      BY <2>2 DEF LaneParameters
    <3>2. Lane!Max({AimdMin, liveFloor}) = IF AimdMin >= liveFloor THEN AimdMin ELSE liveFloor
      BY ONLY <3>1, LargerOfTwo
    <3>3. Lane!Max({AimdMin, liveFloor}) \in Nat
      BY <2>2, <3>1, <3>2
    <3> DEFINE wide == Lane!Max({AimdMin, liveFloor})
    <3>4. wide \in Nat /\ wide \in Int
      BY <3>3
    <3> HIDE DEF wide
    <3>5. Lane!Min({hard, wide}) = IF hard <= wide THEN hard ELSE wide
      BY ONLY <3>1, <3>4, SmallerOfTwo
    <3>6. warm = IF liveFloor = 0 THEN 0 ELSE Lane!Min({hard, wide})
      BY DEF wide
    <3>7. QED BY <2>2, <3>4, <3>5, <3>6
  <2>5. lane' = [lane EXCEPT !.hard = hard, !.cap = Lane!Max({clamped, warm})]
    BY <2>1
  <2> HIDE DEF clamped, warm
  <2>6. /\ lane'.hard = hard /\ lane'.cap = Lane!Max({clamped, warm}) /\ lane'.age = lane.age
        /\ DOMAIN lane' = LaneFields
    BY <1>0, <2>5 DEF CapWithin, LaneFields
  <2>7. lane'.cap \in Nat /\ lane'.cap >= 1 /\ lane'.cap <= hard
    <3>1. clamped \in Int /\ warm \in Int
      BY <2>3, <2>4
    <3>2. Lane!Max({clamped, warm}) = IF clamped >= warm THEN clamped ELSE warm
      BY ONLY <3>1, LargerOfTwo
    <3>3. QED BY <2>3, <2>4, <2>6, <3>2
  <2>8. QED BY <1>0, <2>2, <2>6, <2>7 DEF LaneInv, Narrowed, CapWithin
<1>4. CASE Lane!Tick
  <2>1. /\ DOMAIN lane' = LaneFields /\ lane'.cap = lane.cap /\ lane'.hard = lane.hard
        /\ lane'.age = IF lane.age = Lane!Never THEN lane.age
                       ELSE Lane!Min({lane.age + 1, 2 * Backoff})
    BY <1>0, <1>4 DEF Lane!Tick, CapWithin, LaneFields
  <2>2. lane'.age \in Nat /\ (lane.age # 0 => lane'.age # 0)
    <3>1. lane.age \in Nat /\ Backoff \in Nat \ {0}
      BY <1>0 DEF CapWithin, LaneParameters
    <3> DEFINE next == lane.age + 1
               last == 2 * Backoff
    <3>2. next \in Int /\ last \in Int /\ next >= 1 /\ last >= 1
      BY <3>1
    <3>3. lane'.age = IF lane.age = Lane!Never THEN lane.age ELSE Lane!Min({next, last})
      BY <2>1
    <3> HIDE DEF next, last
    <3>4. Lane!Min({next, last}) = IF next <= last THEN next ELSE last
      BY ONLY <3>2, SmallerOfTwo
    <3>5. QED BY <3>1, <3>2, <3>3, <3>4
  <2>3. QED BY <1>0, <2>1, <2>2 DEF LaneInv, Narrowed, CapWithin
<1>5. CASE Lane!Roll
  BY <1>0, <1>5 DEF Lane!Roll, LaneInv, Narrowed, CapWithin
<1>6. QED
  BY <1>1, <1>2, <1>3, <1>4, <1>5
  DEF Lane!FeedbackNext, Lane!Pushback, Lane!Overload, Lane!NotOurs

LaneSpec == Lane!FeedbackInit /\ [][Lane!FeedbackNext]_(Lane!feedbackVars)

LEMMA LaneStart == LaneParameters /\ Lane!FeedbackInit => LaneInv
<1> SUFFICES ASSUME LaneParameters, Lane!FeedbackInit PROVE LaneInv
  OBVIOUS
<1>1. PICK hard \in Ceilings : lane = Lane!LaneOf(hard)
  BY DEF Lane!FeedbackInit
<1>2. hard \in Nat \ {0}
  BY DEF LaneParameters
<1> DEFINE wide == Lane!Max({AimdMin, Initial})
<1>3. wide \in Int /\ wide >= 1
  <2>1. AimdMin \in Int /\ Initial \in Int /\ AimdMin >= 1
    BY DEF LaneParameters
  <2>2. wide = IF AimdMin >= Initial THEN AimdMin ELSE Initial
    BY ONLY <2>1, LargerOfTwo
  <2>3. QED BY <2>1, <2>2
<1> HIDE DEF wide
<1>4. Lane!Min({hard, wide}) \in 1..hard
  <2>1. hard \in Int
    BY <1>2
  <2>2. Lane!Min({hard, wide}) = IF hard <= wide THEN hard ELSE wide
    BY ONLY <2>1, <1>3, SmallerOfTwo
  <2>3. QED BY <1>2, <1>3, <2>2
<1>5. Lane!Never \in Nat
  BY DEF Lane!Never, LaneParameters
<1>6. QED BY <1>1, <1>2, <1>4, <1>5 DEF Lane!LaneOf, LaneInv, CapWithin, LaneFields, wide

\* An answer that throttles never leaves a lane wider than it found it unless it had been left
\* below its floor, and no step leaves it empty or wider than its hard ceiling, for any
\* factor, floor and windows (limiter.py note_throttle, _apply_unified, note_success).
THEOREM LanePushbackNarrows == LaneParameters => (LaneSpec => Lane!PushbackNarrows)
<1> DEFINE P == /\ lane'.cap \in 1..lane'.hard
                /\ lane.age # 0 /\ lane'.age = 0 /\ lane.cap >= Lane!Min({lane.hard, AimdMin})
                     => lane'.cap <= lane.cap
<1> SUFFICES ASSUME LaneParameters PROVE LaneSpec => Lane!PushbackNarrows
  OBVIOUS
<1>1. LaneInv /\ [Lane!FeedbackNext]_(Lane!feedbackVars) => LaneInv'
  BY LaneStep DEF Lane!feedbackVars, LaneInv, CapWithin
<1>2. LaneInv /\ [Lane!FeedbackNext]_(Lane!feedbackVars) => [P]_(Lane!feedbackVars)
  BY LaneStep DEF Narrowed, LaneInv, CapWithin, Lane!AimdFloor
<1>3. QED BY <1>1, <1>2, LaneStart, PTL DEF LaneSpec, Lane!PushbackNarrows

-----------------------------------------------------------------------------
(* LaneHealth: whether a lane may be used. *)

DoorSpec == Door!HealthInit /\ [][Door!HealthNext]_(Door!healthVars)

DoorTyped ==
  /\ windows \in [Bearers -> [Windows -> WindowReading]] /\ paused \in [Bearers -> Nat]
  /\ seen \subseteq Bearers /\ due \subseteq Bearers
  /\ checking = None \/ checking.of \in Bearers
  /\ laneState \in [open : BOOLEAN, capacity : BOOLEAN, reset : Nat]
  /\ probe = None \/ probe \in Bodies

\* What the process holds against a credential it also restores, from the file unless it
\* could not be written, and every last refusal is among it.
VerdictsAreWritten ==
  /\ dead \subseteq restored /\ condemned \subseteq restored
  /\ restored \subseteq stored \cup unsaved

\* Kept from serving, until the hint has run out at least.
Barred(b, until) ==
  \/ Door!Dead(b) \/ ~Door!MeterAllows(b)
  \/ \E p \in Door!DueIn(b) : p >= until

HintKept ==
  quiet # "no" /\ probe = None /\ laneState.reset > 0 =>
    \/ ~(upstream.egress /\ upstream.auth /\ ~upstream.closed)
    \/ \A b \in seen : b \in lagging \/ Barred(b, laneState.reset)

\* While only time passes, what was open stays open.
OpenKept ==
  quiet = "health" =>
    /\ probe # None /\ probe.open => Door!HealthOpen
    /\ probe = None /\ laneState.open => Door!HealthOpen

CapacityKept ==
  quiet # "no" /\ probe = None /\ laneState.capacity =>
    Door!Serving # {} /\ upstream.egress /\ ~upstream.closed

DoorInv == DoorTyped /\ VerdictsAreWritten /\ HintKept /\ OpenKept /\ CapacityKept

LEMMA LeastOf ==
  ASSUME NEW T, T \subseteq Nat, T # {}
  PROVE  Door!Min(T) \in T /\ \A y \in T : Door!Min(T) <= y
BY LeastIsThere DEF Door!Min

LEMMA DoorSmaller ==
  ASSUME NEW a \in Nat, NEW b \in Nat
  PROVE  Door!Min({a, b}) \in Nat
BY LeastOf

LEMMA DoorLarger ==
  \A a, b \in Int : Door!Max({a, b}) = IF a >= b THEN a ELSE b
<1> TAKE a, b \in Int
<1> DEFINE m == IF a >= b THEN a ELSE b
<1>1. m \in {a, b} /\ \A y \in {a, b} : m >= y
  OBVIOUS
<1>2. \A x \in {a, b} : (\A y \in {a, b} : x >= y) => x = m
  OBVIOUS
<1>3. Door!Max({a, b}) = CHOOSE x \in {a, b} : \A y \in {a, b} : x >= y
  BY DEF Door!Max
<1> HIDE DEF m
<1>4. Door!Max({a, b}) = m
  BY <1>1, <1>2, <1>3
<1> QED BY <1>4 DEF m

\* A lock that states its end keeps its bearer out until then.
LEMMA LocksKeepOut ==
  ASSUME DoorTyped, NEW b \in Bearers
  PROVE  /\ Door!DueIn(b) \subseteq Nat
         /\ Door!DueIn(b) # {} => ~Door!WindowsAllow(b)
BY DEF DoorTyped, Door!DueIn, Door!WindowsAllow, Door!Rejected, Door!LiveWindows, WindowReading

LEMMA SoonestIsSoonest ==
  ASSUME DoorTyped
  PROVE  /\ Door!SoonestDue \in Nat
         /\ \A b \in seen : \A p \in Door!DueIn(b) : Door!SoonestDue <= p
<1> DEFINE dues == UNION {Door!DueIn(b) : b \in seen}
<1>1. \A b \in seen : Door!DueIn(b) \subseteq Nat
  BY LocksKeepOut DEF DoorTyped
<1>2. dues \subseteq Nat
  BY <1>1
<1>3. Door!SoonestDue = IF dues = {} THEN 0 ELSE Door!Min(dues)
  BY DEF Door!SoonestDue
<1>4. \A b \in seen : \A p \in Door!DueIn(b) : p \in dues
  OBVIOUS
<1> HIDE DEF dues
<1> QED BY <1>2, <1>3, <1>4, LeastOf

\* Where no bearer serves that is alive and allowed, each is barred until the soonest due.
LEMMA NoneServing ==
  ASSUME DoorTyped, NEW until \in Nat, until <= Door!SoonestDue,
         \A b \in seen : ~Door!WindowsAllow(b) \/ Door!Dead(b) \/ ~Door!MeterAllows(b)
  PROVE  \A b \in seen : b \in Door!Lagging \/ Barred(b, until)
<1> TAKE b \in seen
<1>1. CASE ~Door!WindowsAllow(b) /\ Door!DueIn(b) = {}
  BY <1>1 DEF Door!Lagging
<1>2. CASE ~Door!WindowsAllow(b) /\ Door!DueIn(b) # {}
  <2>1. PICK p \in Door!DueIn(b) : TRUE
    BY <1>2
  <2>2. p \in Nat /\ Door!SoonestDue \in Nat /\ Door!SoonestDue <= p
    BY <2>1, LocksKeepOut, SoonestIsSoonest DEF DoorTyped
  <2>3. p >= until
    BY <2>2
  <2> QED BY <2>1, <2>3 DEF Barred
<1>3. CASE Door!Dead(b) \/ ~Door!MeterAllows(b)
  BY <1>3 DEF Barred
<1> QED BY <1>1, <1>2, <1>3

LEMMA DoorStart == DoorParameters /\ Door!HealthInit => DoorInv
<1> SUFFICES ASSUME DoorParameters, Door!HealthInit PROVE DoorInv
  OBVIOUS
<1>1. Door!NoWindow \in WindowReading
  BY DEF Door!NoWindow, WindowReading
<1>2. DoorTyped
  BY <1>1 DEF Door!HealthInit, DoorTyped
<1>3. VerdictsAreWritten
  BY DEF Door!HealthInit, VerdictsAreWritten
<1>4. quiet = "no"
  BY DEF Door!HealthInit
<1> QED BY <1>2, <1>3, <1>4 DEF DoorInv, HintKept, OpenKept, CapacityKept

\* A verdict is written, or known not to be.
LEMMA ClearKeeps ==
  ASSUME VerdictsAreWritten, NEW b, Door!Clear(b)
  PROVE  VerdictsAreWritten'
BY DEF VerdictsAreWritten, Door!Clear, Door!Persist

LEMMA QuarantineKeeps ==
  ASSUME VerdictsAreWritten, NEW b, Door!Quarantine(b)
  PROVE  VerdictsAreWritten'
BY DEF VerdictsAreWritten, Door!Quarantine, Door!Persist, Door!Dead

LEMMA SuspectKeeps ==
  ASSUME VerdictsAreWritten, NEW b, Door!Suspect(b)
  PROVE  VerdictsAreWritten'
<1>1. CASE streak[b] + 1 >= Streak
  BY <1>1, QuarantineKeeps DEF Door!Suspect
<1>2. CASE ~(streak[b] + 1 >= Streak)
  BY <1>2 DEF Door!Suspect, VerdictsAreWritten
<1> QED BY <1>1, <1>2

LEMMA VerdictsStep ==
  VerdictsAreWritten /\ [Door!HealthNext]_(Door!healthVars) => VerdictsAreWritten'
<1> SUFFICES ASSUME VerdictsAreWritten, [Door!HealthNext]_(Door!healthVars)
             PROVE  VerdictsAreWritten'
  OBVIOUS
<1>1. ASSUME NEW b \in Bearers, Door!Served(b) PROVE VerdictsAreWritten'
  BY <1>1, ClearKeeps DEF Door!Served
<1>2. ASSUME NEW b \in Bearers, Door!Refused(b) PROVE VerdictsAreWritten'
  BY <1>2, QuarantineKeeps, SuspectKeeps DEF Door!Refused, Door!Condemn
<1>3. ASSUME Door!Restart PROVE VerdictsAreWritten'
  BY <1>3 DEF Door!Restart, VerdictsAreWritten
<1>4. ASSUME Door!RecheckAnswer PROVE VerdictsAreWritten'
  <2>1. CASE checking.ok
    BY <1>4, <2>1, ClearKeeps DEF Door!RecheckAnswer
  <2>2. CASE ~checking.ok
    BY <1>4, <2>2 DEF Door!RecheckAnswer, VerdictsAreWritten
  <2> QED BY <2>1, <2>2
<1>5. ASSUME UNCHANGED <<dead, restored, stored, condemned, unsaved>> PROVE VerdictsAreWritten'
  BY <1>5 DEF VerdictsAreWritten
<1>6. ASSUME NEW b \in Bearers, Door!PushedBack(b)
      PROVE  UNCHANGED <<dead, restored, stored, condemned, unsaved>>
  BY <1>6 DEF Door!PushedBack, Door!credentialVars
<1>7. ASSUME Door!RecheckPass \/ Door!RecheckSend \/ Door!RecheckFails
      PROVE  UNCHANGED <<dead, restored, stored, condemned, unsaved>>
  BY <1>7 DEF Door!RecheckPass, Door!RecheckSend, Door!RecheckFails, Door!credentialVars
<1>8. ASSUME Door!ReadHealth \/ Door!HealthFails \/ Door!ReadAdmission \/ Door!AdmissionFails
             \/ Door!Change
      PROVE  UNCHANGED <<dead, restored, stored, condemned, unsaved>>
  BY <1>8 DEF Door!ReadHealth, Door!HealthFails, Door!ReadAdmission, Door!AdmissionFails,
       Door!Change, Door!credentialVars
<1>9. ASSUME Door!Tick \/ UNCHANGED Door!healthVars
      PROVE  UNCHANGED <<dead, restored, stored, condemned, unsaved>>
  BY <1>9 DEF Door!Tick, Door!healthVars
<1> QED BY <1>1, <1>2, <1>3, <1>4, <1>5, <1>6, <1>7, <1>8, <1>9 DEF Door!HealthNext

-----------------------------------------------------------------------------
(* What the ingress keeps of it while only time passes. *)

\* A step that something happens in starts from nothing again.
LEMMA StirKeeps == ASSUME Door!Stir PROVE HintKept' /\ OpenKept' /\ CapacityKept'
BY DEF Door!Stir, HintKept, OpenKept, CapacityKept

\* What decides who serves and is let in.
LEMMA SameKeeps ==
  ASSUME HintKept, OpenKept, CapacityKept,
         UNCHANGED <<seen, windows, paused, dead, restored, upstream, class, probe, laneState,
                     quiet, lagging>>
  PROVE  HintKept' /\ OpenKept' /\ CapacityKept'
<1>1. \A b : /\ Door!Dead(b)' <=> Door!Dead(b)
             /\ Door!MeterAllows(b)' <=> Door!MeterAllows(b)
             /\ Door!DueIn(b)' = Door!DueIn(b)
             /\ Door!WindowsAllow(b)' <=> Door!WindowsAllow(b)
  BY DEF Door!Dead, Door!MeterAllows, Door!DueIn, Door!WindowsAllow, Door!Rejected, Door!Spent,
     Door!LiveWindows
<1>2. \A b, u : Barred(b, u)' <=> Barred(b, u)
  BY DEF Barred, Door!Dead, Door!MeterAllows, Door!DueIn, Door!LiveWindows
<1>3. Door!HealthOpen' <=> Door!HealthOpen
  BY DEF Door!HealthOpen, Door!LaneOpen, Door!OwnsKey, Door!Dead, Door!WindowsAllow, Door!Rejected,
     Door!Spent, Door!LiveWindows
<1>4. Door!Serving' = Door!Serving
  BY <1>1 DEF Door!Serving, Door!Usable
<1>5. HintKept'
  BY <1>2 DEF HintKept, Barred, Door!Dead, Door!MeterAllows, Door!DueIn, Door!LiveWindows
<1>6. OpenKept'
  BY <1>3 DEF OpenKept
<1>7. CapacityKept'
  BY <1>4 DEF CapacityKept
<1> QED BY <1>5, <1>6, <1>7

LEMMA TickedReading ==
  ASSUME NEW r \in WindowReading
  PROVE  (IF r.left <= 1 THEN Door!NoWindow ELSE [r EXCEPT !.left = @ - 1]) \in WindowReading
<1>1. Door!NoWindow \in WindowReading
  BY DEF Door!NoWindow, WindowReading
<1>2. r.left > 1 => [r EXCEPT !.left = @ - 1] \in WindowReading
  BY DEF WindowReading
<1>3. r.left \in Nat
  BY DEF WindowReading
<1> QED BY <1>1, <1>2, <1>3

LEMMA HintTyped ==
  ASSUME DoorTyped
  PROVE  /\ Door!HealthOpen \in BOOLEAN /\ Door!Allow \in BOOLEAN
         /\ probe # None => Door!Max({0, Door!SoonestDue - probe.age}) \in Nat
<1>1. Door!HealthOpen \in BOOLEAN /\ Door!Allow \in BOOLEAN
  BY DEF Door!HealthOpen, Door!Allow
<1>2. ASSUME probe # None PROVE Door!Max({0, Door!SoonestDue - probe.age}) \in Nat
  <2>1. probe.age \in Nat /\ Door!SoonestDue \in Nat
    BY <1>2, SoonestIsSoonest DEF DoorTyped, Bodies
  <2> DEFINE d == Door!SoonestDue - probe.age
  <2>2. d \in Int
    BY <2>1
  <2> HIDE DEF d
  <2>3. Door!Max({0, d}) = IF 0 >= d THEN 0 ELSE d
    BY <2>2, DoorLarger
  <2>4. Door!Max({0, d}) \in Nat
    BY <2>2, <2>3
  <2> QED BY <2>4 DEF d
<1> QED BY <1>1, <1>2

LEMMA DoorTypes ==
  DoorParameters /\ DoorTyped /\ [Door!HealthNext]_(Door!healthVars) => DoorTyped'
<1> SUFFICES ASSUME DoorParameters, DoorTyped, [Door!HealthNext]_(Door!healthVars)
             PROVE  DoorTyped'
  OBVIOUS
<1>1. ASSUME NEW b \in Bearers, Door!Served(b) PROVE DoorTyped'
  <2>1. PICK r \in DoorReadings : windows' = [windows EXCEPT ![b] = r]
    BY <1>1 DEF Door!Served
  <2>2. r \in [Windows -> WindowReading]
    BY <2>1 DEF DoorParameters
  <2> QED BY <1>1, <2>1, <2>2 DEF Door!Served, Door!Met, Door!recheckVars, Door!ingressVars,
                               DoorTyped
<1>2. ASSUME NEW b \in Bearers, Door!Refused(b) PROVE DoorTyped'
  BY <1>2 DEF Door!Refused, Door!Met, Door!recheckVars, Door!ingressVars, DoorTyped
<1>3. ASSUME NEW b \in Bearers, Door!PushedBack(b) PROVE DoorTyped'
  <2>1. PICK r \in DoorReadings, s \in DoorRetryAfters :
          /\ windows' = [windows EXCEPT ![b] = r]
          /\ paused' = [paused EXCEPT ![b] = Door!Max({@, s})]
    BY <1>3 DEF Door!PushedBack
  <2>2. r \in [Windows -> WindowReading] /\ s \in Nat
    BY <2>1 DEF DoorParameters
  <2>3. Door!Max({paused[b], s}) \in Nat
    BY <2>2, DoorLarger DEF DoorTyped
  <2>4. windows' \in [Bearers -> [Windows -> WindowReading]] /\ paused' \in [Bearers -> Nat]
    BY <2>1, <2>2, <2>3 DEF DoorTyped
  <2> QED BY <1>3, <2>4 DEF Door!PushedBack, Door!Met, Door!recheckVars, Door!ingressVars,
                         DoorTyped
<1>4. ASSUME Door!Restart PROVE DoorTyped'
  <2>1. Door!NoWindow \in WindowReading
    BY DEF Door!NoWindow, WindowReading
  <2> QED BY <1>4, <2>1 DEF Door!Restart, Door!ingressVars, DoorTyped
<1>5. ASSUME Door!RecheckPass PROVE DoorTyped'
  BY <1>5 DEF Door!RecheckPass, Door!windowVars, Door!ingressVars, DoorTyped
<1>6. ASSUME Door!RecheckSend PROVE DoorTyped'
  BY <1>6 DEF Door!RecheckSend, Door!windowVars, Door!ingressVars, DoorTyped
<1>7. ASSUME Door!RecheckAnswer PROVE DoorTyped'
  <2>1. seen' \subseteq Bearers
    BY <1>7 DEF Door!RecheckAnswer, Door!Met, DoorTyped
  <2> QED BY <1>7, <2>1 DEF Door!RecheckAnswer, Door!ingressVars, DoorTyped
<1>8. ASSUME Door!RecheckFails PROVE DoorTyped'
  BY <1>8 DEF Door!RecheckFails, Door!windowVars, Door!ingressVars, DoorTyped
<1>9. ASSUME Door!ReadHealth PROVE DoorTyped'
  <2> DEFINE h == Door!HealthOpen
             s == upstream.egress /\ upstream.auth
             t == IF upstream.egress /\ upstream.auth /\ ~upstream.closed /\ ~h
                  THEN Door!SoonestDue ELSE 0
  <2>1. h \in BOOLEAN /\ s \in BOOLEAN /\ t \in Nat
    BY SoonestIsSoonest, HintTyped
  <2>2. \/ probe' = [open |-> h, sound |-> s, age |-> 0] /\ laneState' = laneState
        \/ laneState' = [open |-> h, capacity |-> FALSE, reset |-> t] /\ probe' = probe
    BY <1>9 DEF Door!ReadHealth
  <2> HIDE DEF h, s, t
  <2>3. /\ [open |-> h, sound |-> s, age |-> 0] \in Bodies
        /\ [open |-> h, capacity |-> FALSE, reset |-> t]
             \in [open : BOOLEAN, capacity : BOOLEAN, reset : Nat]
    BY <2>1 DEF Bodies
  <2>4. /\ laneState' \in [open : BOOLEAN, capacity : BOOLEAN, reset : Nat]
        /\ probe' = None \/ probe' \in Bodies
    BY <2>2, <2>3 DEF DoorTyped
  <2> QED BY <1>9, <2>4 DEF Door!ReadHealth, Door!windowVars, Door!recheckVars, DoorTyped
<1>10. ASSUME Door!HealthFails PROVE DoorTyped'
  BY <1>10 DEF Door!HealthFails, Door!Closed, Door!windowVars, Door!recheckVars, DoorTyped
<1>11. ASSUME Door!ReadAdmission PROVE DoorTyped'
  <2> DEFINE o == probe.open \/ (Door!Allow /\ probe.sound)
             a == Door!Allow
             t == IF a THEN 0 ELSE Door!Max({0, Door!SoonestDue - probe.age})
  <2>1. o \in BOOLEAN /\ a \in BOOLEAN /\ t \in Nat
    BY <1>11, HintTyped DEF Door!ReadAdmission
  <2>2. laneState' = [open |-> o, capacity |-> a, reset |-> t] /\ probe' = None
    BY <1>11 DEF Door!ReadAdmission
  <2> HIDE DEF o, a, t
  <2>3. laneState' \in [open : BOOLEAN, capacity : BOOLEAN, reset : Nat]
    BY <2>1, <2>2
  <2> QED BY <1>11, <2>2, <2>3 DEF Door!ReadAdmission, Door!windowVars, Door!recheckVars, DoorTyped
<1>12. ASSUME Door!AdmissionFails PROVE DoorTyped'
  <2>1. probe.open \in BOOLEAN
    BY <1>12 DEF Door!AdmissionFails, DoorTyped, Bodies
  <2> QED BY <1>12, <2>1 DEF Door!AdmissionFails, Door!windowVars, Door!recheckVars, DoorTyped
<1>13. ASSUME Door!Change PROVE DoorTyped'
  BY <1>13 DEF Door!Change, Door!recheckVars, Door!ingressVars, DoorTyped
<1>14. ASSUME Door!Tick PROVE DoorTyped'
  <2>1. windows' \in [Bearers -> [Windows -> WindowReading]]
    <3>1. \A b \in Bearers, w \in Windows :
            (IF windows[b][w].left <= 1 THEN Door!NoWindow
             ELSE [windows[b][w] EXCEPT !.left = @ - 1]) \in WindowReading
      BY TickedReading DEF DoorTyped
    <3> QED BY <1>14, <3>1 DEF Door!Tick
  <2>2. paused' \in [Bearers -> Nat]
    BY <1>14 DEF Door!Tick, Door!Less, DoorTyped
  <2>3. laneState' \in [open : BOOLEAN, capacity : BOOLEAN, reset : Nat]
    BY <1>14 DEF Door!Tick, Door!Less, DoorTyped
  <2>4. probe' = None \/ probe' \in Bodies
    <3>1. CASE probe = None
      BY <1>14, <3>1 DEF Door!Tick
    <3>2. CASE probe # None
      <4>1. probe \in Bodies /\ probe.age + 1 \in Nat
        BY <3>2 DEF DoorTyped, Bodies
      <4> DEFINE m == Door!Min({MaxAge, probe.age + 1})
      <4>2. m \in Nat
        BY <4>1, DoorSmaller DEF DoorParameters
      <4>3. probe' = [probe EXCEPT !.age = m]
        BY <1>14, <3>2 DEF Door!Tick
      <4> HIDE DEF m
      <4> QED BY <4>1, <4>2, <4>3 DEF Bodies
    <3> QED BY <3>1, <3>2
  <2> QED BY <1>14, <2>1, <2>2, <2>3, <2>4 DEF Door!Tick, Door!recheckVars, DoorTyped
<1>15. ASSUME UNCHANGED Door!healthVars PROVE DoorTyped'
  BY <1>15 DEF Door!healthVars, DoorTyped
<1> QED BY <1>1, <1>2, <1>3, <1>4, <1>5, <1>6, <1>7, <1>8, <1>9, <1>10, <1>11, <1>12, <1>13,
           <1>14, <1>15 DEF Door!HealthNext

-----------------------------------------------------------------------------
(* Time passes. *)

LEMMA WindowAfter ==
  ASSUME NEW r \in WindowReading, NEW n,
         n = IF r.left <= 1 THEN Door!NoWindow ELSE [r EXCEPT !.left = @ - 1]
  PROVE  n.left > 0 => r.left > 0 /\ n.rejected = r.rejected /\ n.spent = r.spent
<1>1. r.left \in Nat
  BY DEF WindowReading
<1>2. CASE r.left <= 1
  BY <1>2 DEF Door!NoWindow
<1>3. CASE r.left > 1
  <2>1. n = [r EXCEPT !.left = r.left - 1]
    BY <1>1, <1>3
  <2>2. n.rejected = r.rejected /\ n.spent = r.spent
    BY <2>1 DEF WindowReading
  <2>3. r.left > 0
    BY <1>1, <1>3
  <2> QED BY <2>2, <2>3
<1> QED BY <1>1, <1>2, <1>3

LEMMA TickOpens ==
  ASSUME DoorTyped, Door!Tick, NEW b \in Bearers, Door!WindowsAllow(b)
  PROVE  Door!WindowsAllow(b)'
<1>1. \A w \in Windows :
        windows'[b][w] = IF windows[b][w].left <= 1 THEN Door!NoWindow
                         ELSE [windows[b][w] EXCEPT !.left = @ - 1]
  BY DEF Door!Tick
<1>2. \A w \in Windows : windows[b][w] \in WindowReading
  BY DEF DoorTyped
<1>3. \A w \in Windows :
        windows'[b][w].left > 0 =>
          /\ windows[b][w].left > 0
          /\ windows'[b][w].rejected = windows[b][w].rejected
          /\ windows'[b][w].spent = windows[b][w].spent
  BY <1>1, <1>2, WindowAfter
<1>4. paused[b] = 0 /\ b \in seen /\ seen' = seen /\ paused'[b] = 0
  BY DEF Door!Tick, Door!WindowsAllow, Door!Less, DoorTyped
<1>5. ~Door!Rejected(b)' /\ ~Door!Spent(b)'
  BY <1>3 DEF Door!WindowsAllow, Door!Rejected, Door!Spent, Door!LiveWindows
<1> QED BY <1>4, <1>5 DEF Door!WindowsAllow

LEMMA TickShortens ==
  ASSUME DoorTyped, Door!Tick, NEW b \in Bearers, NEW p \in Door!DueIn(b), p > 1
  PROVE  p - 1 \in Door!DueIn(b)'
<1>1. CASE p = paused[b]
  <2>1. paused'[b] = p - 1 /\ p - 1 > 0
    BY <1>1 DEF Door!Tick, Door!Less, DoorTyped
  <2> QED BY <2>1 DEF Door!DueIn
<1>2. CASE p # paused[b]
  <2>1. PICK w \in Door!LiveWindows(b) \ {"all"} :
          windows[b][w].rejected /\ p = windows[b][w].left
    BY <1>2 DEF Door!DueIn
  <2>2. w \in Windows /\ windows[b][w] \in WindowReading
    BY <2>1 DEF Door!LiveWindows, DoorTyped
  <2>3. windows'[b][w] = [windows[b][w] EXCEPT !.left = @ - 1]
    BY <2>1, <2>2 DEF Door!Tick, WindowReading
  <2>4. windows'[b][w].left = p - 1 /\ windows'[b][w].rejected /\ p - 1 > 0
    BY <2>1, <2>2, <2>3 DEF WindowReading
  <2> QED BY <2>1, <2>2, <2>4 DEF Door!DueIn, Door!LiveWindows
<1> QED BY <1>1, <1>2

LEMMA TickKeeps ==
  ASSUME DoorParameters, DoorTyped, HintKept, OpenKept, CapacityKept, Door!Tick
  PROVE  HintKept' /\ OpenKept' /\ CapacityKept'
<1>1. UNCHANGED <<seen, dead, restored, upstream, class, quiet, lagging>>
  BY DEF Door!Tick
<1>2. \A b \in Bearers : Door!WindowsAllow(b) => Door!WindowsAllow(b)'
  BY TickOpens
<1>3. \A b : /\ Door!Dead(b)' <=> Door!Dead(b)
             /\ Door!MeterAllows(b)' <=> Door!MeterAllows(b)
  BY <1>1 DEF Door!Dead, Door!MeterAllows
<1>4. Door!HealthOpen => Door!HealthOpen'
  <2>1. CASE Door!LaneOpen({b \in Bearers : ~Door!Dead(b)})
    <3>1. PICK b \in Bearers : ~Door!Dead(b) /\ Door!WindowsAllow(b)
      BY <2>1 DEF Door!LaneOpen
    <3>2. ~Door!Dead(b)' /\ Door!WindowsAllow(b)'
      BY <1>2, <1>3, <3>1
    <3>3. Door!LaneOpen({c \in Bearers : ~Door!Dead(c)})'
      BY <1>1, <2>1, <3>2 DEF Door!LaneOpen
    <3> QED BY <1>1, <3>3 DEF Door!HealthOpen
  <2>2. CASE ~Door!LaneOpen({b \in Bearers : ~Door!Dead(b)})
    BY <1>1, <2>2 DEF Door!HealthOpen, Door!OwnsKey
  <2> QED BY <2>1, <2>2
<1>5. Door!Serving \subseteq Door!Serving'
  BY <1>2, <1>3 DEF Door!Serving, Door!Usable
<1>6. /\ probe' = None <=> probe = None
      /\ probe # None => probe'.open = probe.open
      /\ laneState'.open = laneState.open /\ laneState'.capacity = laneState.capacity
      /\ laneState'.reset = Door!Less(laneState.reset) /\ laneState.reset \in Nat
  <2>1. laneState \in [open : BOOLEAN, capacity : BOOLEAN, reset : Nat]
        /\ laneState' = [laneState EXCEPT !.reset = Door!Less(@)]
    BY DEF Door!Tick, DoorTyped
  <2>2. /\ laneState'.open = laneState.open /\ laneState'.capacity = laneState.capacity
        /\ laneState'.reset = Door!Less(laneState.reset) /\ laneState.reset \in Nat
    BY <2>1
  <2>3. CASE probe = None
    BY <2>2, <2>3 DEF Door!Tick
  <2>4. CASE probe # None
    <3>1. probe \in Bodies /\ probe.age + 1 \in Nat
      BY <2>4 DEF DoorTyped, Bodies
    <3> DEFINE m == Door!Min({MaxAge, probe.age + 1})
    <3>2. m \in Nat
      BY <3>1, DoorSmaller DEF DoorParameters
    <3>3. probe' = [probe EXCEPT !.age = m]
      BY <2>4 DEF Door!Tick
    <3> HIDE DEF m
    <3>4. probe' \in Bodies /\ probe'.open = probe.open
      BY <3>1, <3>2, <3>3 DEF Bodies
    <3> QED BY <2>2, <2>4, <3>4 DEF DoorParameters
  <2> QED BY <2>3, <2>4
<1>7. HintKept'
  <2> SUFFICES ASSUME quiet' # "no", probe' = None, laneState'.reset > 0,
                      upstream'.egress /\ upstream'.auth /\ ~upstream'.closed,
                      NEW b \in seen'
               PROVE  (b \in lagging \/ Barred(b, laneState.reset))'
    BY DEF HintKept
  <2>1. /\ laneState.reset > 1 /\ laneState.reset \in Nat
        /\ laneState'.reset = laneState.reset - 1
    BY <1>6 DEF Door!Less
  <2>2. b \in seen /\ b \in Bearers
    BY <1>1 DEF DoorTyped
  <2>3. b \in lagging \/ Barred(b, laneState.reset)
    BY <1>1, <1>6, <2>1, <2>2 DEF HintKept
  <2>4. CASE \E p \in Door!DueIn(b) : p >= laneState.reset
    <3>1. PICK p \in Door!DueIn(b) : p >= laneState.reset
      BY <2>4
    <3>2. p \in Nat
      BY <2>2, <3>1, LocksKeepOut
    <3>3. p > 1 /\ p - 1 >= laneState'.reset
      BY <2>1, <3>1, <3>2
    <3>4. p - 1 \in Door!DueIn(b)'
      BY <2>2, <3>1, <3>3, TickShortens
    <3> QED BY <3>3, <3>4 DEF Barred
  <2>5. CASE b \in lagging \/ Door!Dead(b) \/ ~Door!MeterAllows(b)
    BY <1>1, <1>3, <2>5 DEF Barred
  <2> QED BY <2>3, <2>4, <2>5 DEF Barred
<1>8. OpenKept'
  BY <1>1, <1>4, <1>6 DEF OpenKept
<1>9. CapacityKept'
  BY <1>1, <1>5, <1>6 DEF CapacityKept
<1> QED BY <1>7, <1>8, <1>9

-----------------------------------------------------------------------------
(* The ingress reads. *)

\* A bearer that serves makes the lane open to health, which looks at fewer things.
LEMMA AllowedIsOpen == Door!Allow => Door!HealthOpen
BY DEF Door!Allow, Door!LaneOpen, Door!HealthOpen, Door!Serving, Door!Usable

\* What a step that reads leaves alone.
DoorAlone == UNCHANGED <<seen, windows, paused, dead, restored, upstream, class>>

LEMMA ReadsAlone ==
  ASSUME DoorAlone
  PROVE  /\ Door!HealthOpen' <=> Door!HealthOpen
         /\ Door!Serving' = Door!Serving
         /\ \A b : /\ Door!Dead(b)' <=> Door!Dead(b)
                   /\ Door!MeterAllows(b)' <=> Door!MeterAllows(b)
                   /\ Door!DueIn(b)' = Door!DueIn(b)
<1>1. \A b : /\ Door!Dead(b)' <=> Door!Dead(b)
             /\ Door!MeterAllows(b)' <=> Door!MeterAllows(b)
             /\ Door!DueIn(b)' = Door!DueIn(b)
             /\ Door!WindowsAllow(b)' <=> Door!WindowsAllow(b)
  BY DEF DoorAlone, Door!Dead, Door!MeterAllows, Door!DueIn, Door!WindowsAllow, Door!Rejected,
     Door!Spent, Door!LiveWindows
<1>2. Door!HealthOpen' <=> Door!HealthOpen
  BY DEF DoorAlone, Door!HealthOpen, Door!LaneOpen, Door!OwnsKey, Door!Dead, Door!WindowsAllow,
     Door!Rejected, Door!Spent, Door!LiveWindows
<1>3. Door!Serving' = Door!Serving
  BY <1>1 DEF Door!Serving, Door!Usable
<1> QED BY <1>1, <1>2, <1>3

\* A hint of a lane on which nobody serves is kept.
LEMMA HintHolds ==
  ASSUME DoorTyped, DoorAlone, lagging' = Door!Lagging, laneState'.reset \in Nat,
         laneState'.reset <= Door!SoonestDue,
         \A b \in seen : ~Door!WindowsAllow(b) \/ Door!Dead(b) \/ ~Door!MeterAllows(b)
  PROVE  HintKept'
<1>1. \A b \in seen : b \in Door!Lagging \/ Barred(b, laneState'.reset)
  <2> DEFINE u == laneState'.reset
  <2>1. u \in Nat /\ u <= Door!SoonestDue
    OBVIOUS
  <2> HIDE DEF u
  <2>2. \A b \in seen : b \in Door!Lagging \/ Barred(b, u)
    BY <2>1, NoneServing
  <2> QED BY <2>2 DEF u
<1>2. ASSUME NEW b \in seen PROVE (b \in lagging \/ Barred(b, laneState.reset))'
  <2>1. CASE b \in Door!Lagging
    BY <2>1
  <2>2. CASE Door!Dead(b) \/ ~Door!MeterAllows(b)
    BY <2>2, ReadsAlone DEF Barred
  <2>3. CASE \E p \in Door!DueIn(b) : p >= laneState'.reset
    BY <2>3, ReadsAlone DEF Barred
  <2> QED BY <1>1, <2>1, <2>2, <2>3 DEF Barred
<1>3. seen' = seen
  BY DEF DoorAlone
<1> QED BY <1>2, <1>3 DEF HintKept

LEMMA ReadHealthKeeps ==
  ASSUME DoorParameters, DoorTyped, HintKept, OpenKept, CapacityKept, Door!ReadHealth
  PROVE  HintKept' /\ OpenKept' /\ CapacityKept'
<1>1. DoorAlone /\ quiet' = "health" /\ lagging' = Door!Lagging /\ probe = None
  BY DEF Door!ReadHealth, DoorAlone, Door!windowVars, Door!credentialVars
<1>2. CASE class = "subscription"
  <2>1. probe' = [open |-> Door!HealthOpen, sound |-> upstream.egress /\ upstream.auth, age |-> 0]
    BY <1>2 DEF Door!ReadHealth
  <2>2. probe' # None /\ (probe'.open <=> Door!HealthOpen)
    <3>1. (upstream.egress /\ upstream.auth) \in BOOLEAN /\ Door!HealthOpen \in BOOLEAN
      BY HintTyped
    <3>2. probe' \in Bodies
      BY <2>1, <3>1 DEF Bodies
    <3> QED BY <2>1, <3>2 DEF DoorParameters
  <2> QED BY <1>1, <2>2, ReadsAlone DEF HintKept, OpenKept, CapacityKept
<1>3. CASE class # "subscription"
  <2> DEFINE shut == upstream.egress /\ upstream.auth /\ ~upstream.closed /\ ~Door!HealthOpen
  <2>1. /\ laneState' = [open |-> Door!HealthOpen, capacity |-> FALSE,
                         reset |-> IF shut THEN Door!SoonestDue ELSE 0]
        /\ probe' = probe
    BY <1>3 DEF Door!ReadHealth
  <2>2. /\ laneState'.open <=> Door!HealthOpen
        /\ ~laneState'.capacity
        /\ laneState'.reset = IF shut THEN Door!SoonestDue ELSE 0
    BY <2>1
  <2>3. Door!SoonestDue \in Nat
    BY SoonestIsSoonest
  <2>4. OpenKept' /\ CapacityKept'
    BY <1>1, <2>1, <2>2, ReadsAlone DEF OpenKept, CapacityKept
  <2>5. HintKept'
    <3>1. CASE shut
      <4>1. \A b \in seen : ~Door!WindowsAllow(b) \/ Door!Dead(b)
        BY <3>1 DEF Door!HealthOpen, Door!LaneOpen, DoorTyped
      <4>2. laneState'.reset \in Nat /\ laneState'.reset <= Door!SoonestDue
        BY <2>2, <2>3, <3>1
      <4> QED BY <1>1, <4>1, <4>2, HintHolds
    <3>2. CASE ~shut
      <4>1. laneState'.reset = 0
        BY <2>2, <3>2
      <4> QED BY <4>1 DEF HintKept
    <3> QED BY <3>1, <3>2
  <2> QED BY <2>4, <2>5
<1> QED BY <1>2, <1>3

LEMMA ReadAdmissionKeeps ==
  ASSUME DoorParameters, DoorTyped, HintKept, OpenKept, CapacityKept, Door!ReadAdmission
  PROVE  HintKept' /\ OpenKept' /\ CapacityKept'
<1>1. /\ DoorAlone /\ lagging' = Door!Lagging /\ probe # None /\ probe' = None
      /\ quiet' = "health" => quiet = "health"
  BY DEF Door!ReadAdmission, DoorAlone, Door!windowVars, Door!credentialVars
<1> DEFINE d == Door!SoonestDue - probe.age
           hint == IF Door!Allow THEN 0 ELSE Door!Max({0, d})
<1>2. laneState' = [open |-> probe.open \/ (Door!Allow /\ probe.sound), capacity |-> Door!Allow,
                    reset |-> hint]
  BY DEF Door!ReadAdmission
<1>3. probe.age \in Nat /\ Door!SoonestDue \in Nat
  BY <1>1, SoonestIsSoonest DEF DoorTyped, Bodies
<1>4. Door!Max({0, d}) = IF 0 >= d THEN 0 ELSE d
  <2>1. d \in Int
    BY <1>3
  <2> HIDE DEF d
  <2> QED BY <2>1, DoorLarger
<1>5. /\ laneState'.open <=> probe.open \/ (Door!Allow /\ probe.sound)
      /\ laneState'.capacity <=> Door!Allow
      /\ laneState'.reset = hint
  BY <1>2
<1>6. OpenKept'
  <2>1. quiet' = "health" /\ probe.open => Door!HealthOpen
    BY <1>1 DEF OpenKept
  <2>2. quiet' = "health" /\ laneState'.open => Door!HealthOpen
    BY <1>5, <2>1, AllowedIsOpen
  <2> QED BY <1>1, <2>2, ReadsAlone DEF OpenKept
<1>7. CapacityKept'
  <2>1. Door!Allow => Door!Serving # {} /\ upstream.egress /\ ~upstream.closed
    BY DEF Door!Allow, Door!LaneOpen
  <2>2. upstream' = upstream
    BY <1>1 DEF DoorAlone
  <2> QED BY <1>1, <1>5, <2>1, <2>2, ReadsAlone DEF CapacityKept
<1>8. HintKept'
  <2>1. CASE upstream.egress /\ upstream.auth /\ ~upstream.closed /\ ~Door!Allow
    <3>1. Door!Serving = {}
      BY <2>1 DEF Door!Allow, Door!LaneOpen, Door!Serving, Door!Usable
    <3>2. \A b \in seen : ~Door!WindowsAllow(b) \/ Door!Dead(b) \/ ~Door!MeterAllows(b)
      BY <3>1 DEF Door!Serving, Door!Usable, DoorTyped
    <3>3. laneState'.reset = IF 0 >= d THEN 0 ELSE d
      BY <1>4, <1>5, <2>1
    <3>4. laneState'.reset \in Nat /\ laneState'.reset <= Door!SoonestDue
      BY <1>3, <3>3
    <3> QED BY <1>1, <3>2, <3>4, HintHolds
  <2>2. CASE Door!Allow
    <3>1. laneState'.reset = 0
      BY <1>5, <2>2
    <3> QED BY <3>1 DEF HintKept
  <2>3. CASE ~(upstream.egress /\ upstream.auth /\ ~upstream.closed)
    <3>1. upstream' = upstream
      BY <1>1 DEF DoorAlone
    <3> QED BY <2>3, <3>1 DEF HintKept
  <2> QED BY <2>1, <2>2, <2>3
<1> QED BY <1>6, <1>7, <1>8

LEMMA KeptStep ==
  DoorParameters /\ DoorTyped /\ HintKept /\ OpenKept /\ CapacityKept
  /\ [Door!HealthNext]_(Door!healthVars) => HintKept' /\ OpenKept' /\ CapacityKept'
<1> SUFFICES ASSUME DoorParameters, DoorTyped, HintKept, OpenKept, CapacityKept,
                    [Door!HealthNext]_(Door!healthVars)
             PROVE  HintKept' /\ OpenKept' /\ CapacityKept'
  OBVIOUS
<1> DEFINE Same == UNCHANGED <<seen, windows, paused, dead, restored, upstream, class, probe,
                               laneState, quiet, lagging>>
<1>1. ASSUME NEW b \in Bearers, Door!Served(b) \/ Door!Refused(b) \/ Door!PushedBack(b)
      PROVE  Door!Stir
  BY <1>1 DEF Door!Served, Door!Refused, Door!PushedBack
<1>2. ASSUME Door!Restart \/ Door!HealthFails \/ Door!AdmissionFails \/ Door!Change
      PROVE  Door!Stir
  BY <1>2 DEF Door!Restart, Door!HealthFails, Door!AdmissionFails, Door!Change
<1>3. ASSUME Door!RecheckPass \/ Door!RecheckSend \/ Door!RecheckFails PROVE Same
  BY <1>3 DEF Door!RecheckPass, Door!RecheckSend, Door!RecheckFails, Door!windowVars,
     Door!credentialVars, Door!ingressVars
<1>4. ASSUME Door!RecheckAnswer PROVE Door!Stir \/ Same
  BY <1>4 DEF Door!RecheckAnswer, Door!ingressVars
<1>5. ASSUME UNCHANGED Door!healthVars PROVE Same
  BY <1>5 DEF Door!healthVars
<1>6. Same => HintKept' /\ OpenKept' /\ CapacityKept'
  BY SameKeeps
<1> HIDE DEF Same
<1>7. CASE Door!ReadHealth \/ Door!ReadAdmission \/ Door!Tick
  BY <1>7, ReadHealthKeeps, ReadAdmissionKeeps, TickKeeps
<1> QED BY <1>1, <1>2, <1>3, <1>4, <1>5, <1>6, <1>7, StirKeeps DEF Door!HealthNext

LEMMA DoorStep == DoorParameters /\ DoorInv /\ [Door!HealthNext]_(Door!healthVars) => DoorInv'
BY DoorTypes, VerdictsStep, KeptStep DEF DoorInv

LEMMA LoadIsTold == Door!ParkingIsCertain
<1>1. Door!WouldPark => \A b \in Door!Serving : pool[b].queue = "fair"
  BY DEF Door!WouldPark, Door!Parks
<1>2. ASSUME NEW b \in Door!Serving, pool[b].queue = "off" PROVE Door!AdmitsNewClient
  <2>1. Door!Measured(pool[b])
    BY <1>2 DEF Door!Measured
  <2>2. pool[b] \in {pool[c] : c \in {s \in Door!Serving : Door!Measured(pool[s])}}
    BY <2>1
  <2> QED BY <1>2, <2>2 DEF Door!AdmitsNewClient
<1> QED BY <1>1, <1>2 DEF Door!ParkingIsCertain

LEMMA DoorIsHonest == DoorInv => Door!VerdictsAreHonest
<1> SUFFICES ASSUME DoorInv PROVE Door!VerdictsAreHonest
  OBVIOUS
<1>1. Door!RefusalsStick
  BY DEF DoorInv, VerdictsAreWritten, Door!RefusalsStick, Door!Dead
<1>2. Door!HintIsNotLate
  <2> SUFFICES ASSUME quiet # "no", probe = None, laneState.reset > 0, Door!Allow,
                      NEW b \in Door!Serving, b \notin lagging
               PROVE  FALSE
    BY DEF Door!HintIsNotLate
  <2>1. upstream.egress /\ upstream.auth /\ ~upstream.closed
    BY DEF Door!Allow, Door!LaneOpen
  <2>2. b \in seen /\ b \in Bearers /\ Door!WindowsAllow(b) /\ ~Door!Dead(b) /\ Door!MeterAllows(b)
    BY DEF Door!Serving, Door!Usable, Door!WindowsAllow
  <2>3. Barred(b, laneState.reset)
    BY <2>1, <2>2 DEF DoorInv, HintKept
  <2>4. Door!DueIn(b) # {}
    BY <2>2, <2>3 DEF Barred
  <2> QED BY <2>2, <2>4, LocksKeepOut DEF DoorInv
<1>3. Door!SelectableServes
  BY DEF DoorInv, OpenKept, CapacityKept, Door!SelectableServes
<1> QED BY <1>1, <1>2, <1>3, LoadIsTold DEF Door!VerdictsAreHonest

\* A refused credential stays in quarantine through restarts unless its verdict could not be
\* written; while only time passes, the ingress's hint is no later than the moment a bearer
\* serves again, and a lane it takes for open or for having room is so; nobody is told that a
\* call would park while a bearer serves that does not queue (proxy.py, ingress.py).
THEOREM VerdictsAreHonestHolds == DoorParameters => (DoorSpec => []Door!VerdictsAreHonest)
<1> SUFFICES ASSUME DoorParameters PROVE DoorSpec => []Door!VerdictsAreHonest
  OBVIOUS
<1>1. DoorInv /\ [Door!HealthNext]_(Door!healthVars) => DoorInv'
  BY DoorStep
<1>2. Door!HealthInit => DoorInv
  BY DoorStart
<1>3. QED BY <1>1, <1>2, DoorIsHonest, PTL DEF DoorSpec

-----------------------------------------------------------------------------
(* WeeklyPacing: what a caller is told of the week. *)

PaceSpec == Pace!PaceInit /\ [][Pace!PaceNext]_(Pace!paceVars)

ReadingsTyped == reading \in [PaceAccounts -> [util : 0..Full, left : 0..Week]]

LEMMA Times ==
  \A a, b \in Int, d \in Nat : a <= b => a * d <= b * d
<1> TAKE a, b \in Int, d \in Nat
<1>1. ASSUME a <= b PROVE (b - a) * d \in Nat
  <2>1. b - a \in Nat
    BY <1>1
  <2> QED BY <2>1
<1>2. (b - a) * d = b * d - a * d
  OBVIOUS
<1> QED BY <1>1, <1>2

\* Rounding down keeps strict comparisons of whole numbers.
LEMMA Rounded ==
  ASSUME NEW n \in Nat, NEW d \in Nat \ {0}
  PROVE  n \div d \in Nat /\ \A x \in Int : x * d > n <=> x > n \div d
<1> DEFINE q == n \div d
<1>1. q \in Nat /\ q * d <= n /\ n < (q + 1) * d
  OBVIOUS
<1> HIDE DEF q
<1>2. ASSUME NEW x \in Int, x > q PROVE x * d > n
  <2>1. (q + 1) * d <= x * d
    BY <1>1, <1>2, Times
  <2> QED BY <1>1, <2>1
<1>3. ASSUME NEW x \in Int, x <= q PROVE x * d <= n
  <2>1. x * d <= q * d
    BY <1>1, <1>3, Times
  <2> QED BY <1>1, <2>1
<1>4. ASSUME NEW x \in Int PROVE x * d > n <=> x > q
  BY <1>1, <1>2, <1>3
<1> QED BY <1>1, <1>4 DEF q

\* When the line reaches account a's reading, in hours left to the reset.
LEMMA LineReaches ==
  ASSUME PaceParameters, ReadingsTyped, NEW a \in Pace!Ahead
  PROVE  \E q \in Nat :
           /\ \A x \in Int : Pace!AheadOn(a, x) <=> x > q
           /\ q < reading[a].left /\ Pace!CatchupWait(a) = reading[a].left - q
<1> DEFINE u == reading[a].util
           l == reading[a].left
           d == Full - Burst
           n == Week * (Full - u)
           q == n \div d
<1>1. a \in PaceAccounts /\ u \in 0..Full /\ l \in 0..Week /\ Week \in Nat /\ Full \in Nat
      /\ Burst \in 0..Full
  BY DEF Pace!Ahead, PaceParameters, ReadingsTyped
<1>2. \A x \in Int : Pace!AheadOn(a, x) <=> x > 0 /\ u * Week > (Week - x) * Full + x * Burst
  BY DEF Pace!AheadOn
<1>3. d \in Nat /\ Full - u \in Nat /\ n \in Nat
  <2>1. \A v, w \in Nat : v * w \in Nat
    OBVIOUS
  <2>2. d \in Nat /\ Full - u \in Nat
    BY <1>1
  <2> QED BY <1>1, <2>1, <2>2
<1>4. \A x \in Int : Pace!AheadOn(a, x) <=> x > 0 /\ x * d > n
  <2> TAKE x \in Int
  <2>1. (Week - x) * Full + x * Burst = Week * Full - x * d
    BY <1>1
  <2>2. n = Week * Full - u * Week
    BY <1>1
  <2>3. u * Week \in Int /\ Week * Full \in Int /\ x * d \in Int
    BY <1>1, <1>3
  <2> HIDE DEF n, d
  <2> QED BY <1>2, <2>1, <2>2, <2>3
<1>5. Pace!AheadOn(a, l)
  BY DEF Pace!Ahead
<1>6. d # 0
  <2> SUFFICES ASSUME d = 0 PROVE FALSE
    OBVIOUS
  <2>1. l * d > n /\ l * d = 0
    BY <1>1, <1>4, <1>5
  <2> QED BY <1>3, <2>1
<1>7. q \in Nat /\ \A x \in Int : x * d > n <=> x > q
  BY <1>3, <1>6, Rounded
<1>8. \A x \in Int : Pace!AheadOn(a, x) <=> x > q
  BY <1>4, <1>7
<1>9. q < l
  BY <1>1, <1>5, <1>8
<1>10. Pace!CatchupWait(a) = l - q
  <2>1. Pace!Min({Week, q}) = q
    <3>1. q < Week
      BY <1>1, <1>7, <1>9
    <3> HIDE DEF q
    <3>2. \A x \in {Week, q} : (\A y \in {Week, q} : x <= y) <=> x = q
      BY <1>1, <1>7, <3>1
    <3> QED BY <3>2 DEF Pace!Min
  <2>2. Pace!Max({0, q}) = q
    <3> HIDE DEF q
    <3>1. \A x \in {0, q} : (\A y \in {0, q} : x >= y) <=> x = q
      BY <1>7
    <3> QED BY <3>1 DEF Pace!Max
  <2>3. Pace!Max({1, l - q}) = l - q
    <3> DEFINE w == l - q
    <3>1. w \in Nat /\ w >= 1
      BY <1>1, <1>7, <1>9
    <3> HIDE DEF w
    <3>2. \A x \in {1, w} : (\A y \in {1, w} : x >= y) <=> x = w
      BY <3>1
    <3>3. Pace!Max({1, w}) = w
      BY <3>2 DEF Pace!Max
    <3> QED BY <3>3 DEF w
  <2>4. Pace!CatchupWait(a)
          = Pace!Max({1, l - Pace!Max({0, Pace!Min({Week, n \div d})})})
    BY DEF Pace!CatchupWait
  <2> QED BY <2>1, <2>2, <2>3, <2>4
<1> QED BY <1>7, <1>8, <1>9, <1>10

LEMMA RetryIsHonest ==
  ASSUME PaceParameters, ReadingsTyped PROVE Pace!RetryAfterIsHonest
<1> SUFFICES ASSUME Pace!Ahead = PaceAccounts
             PROVE  /\ Pace!CatchupRetry < PaceRetryCap =>
                         \E a \in PaceAccounts :
                           ~Pace!AheadOn(a, reading[a].left - Pace!CatchupRetry)
                    /\ \A t \in 0..Pace!CatchupRetry - 1 : \A a \in PaceAccounts :
                         Pace!AheadOn(a, reading[a].left - t)
  BY DEF Pace!RetryAfterIsHonest
<1> DEFINE T == {PaceRetryCap} \cup {Pace!CatchupWait(a) : a \in PaceAccounts}
           m == Pace!CatchupRetry
<1>1. \A a \in PaceAccounts : Pace!CatchupWait(a) \in Nat /\ reading[a].left \in Nat
  <2> TAKE a \in PaceAccounts
  <2>1. reading[a].left \in Nat
    BY DEF ReadingsTyped, PaceParameters
  <2>2. PICK q \in Nat : q < reading[a].left /\ Pace!CatchupWait(a) = reading[a].left - q
    BY LineReaches
  <2> QED BY <2>1, <2>2
<1>2. m \in T /\ \A y \in T : m <= y
  <2>1. T \subseteq Nat /\ T # {}
    BY <1>1 DEF PaceParameters
  <2>2. m = CHOOSE x \in T : \A y \in T : x <= y
    BY DEF Pace!CatchupRetry, Pace!Min
  <2> HIDE DEF T, m
  <2> QED BY <2>1, <2>2, LeastIsThere
<1>3. T \subseteq Nat
  BY <1>1 DEF PaceParameters
<1>4. m \in Nat
  BY <1>2, <1>3
<1>5. ASSUME m < PaceRetryCap
      PROVE  \E a \in PaceAccounts : ~Pace!AheadOn(a, reading[a].left - m)
  <2>1. PaceRetryCap \in Nat
    BY DEF PaceParameters
  <2>2. PICK a \in PaceAccounts : m = Pace!CatchupWait(a)
    BY <1>2, <1>4, <1>5, <2>1
  <2>3. PICK q \in Nat : /\ \A x \in Int : Pace!AheadOn(a, x) <=> x > q
                         /\ Pace!CatchupWait(a) = reading[a].left - q
    BY LineReaches
  <2>4. reading[a].left - m = q
    BY <1>1, <2>2, <2>3
  <2> QED BY <2>3, <2>4
<1>6. ASSUME NEW t \in 0..m - 1, NEW a \in PaceAccounts
      PROVE  Pace!AheadOn(a, reading[a].left - t)
  <2>1. PICK q \in Nat : /\ \A x \in Int : Pace!AheadOn(a, x) <=> x > q
                         /\ Pace!CatchupWait(a) = reading[a].left - q
    BY LineReaches
  <2>2. m <= reading[a].left - q
    BY <1>2, <2>1
  <2>3. reading[a].left - t > q /\ reading[a].left - t \in Int
    BY <1>1, <1>4, <1>6, <2>1, <2>2
  <2> QED BY <2>1, <2>3
<1> QED BY <1>5, <1>6

LEMMA ReadingsStart == ASSUME PaceParameters, Pace!PaceInit PROVE ReadingsTyped
BY DEF Pace!PaceInit, ReadingsTyped, PaceParameters

LEMMA ReadingsStep ==
  ASSUME PaceParameters, ReadingsTyped, [Pace!PaceNext]_(Pace!paceVars)
  PROVE  ReadingsTyped'
<1> DEFINE R == [util : 0..Full, left : 0..Week]
<1>1. ASSUME NEW p \in Projects, NEW priority \in BOOLEAN, Pace!Served(p, priority)
      PROVE  ReadingsTyped'
  <2>1. PICK a \in PaceAccounts : \E r \in Pace!Next7d(a) : reading' = [reading EXCEPT ![a] = r]
    BY <1>1 DEF Pace!Served, Pace!Routable
  <2>4. PICK r \in Pace!Next7d(a) : reading' = [reading EXCEPT ![a] = r]
    BY <2>1
  <2>2. reading[a].util \in 0..Full /\ reading[a].left \in 0..Week /\ reading[a] \in R
    BY DEF ReadingsTyped
  <2>3. r \in R
    BY <2>4, <2>2 DEF Pace!Next7d, PaceParameters
  <2> QED BY <2>4, <2>3 DEF ReadingsTyped
<1>2. ASSUME Pace!Hour PROVE ReadingsTyped'
  <2>1. reading' = [a \in PaceAccounts |->
                     [reading[a] EXCEPT !.left = Pace!Max({0, @ - 1})]]
    BY <1>2 DEF Pace!Hour
  <2>2. ASSUME NEW a \in PaceAccounts
        PROVE  [reading[a] EXCEPT !.left = Pace!Max({0, @ - 1})] \in R
    <3>1. reading[a] \in R /\ reading[a].left \in 0..Week
      BY DEF ReadingsTyped
    <3> DEFINE l == reading[a].left
               m == IF l = 0 THEN 0 ELSE l - 1
    <3>2. Pace!Max({0, l - 1}) = m /\ m \in 0..Week
      <4> HIDE DEF l
      <4>1. l \in Nat /\ m \in Nat /\ m \in 0..Week
        BY <3>1 DEF l, PaceParameters
      <4>2. \A x \in {0, l - 1} : (\A y \in {0, l - 1} : x >= y) <=> x = m
        BY <4>1
      <4> QED BY <4>1, <4>2 DEF Pace!Max
    <3> HIDE DEF m
    <3> QED BY <3>1, <3>2
  <2> QED BY <2>1, <2>2 DEF ReadingsTyped
<1>3. CASE UNCHANGED reading
  BY <1>3 DEF ReadingsTyped
<1> QED BY <1>1, <1>2, <1>3 DEF Pace!PaceNext, Pace!Call, Pace!Deferred, Pace!paceVars

\* The ledger: as many calls counted under the known names as were served, over any hours.
BooksOf(b, k, W) == SumOf([n \in k |-> SumOf(b[n], W)], k)

\* One more in hour t of name n, which is known from then on.
LEMMA LedgerAdds ==
  ASSUME NEW Ns, IsFiniteSet(Ns), NEW k \in SUBSET Ns, NEW n \in Ns,
         NEW W, IsFiniteSet(W), NEW t,
         NEW b, \A m \in Ns, h \in W : b[m][h] \in Nat,
         NEW c, \A m \in Ns \ {n}, h \in W : c[m][h] = b[m][h],
         \A h \in W : c[n][h] = IF h = t THEN b[n][h] + 1 ELSE b[n][h],
         n \notin k => \A h \in W : b[n][h] = 0
  PROVE  /\ BooksOf(c, k \cup {n}, W) = BooksOf(b, k, W) + (IF t \in W THEN 1 ELSE 0)
         /\ BooksOf(b, k, W) \in Nat
<1> DEFINE d == IF t \in W THEN 1 ELSE 0
           K == k \cup {n}
           o == k \ {n}
           f == [m \in k |-> SumOf(b[m], W)]
           g == [m \in K |-> SumOf(c[m], W)]
<1>1. IsFiniteSet(k) /\ IsFiniteSet(K) /\ IsFiniteSet(o) /\ K \subseteq Ns
  BY FS_Subset, FS_AddElement
<1>2. \A m \in Ns : SumOf(b[m], W) \in Nat
  BY SumOfNats
<1>3. \A m \in Ns \ {n} : SumOf(c[m], W) = SumOf(b[m], W)
  <2> TAKE m \in Ns \ {n}
  <2>1. \A h \in W : b[m][h] \in Int /\ b[m][h] = c[m][h]
    OBVIOUS
  <2> QED BY <2>1, SumSame
<1>4. SumOf(c[n], W) = SumOf(b[n], W) + d
  <2>1. \A h \in W : b[n][h] \in Int /\ c[n][h] \in Int
    OBVIOUS
  <2>2. CASE t \in W
    <3>1. SumOf(c[n], W) = c[n][t] + SumOf(c[n], W \ {t})
      BY <2>1, <2>2, SumTake
    <3>2. SumOf(b[n], W) = b[n][t] + SumOf(b[n], W \ {t})
      BY <2>1, <2>2, SumTake
    <3>3. SumOf(b[n], W \ {t}) = SumOf(c[n], W \ {t}) /\ SumOf(b[n], W \ {t}) \in Int
      <4>1. IsFiniteSet(W \ {t}) /\ \A h \in W \ {t} : b[n][h] \in Int /\ b[n][h] = c[n][h]
        BY FS_Subset
      <4> QED BY <4>1, SumSame, SumTake
    <3>4. c[n][t] = b[n][t] + 1 /\ b[n][t] \in Int
      BY <2>2
    <3> QED BY <2>2, <3>1, <3>2, <3>3, <3>4
  <2>3. CASE t \notin W
    <3>1. \A h \in W : b[n][h] \in Int /\ b[n][h] = c[n][h]
      BY <2>3
    <3>2. SumOf(b[n], W) = SumOf(c[n], W)
      BY <3>1, SumSame
    <3> QED BY <1>2, <2>3, <3>2
  <2> QED BY <2>2, <2>3
<1>5. \A m \in k : f[m] \in Nat /\ f[m] = SumOf(b[m], W)
  BY <1>2
<1>6. \A m \in K : g[m] \in Int /\ g[m] = SumOf(c[m], W)
  BY <1>1, <1>2, <1>3, <1>4
<1>7. BooksOf(b, k, W) = SumOf(f, k) /\ BooksOf(c, K, W) = SumOf(g, K)
  BY DEF BooksOf
<1>8. \A m \in o : f[m] \in Int /\ f[m] = g[m]
  BY <1>2, <1>3
<1>9. d \in Nat
  OBVIOUS
<1>10. n \notin k => SumOf(b[n], W) = 0
  BY SumOfNone
<1> HIDE DEF f, g, d, K
<1>11. SumOf(g, K) = g[n] + SumOf(g, o) /\ SumOf(g, o) \in Int
  <2>1. n \in K /\ K \ {n} = o
    BY DEF K
  <2>2. SumOf(g, K) = g[n] + SumOf(g, K \ {n})
    BY <1>1, <1>6, <2>1, SumTake
  <2>3. \A m \in o : g[m] \in Int
    BY <1>6, <2>1
  <2>4. SumOf(g, o) \in Int
    BY <1>1, <2>3, SumTake
  <2> QED BY <2>1, <2>2, <2>4
<1>12. SumOf(g, o) = SumOf(f, o)
  BY <1>1, <1>8, SumSame
<1>13. SumOf(f, k) = (IF n \in k THEN f[n] ELSE 0) + SumOf(f, o)
  <2>1. CASE n \in k
    BY <1>1, <1>5, <2>1, SumTake
  <2>2. CASE n \notin k
    <3>1. k = o /\ SumOf(f, o) \in Int
      BY <1>11, <1>12, <2>2
    <3>2. SumOf(f, k) = SumOf(f, o)
      BY <3>1
    <3> QED BY <2>2, <3>1, <3>2
  <2> QED BY <2>1, <2>2
<1>14. g[n] = (IF n \in k THEN f[n] ELSE 0) + d
  BY <1>2, <1>4, <1>5, <1>6, <1>9, <1>10 DEF K
<1>15. SumOf(f, k) \in Nat
  BY <1>1, <1>5, SumOfNats
<1>16. SumOf(g, K) = SumOf(f, k) + d
  <2>1. CASE n \in k
    <3>1. f[n] \in Nat
      BY <1>5, <2>1
    <3> QED BY <1>9, <1>11, <1>12, <1>13, <1>14, <2>1, <3>1
  <2>2. CASE n \notin k
    BY <1>9, <1>11, <1>12, <1>13, <1>14, <2>2
  <2> QED BY <2>1, <2>2
<1> QED BY <1>7, <1>15, <1>16 DEF d, K

\* What the operators of the module sum.
Recent == {h \in Pace!Hours : h > hour - Week}

LEMMA TotalIs == ASSUME NEW n PROVE Pace!Total(n) = SumOf(buckets[n], Recent)
BY DEF Pace!Total, Pace!MapThenSumSet, Pace!MapThenFoldSet, SumOf, SumFun, Pick, Recent

LEMMA SpentIs == ASSUME NEW p, NEW W PROVE Pace!Spent(p, W) = SumOf(spent[p], W)
BY DEF Pace!Spent, Pace!MapThenSumSet, Pace!MapThenFoldSet, SumOf, SumFun, Pick

LEMMA AllTokensIs == Pace!AllTokens = BooksOf(buckets, known, Recent)
<1> DEFINE S == known
           f == [n \in S |-> SumOf(buckets[n], Recent)]
           F(g) == [s \in SUBSET S |-> IF s = {} THEN 0
                      ELSE Pace!Total(Pick(s)) + g[s \ {Pick(s)}]]
           G(g) == [s \in SUBSET S |-> IF s = {} THEN 0 ELSE f[Pick(s)] + g[s \ {Pick(s)}]]
<1>1. \A g : F(g) = G(g)
  <2> TAKE g
  <2>1. \A s \in SUBSET S : s # {} => f[Pick(s)] = Pace!Total(Pick(s))
    BY TotalIs DEF Pick
  <2> QED BY <2>1
<1>2. Pace!AllTokens = (CHOOSE g : g = F(g))[S]
  BY DEF Pace!AllTokens, Pace!MapThenSumSet, Pace!MapThenFoldSet, Pick
<1>3. SumOf(f, S) = (CHOOSE g : g = G(g))[S]
  BY DEF SumOf, SumFun
<1>4. (CHOOSE g : g = F(g)) = (CHOOSE g : g = G(g))
  <2> HIDE DEF F, G
  <2> QED BY <1>1
<1>5. Pace!AllTokens = SumOf(f, S)
  <2> HIDE DEF F, G
  <2> QED BY <1>2, <1>3, <1>4
<1> QED BY <1>5 DEF BooksOf

AllServed(W) == Pace!MapThenSumSet(LAMBDA p : Pace!Spent(p, W), Projects)

LEMMA AllServedIs == ASSUME NEW W PROVE AllServed(W) = BooksOf(spent, Projects, W)
<1> DEFINE S == Projects
           f == [p \in S |-> SumOf(spent[p], W)]
           F(g) == [s \in SUBSET S |-> IF s = {} THEN 0
                      ELSE Pace!Spent(Pick(s), W) + g[s \ {Pick(s)}]]
           G(g) == [s \in SUBSET S |-> IF s = {} THEN 0 ELSE f[Pick(s)] + g[s \ {Pick(s)}]]
<1>1. \A g : F(g) = G(g)
  <2> TAKE g
  <2>1. \A s \in SUBSET S : s # {} => f[Pick(s)] = Pace!Spent(Pick(s), W)
    BY SpentIs DEF Pick
  <2> QED BY <2>1
<1>2. AllServed(W) = (CHOOSE g : g = F(g))[S]
  BY DEF AllServed, Pace!MapThenSumSet, Pace!MapThenFoldSet, Pick
<1>3. SumOf(f, S) = (CHOOSE g : g = G(g))[S]
  BY DEF SumOf, SumFun
<1>4. (CHOOSE g : g = F(g)) = (CHOOSE g : g = G(g))
  <2> HIDE DEF F, G
  <2> QED BY <1>1
<1>5. AllServed(W) = SumOf(f, S)
  <2> HIDE DEF F, G
  <2> QED BY <1>2, <1>3, <1>4
<1> QED BY <1>5 DEF BooksOf

LedgerTyped ==
  /\ hour \in Pace!Hours
  /\ buckets \in [Pace!Names -> [Pace!Hours -> Nat]]
  /\ spent \in [Projects -> [Pace!Hours -> Nat]]
  /\ known \in SUBSET Pace!Names
  /\ lastSeen \in [Pace!Names -> Pace!Hours]
  /\ answer.to = "share" => answer.project \in DOMAIN Share

\* A name with a share has no more than its own calls, was used when it was last seen, and
\* all calls of the hours that count are under some known name.
LedgerHolds ==
  /\ \A n \in Pace!Names \ known, h \in Pace!Hours : buckets[n][h] = 0
  /\ \A q \in DOMAIN Share, h \in Recent : buckets[q][h] <= spent[q][h]
  /\ \A q \in known \cap DOMAIN Share : spent[q][lastSeen[q]] > 0
  /\ \A W \in SUBSET Recent : BooksOf(buckets, known, W) = BooksOf(spent, Projects, W)

LedgerInv == LedgerTyped /\ LedgerHolds /\ Pace!ShareRefusalIsDue

LEMMA HoursAreFew == ASSUME ShareParameters PROVE IsFiniteSet(Pace!Hours)
<1>1. 0 \in Int /\ MaxHour \in Int
  BY DEF ShareParameters
<1>2. IsFiniteSet(0..MaxHour)
  BY <1>1, FS_Interval
<1> QED BY <1>2 DEF Pace!Hours

LEMMA SharesAreDue ==
  ASSUME PaceParameters, ShareParameters, LedgerTyped, LedgerHolds,
         NEW p, NEW priority, Pace!ShareDefers(p, priority)
  PROVE  /\ p \in DOMAIN Share
         /\ Pace!Spent(p, Recent) * 10 > Share[p] * AllServed(Recent)
         /\ \E q \in DOMAIN Share \ {p} : spent[q][hour] > 0
<1>1. p \in DOMAIN Share /\ p \in Projects /\ p \in Pace!Names
  BY DEF Pace!ShareDefers, Pace!Configured, ShareParameters, Pace!Names
<1>2. IsFiniteSet(Recent) /\ Recent \subseteq Pace!Hours
  <2> QED BY HoursAreFew, FS_Subset DEF Recent
<1>3. SumOf(buckets[p], Recent) \in Int /\ SumOf(spent[p], Recent) \in Int
      /\ SumOf(buckets[p], Recent) <= SumOf(spent[p], Recent)
  <2>1. \A h \in Recent : buckets[p][h] \in Int /\ spent[p][h] \in Int
                          /\ buckets[p][h] <= spent[p][h]
    BY <1>1, <1>2 DEF LedgerTyped, LedgerHolds
  <2> QED BY <1>2, <2>1, SumCompares, SumTake
<1>4. BooksOf(buckets, known, Recent) = BooksOf(spent, Projects, Recent)
  BY DEF LedgerHolds
<1>5. BooksOf(spent, Projects, Recent) \in Int
  <2>1. \A q \in Projects : SumOf(spent[q], Recent) \in Int
    BY <1>2, SumTake DEF LedgerTyped
  <2> DEFINE f == [q \in Projects |-> SumOf(spent[q], Recent)]
  <2>2. \A q \in Projects : f[q] \in Int
    BY <2>1
  <2> HIDE DEF f
  <2>3. SumOf(f, Projects) \in Int
    BY <2>2, SumTake DEF ShareParameters
  <2> QED BY <2>3 DEF BooksOf, f
<1>6. Share[p] \in Nat
  BY <1>1 DEF ShareParameters
<1>7. SumOf(buckets[p], Recent) * 10 > Share[p] * BooksOf(spent, Projects, Recent)
  BY <1>4, TotalIs, AllTokensIs DEF Pace!ShareDefers
<1>8. SumOf(spent[p], Recent) * 10 > Share[p] * BooksOf(spent, Projects, Recent)
  <2> DEFINE x == Share[p] * BooksOf(spent, Projects, Recent)
  <2>1. x \in Int
    BY <1>5, <1>6
  <2> HIDE DEF x
  <2>2. SumOf(buckets[p], Recent) * 10 > x
    BY <1>7 DEF x
  <2>3. SumOf(spent[p], Recent) * 10 > x
    BY <1>3, <2>1, <2>2
  <2> QED BY <2>3 DEF x
<1>9. PICK q \in (known \cap DOMAIN Share) \ {p} : lastSeen[q] = hour
  BY DEF Pace!ShareDefers, Pace!Contended, Pace!Configured
<1>10. spent[q][hour] > 0
  BY <1>9 DEF LedgerHolds
<1> QED BY <1>1, <1>8, <1>9, <1>10, SpentIs, AllServedIs

LEMMA LedgerStart ==
  ASSUME PaceParameters, ShareParameters, Pace!PaceInit PROVE LedgerInv
<1>1. LedgerTyped
  BY DEF Pace!PaceInit, LedgerTyped, ShareParameters, Pace!Hours, Pace!Nothing
<1>2. Pace!ShareRefusalIsDue
  BY DEF Pace!PaceInit, Pace!ShareRefusalIsDue, Pace!Nothing
<1>3. ASSUME NEW q \in DOMAIN Share, NEW h \in Recent PROVE buckets[q][h] <= spent[q][h]
  <2>1. q \in Projects /\ q \in Pace!Names /\ h \in Pace!Hours
    BY DEF ShareParameters, Pace!Names, Recent
  <2>2. buckets[q][h] = 0 /\ spent[q][h] = 0
    BY <2>1 DEF Pace!PaceInit
  <2> QED BY <2>2
<1>4. ASSUME NEW W \in SUBSET Recent
      PROVE  BooksOf(buckets, known, W) = BooksOf(spent, Projects, W)
  <2>1. IsFiniteSet(W) /\ W \subseteq Pace!Hours
    BY HoursAreFew, FS_Subset DEF Recent
  <2>2. \A q \in Projects : SumOf(spent[q], W) = 0
    <3> TAKE q \in Projects
    <3>1. \A h \in W : spent[q][h] = 0
      BY <2>1 DEF Pace!PaceInit
    <3> QED BY <2>1, <3>1, SumOfNone
  <2> DEFINE f == [q \in Projects |-> SumOf(spent[q], W)]
             z == [n \in known |-> SumOf(buckets[n], W)]
  <2>3. \A q \in Projects : f[q] = 0
    BY <2>2
  <2>4. known = {}
    BY DEF Pace!PaceInit
  <2>5. SumOf(f, Projects) = 0
    <3> HIDE DEF f
    <3> QED BY <2>3, SumOfNone DEF ShareParameters
  <2>6. SumOf(z, {}) = 0
    <3> HIDE DEF z
    <3> QED BY FS_EmptySet, SumStep
  <2>7. SumOf(z, known) = 0
    BY <2>4, <2>6
  <2> QED BY <2>5, <2>7 DEF BooksOf
<1>5. \A n \in Pace!Names \ known, h \in Pace!Hours : buckets[n][h] = 0
  BY DEF Pace!PaceInit
<1>6. \A q \in known \cap DOMAIN Share : spent[q][lastSeen[q]] > 0
  BY DEF Pace!PaceInit
<1> QED BY <1>1, <1>2, <1>3, <1>4, <1>5, <1>6 DEF LedgerInv, LedgerHolds

LEMMA AddKept ==
  ASSUME PaceParameters, ShareParameters, LedgerTyped, LedgerHolds,
         NEW p \in Projects, Pace!Add(p), UNCHANGED hour,
         (answer.to = "share" => answer.project \in DOMAIN Share)'
  PROVE  LedgerTyped' /\ LedgerHolds'
<1> DEFINE n == Pace!NameOf(p)
<1>1. n \in {p, Overflow} /\ n \in Pace!Names /\ p \in Pace!Names
  BY DEF Pace!NameOf, Pace!Names
<1>2. /\ known' = known \cup {n}
      /\ lastSeen' = [lastSeen EXCEPT ![n] = hour]
      /\ spent' = [spent EXCEPT ![p][hour] = @ + 1]
      /\ buckets' = [buckets EXCEPT ![n] =
           [h \in Pace!Hours |-> IF h = hour THEN @[h] + 1 ELSE IF h <= hour - Week THEN 0 ELSE @[h]]]
  BY DEF Pace!Add
<1> HIDE DEF n
<1>3. hour \in Pace!Hours /\ hour' = hour /\ Pace!Hours \subseteq Nat /\ Week \in Nat
  BY DEF LedgerTyped, Pace!Hours, PaceParameters, ShareParameters
<1>4. /\ \A m \in Pace!Names, h \in Pace!Hours : buckets[m][h] \in Nat
      /\ \A q \in Projects, h \in Pace!Hours : spent[q][h] \in Nat
  BY DEF LedgerTyped
<1>5. /\ \A m \in Pace!Names \ {n} : buckets'[m] = buckets[m]
      /\ \A h \in Pace!Hours : buckets'[n][h] =
           IF h = hour THEN buckets[n][h] + 1 ELSE IF h <= hour - Week THEN 0 ELSE buckets[n][h]
  BY <1>1, <1>2 DEF LedgerTyped
<1>6. /\ \A q \in Projects \ {p} : spent'[q] = spent[q]
      /\ \A h \in Pace!Hours : spent'[p][h] = IF h = hour THEN spent[p][h] + 1 ELSE spent[p][h]
  BY <1>2, <1>3 DEF LedgerTyped
<1>7. LedgerTyped'
  <2>1. known' \in SUBSET Pace!Names /\ lastSeen' \in [Pace!Names -> Pace!Hours]
    BY <1>1, <1>2, <1>3 DEF LedgerTyped
  <2>2. spent' \in [Projects -> [Pace!Hours -> Nat]]
    <3>1. [spent[p] EXCEPT ![hour] = @ + 1] \in [Pace!Hours -> Nat]
      BY <1>3, <1>4 DEF LedgerTyped
    <3> QED BY <1>2, <3>1 DEF LedgerTyped
  <2>3. buckets' \in [Pace!Names -> [Pace!Hours -> Nat]]
    <3> DEFINE r == [h \in Pace!Hours |-> IF h = hour THEN buckets[n][h] + 1
                                          ELSE IF h <= hour - Week THEN 0 ELSE buckets[n][h]]
    <3>1. r \in [Pace!Hours -> Nat]
      BY <1>1, <1>4
    <3>2. buckets' = [buckets EXCEPT ![n] = r]
      BY <1>2
    <3> HIDE DEF r
    <3> QED BY <3>1, <3>2 DEF LedgerTyped
  <2>4. hour' \in Pace!Hours
    BY <1>3
  <2> QED BY <2>1, <2>2, <2>3, <2>4 DEF LedgerTyped
<1>8. \A h \in Recent : h \in Pace!Hours /\ ~(h <= hour - Week)
  BY <1>3 DEF Recent
<1>9. Recent' = Recent
  BY <1>3 DEF Recent
<1>10. ASSUME NEW m \in Pace!Names \ known', NEW h \in Pace!Hours PROVE buckets'[m][h] = 0
  BY <1>2, <1>5, <1>10 DEF LedgerHolds
<1>11. ASSUME NEW q \in DOMAIN Share, NEW h \in Recent PROVE buckets'[q][h] <= spent'[q][h]
  <2>1. q \in Projects /\ q \in Pace!Names /\ q # Overflow /\ h \in Pace!Hours
    BY <1>8 DEF ShareParameters, Pace!Names
  <2>2. buckets[q][h] <= spent[q][h] /\ buckets[q][h] \in Nat /\ spent[q][h] \in Nat
    BY <1>4, <2>1 DEF LedgerHolds
  <2>3. CASE q = n
    <3>1. q = p
      BY <1>1, <2>1, <2>3
    <3>2. /\ buckets'[q][h] = IF h = hour THEN buckets[q][h] + 1 ELSE buckets[q][h]
          /\ spent'[q][h] = IF h = hour THEN spent[q][h] + 1 ELSE spent[q][h]
      BY <1>5, <1>6, <1>8, <2>1, <2>3, <3>1
    <3> QED BY <2>2, <3>2
  <2>4. CASE q # n
    <3>1. buckets'[q][h] = buckets[q][h]
      BY <1>5, <2>1, <2>4
    <3>2. spent'[q][h] \in Nat /\ spent'[q][h] >= spent[q][h]
      BY <1>6, <2>1, <2>2
    <3> QED BY <2>2, <3>1, <3>2
  <2> QED BY <2>3, <2>4
<1>12. ASSUME NEW q \in known' \cap DOMAIN Share PROVE spent'[q][lastSeen'[q]] > 0
  <2>1. q \in Projects /\ q \in Pace!Names /\ q # Overflow
    BY DEF ShareParameters, Pace!Names
  <2>2. CASE q = n
    <3>1. q = p /\ lastSeen'[q] = hour
      BY <1>1, <1>2, <2>1, <2>2 DEF LedgerTyped
    <3> QED BY <1>3, <1>4, <1>6, <3>1
  <2>3. CASE q # n
    <3> DEFINE l == lastSeen[q]
    <3>1. lastSeen'[q] = l /\ l \in Pace!Hours
      BY <1>2, <2>1, <2>3 DEF LedgerTyped
    <3>2. spent[q][l] > 0 /\ spent[q][l] \in Nat
      BY <1>2, <1>4, <1>12, <2>1, <2>3, <3>1 DEF LedgerHolds
    <3> HIDE DEF l
    <3>3. spent'[q][l] >= spent[q][l] /\ spent'[q][l] \in Nat
      BY <1>6, <2>1, <3>1, <3>2
    <3> QED BY <3>1, <3>2, <3>3
  <2> QED BY <2>2, <2>3
<1>13. ASSUME NEW W \in SUBSET Recent
       PROVE  BooksOf(buckets', known', W) = BooksOf(spent', Projects, W)
  <2>1. IsFiniteSet(W) /\ W \subseteq Pace!Hours
    BY <1>8, HoursAreFew, FS_Subset
  <2>2. IsFiniteSet(Pace!Names) /\ IsFiniteSet(Projects)
    BY FS_AddElement DEF ShareParameters, Pace!Names
  <2>3. BooksOf(buckets', known \cup {n}, W) = BooksOf(buckets, known, W) + (IF hour \in W THEN 1 ELSE 0)
    <3>1. \A m \in Pace!Names, h \in W : buckets[m][h] \in Nat
      BY <1>4, <2>1
    <3>2. \A m \in Pace!Names \ {n}, h \in W : buckets'[m][h] = buckets[m][h]
      BY <1>5
    <3>3. \A h \in W : buckets'[n][h] = IF h = hour THEN buckets[n][h] + 1 ELSE buckets[n][h]
      BY <1>5, <1>8, <2>1
    <3>4. n \notin known => \A h \in W : buckets[n][h] = 0
      BY <1>1, <2>1 DEF LedgerHolds
    <3>5. known \in SUBSET Pace!Names
      BY DEF LedgerTyped
    <3> DEFINE b == buckets
               c == buckets'
    <3> HIDE DEF b, c
    <3>6. BooksOf(c, known \cup {n}, W) = BooksOf(b, known, W) + (IF hour \in W THEN 1 ELSE 0)
      BY <1>1, <2>1, <2>2, <3>1, <3>2, <3>3, <3>4, <3>5, LedgerAdds DEF b, c
    <3> QED BY <3>6 DEF b, c
  <2>4. BooksOf(spent', Projects, W) = BooksOf(spent, Projects, W) + (IF hour \in W THEN 1 ELSE 0)
    <3>1. \A m \in Projects, h \in W : spent[m][h] \in Nat
      BY <1>4, <2>1
    <3>2. \A m \in Projects \ {p}, h \in W : spent'[m][h] = spent[m][h]
      BY <1>6
    <3>3. \A h \in W : spent'[p][h] = IF h = hour THEN spent[p][h] + 1 ELSE spent[p][h]
      BY <1>6, <2>1
    <3>4. Projects \cup {p} = Projects /\ Projects \in SUBSET Projects
      OBVIOUS
    <3>5. BooksOf(spent', Projects \cup {p}, W)
            = BooksOf(spent, Projects, W) + (IF hour \in W THEN 1 ELSE 0)
      BY <2>1, <2>2, <3>1, <3>2, <3>3, <3>4, LedgerAdds
    <3> QED BY <3>4, <3>5
  <2>5. BooksOf(buckets, known, W) = BooksOf(spent, Projects, W)
    BY DEF LedgerHolds
  <2> QED BY <1>2, <2>3, <2>4, <2>5
<1> QED BY <1>7, <1>9, <1>10, <1>11, <1>12, <1>13 DEF LedgerHolds

\* Hours may pass, and calls go unmeasured: the ledger is as it was, over fewer hours.
LEMMA LedgerWaits ==
  ASSUME PaceParameters, ShareParameters, LedgerTyped, LedgerHolds,
         UNCHANGED <<buckets, known, lastSeen, spent>>,
         hour' = hour \/ (hour < MaxHour /\ hour' = hour + 1),
         (answer.to = "share" => answer.project \in DOMAIN Share)'
  PROVE  LedgerTyped' /\ LedgerHolds'
<1>1. hour \in Pace!Hours /\ hour' \in Pace!Hours /\ Recent' \subseteq Recent
  BY DEF LedgerTyped, Recent, Pace!Hours, ShareParameters, PaceParameters
<1>2. LedgerTyped'
  BY <1>1 DEF LedgerTyped
<1>3. \A W \in SUBSET Recent' : BooksOf(buckets, known, W)' = BooksOf(spent, Projects, W)'
  <2> TAKE W \in SUBSET Recent'
  <2>1. BooksOf(buckets, known, W) = BooksOf(spent, Projects, W)
    BY <1>1 DEF LedgerHolds
  <2> QED BY <2>1
<1>4. \A q \in DOMAIN Share, h \in Recent' : buckets'[q][h] <= spent'[q][h]
  BY <1>1 DEF LedgerHolds
<1> QED BY <1>2, <1>3, <1>4 DEF LedgerHolds

LEMMA LedgerStep ==
  ASSUME PaceParameters, ShareParameters, LedgerInv, [Pace!PaceNext]_(Pace!paceVars)
  PROVE  LedgerInv'
<1> USE DEF LedgerInv
<1>1. ASSUME answer'.to # "share" PROVE Pace!ShareRefusalIsDue'
  BY <1>1 DEF Pace!ShareRefusalIsDue
<1>2. ASSUME NEW p \in Projects, NEW priority \in BOOLEAN, Pace!Deferred(p, priority)
      PROVE  LedgerInv'
  <2>1. UNCHANGED <<buckets, known, lastSeen, spent>> /\ hour' = hour
    BY <1>2 DEF Pace!Deferred
  <2>2. CASE Pace!PacingDefers(priority)
    <3>1. answer'.to = "pace"
      BY <1>2, <2>2 DEF Pace!Deferred
    <3> QED BY <1>1, <2>1, <3>1, LedgerWaits
  <2>3. CASE ~Pace!PacingDefers(priority)
    <3>1. answer'.project = p /\ Pace!ShareDefers(p, priority)
      BY <1>2, <2>3 DEF Pace!Deferred
    <3>2. /\ p \in DOMAIN Share
          /\ Pace!Spent(p, Recent) * 10 > Share[p] * AllServed(Recent)
          /\ \E q \in DOMAIN Share \ {p} : spent[q][hour] > 0
      BY <3>1, SharesAreDue
    <3>3. LedgerTyped' /\ LedgerHolds'
      BY <2>1, <3>1, <3>2, LedgerWaits
    <3>4. Pace!Spent(p, Recent)' = Pace!Spent(p, Recent)
          /\ AllServed(Recent)' = AllServed(Recent) /\ Recent' = Recent
      <4>1. Recent' = Recent
        BY <2>1 DEF Recent
      <4>2. Pace!Spent(p, Recent)' = Pace!Spent(p, Recent)
        BY <2>1, <4>1 DEF Pace!Spent, Pace!MapThenSumSet, Pace!MapThenFoldSet
      <4>3. AllServed(Recent)' = AllServed(Recent)
        BY <2>1, <4>1 DEF AllServed, Pace!Spent, Pace!MapThenSumSet, Pace!MapThenFoldSet
      <4> QED BY <4>1, <4>2, <4>3
    <3>5. Pace!ShareRefusalIsDue'
      BY <2>1, <3>1, <3>2, <3>4 DEF Pace!ShareRefusalIsDue, AllServed, Recent, Pace!Configured
    <3> QED BY <3>3, <3>5
  <2> QED BY <2>2, <2>3
<1>3. ASSUME NEW p \in Projects, NEW priority \in BOOLEAN, Pace!Served(p, priority)
      PROVE  LedgerInv'
  <2>1. answer'.to # "share" /\ hour' = hour
    BY <1>3 DEF Pace!Served, Pace!Nothing
  <2>2. CASE Pace!Add(p)
    BY <1>1, <2>1, <2>2, AddKept
  <2>3. CASE UNCHANGED <<buckets, known, lastSeen, spent>>
    BY <1>1, <2>1, <2>3, LedgerWaits
  <2> QED BY <1>3, <2>2, <2>3 DEF Pace!Served
<1>4. ASSUME Pace!Hour PROVE LedgerInv'
  <2>1. answer'.to # "share" /\ hour < MaxHour /\ hour' = hour + 1
    BY <1>4 DEF Pace!Hour, Pace!Nothing
  <2>2. UNCHANGED <<buckets, known, lastSeen, spent>>
    BY <1>4 DEF Pace!Hour
  <2> QED BY <1>1, <2>1, <2>2, LedgerWaits
<1>5. ASSUME UNCHANGED Pace!paceVars PROVE LedgerInv'
  <2>1. UNCHANGED <<hour, buckets, known, lastSeen, answer, spent>>
    BY <1>5 DEF Pace!paceVars
  <2>2. LedgerTyped' /\ LedgerHolds'
    BY <2>1, LedgerWaits DEF LedgerTyped
  <2>3. CASE answer.to = "share"
    <3>1. /\ Pace!Spent(answer.project, Recent) * 10 > Share[answer.project] * AllServed(Recent)
          /\ \E q \in DOMAIN Share \ {answer.project} : spent[q][hour] > 0
      BY <2>3 DEF Pace!ShareRefusalIsDue, AllServed, Recent, Pace!Configured
    <3>2. Recent' = Recent
      BY <2>1 DEF Recent
    <3>3. Pace!Spent(answer.project, Recent)' = Pace!Spent(answer.project, Recent)
      BY <2>1, <3>2 DEF Pace!Spent, Pace!MapThenSumSet, Pace!MapThenFoldSet
    <3>4. AllServed(Recent)' = AllServed(Recent)
      BY <2>1, <3>2 DEF AllServed, Pace!Spent, Pace!MapThenSumSet, Pace!MapThenFoldSet
    <3>5. Pace!ShareRefusalIsDue'
      BY <2>1, <3>1, <3>2, <3>3, <3>4 DEF Pace!ShareRefusalIsDue, AllServed, Recent, Pace!Configured
    <3> QED BY <2>2, <3>5
  <2>4. CASE answer.to # "share"
    BY <1>1, <2>1, <2>2, <2>4
  <2> QED BY <2>3, <2>4
<1> QED BY <1>2, <1>3, <1>4, <1>5 DEF Pace!PaceNext, Pace!Call

\* What a call that is turned away is told of the week is so.  Retry-After: no account is
\* behind the line before it has passed, and, unless the cap cut it, one is when it has
\* (catchup_retry).  The share: the calls of the last week say that the project had it, however
\* they were pruned or put under the overflow name, and another with a share is using its own
\* (WeeklyTokens and decide_client_share, usage_allocator.py).
THEOREM PaceRefusalsAreHonest ==
  PaceParameters /\ ShareParameters => (PaceSpec => []Pace!RefusalsAreHonest)
<1> SUFFICES ASSUME PaceParameters, ShareParameters PROVE PaceSpec => []Pace!RefusalsAreHonest
  OBVIOUS
<1>1. ReadingsTyped /\ LedgerInv => Pace!RefusalsAreHonest
  BY RetryIsHonest DEF LedgerInv, Pace!RefusalsAreHonest
<1>2. Pace!PaceInit => ReadingsTyped /\ LedgerInv
  BY ReadingsStart, LedgerStart
<1>3. ReadingsTyped /\ LedgerInv /\ [Pace!PaceNext]_(Pace!paceVars) => ReadingsTyped' /\ LedgerInv'
  BY ReadingsStep, LedgerStep
<1>4. QED BY <1>1, <1>2, <1>3, PTL DEF PaceSpec

-----------------------------------------------------------------------------
(* BodyFit: what is left out of a request that is too large for its lane. *)

BodySpec == Body!BodyInit /\ [][Body!BodyNext]_(Body!bodyVars)

Turns == [kind : {"plain", "call", "answer", "image"}, size : Nat]

\* An answer follows its call, or another answer to it.
AnswersFollow ==
  \A i \in 1..Len(turns) : turns[i].kind = "answer" =>
    i > 1 /\ turns[i - 1].kind \in {"call", "answer"}

BodyTyped == turns \in Seq(Turns) /\ anchor \in Nat /\ spare \in Nat

\* Sizes of the turns, and of what is left of them.
SizesOf == [i \in 1..Len(turns) |-> turns[i].size]

LEMMA BytesAreSums ==
  ASSUME NEW from \in Nat \ {0}
  PROVE  Body!Bytes(turns, from) = SumOf(SizesOf, from..Len(turns))
<1> DEFINE S == from..Len(turns)
           F(g) == [s \in SUBSET S |-> IF s = {} THEN 0
                                       ELSE turns[Pick(s)].size + g[s \ {Pick(s)}]]
           G(g) == [s \in SUBSET S |-> IF s = {} THEN 0
                                       ELSE SizesOf[Pick(s)] + g[s \ {Pick(s)}]]
<1>1. \A g : F(g) = G(g)
  <2> TAKE g
  <2>1. \A s \in SUBSET S : s # {} => SizesOf[Pick(s)] = turns[Pick(s)].size
    <3> TAKE s \in SUBSET S
    <3>1. s # {} => Pick(s) \in S
      BY DEF Pick
    <3>2. S \subseteq 1..Len(turns)
      OBVIOUS
    <3> QED BY <3>1, <3>2 DEF SizesOf
  <2> QED BY <2>1
<1>2. Body!Bytes(turns, from) = (CHOOSE g : g = F(g))[S]
  BY DEF Body!Bytes, Body!MapThenSumSet, Body!MapThenFoldSet, Pick
<1>3. SumOf(SizesOf, S) = (CHOOSE g : g = G(g))[S]
  BY DEF SumOf, SumFun
<1> HIDE DEF F, G
<1>4. (CHOOSE g : g = F(g)) = (CHOOSE g : g = G(g))
  BY <1>1
<1> QED BY <1>2, <1>3, <1>4

BodyInv == BodyTyped /\ AnswersFollow

LEMMA ExchangesFollow ==
  ASSUME BodyParameters, NEW x \in Body!Exchange
  PROVE  /\ x \in Seq(Turns) /\ Len(x) > 0
         /\ \A i \in 1..Len(x) : x[i].kind = "answer" =>
              i > 1 /\ x[i - 1].kind \in {"call", "answer"}
<1>1. CASE x \in {<<[kind |-> k, size |-> s]>> : k \in {"plain", "image"}, s \in Sizes}
  <2>1. PICK k \in {"plain", "image"}, s \in Sizes : x = <<[kind |-> k, size |-> s]>>
    BY <1>1
  <2>2. s \in Nat
    BY DEF BodyParameters
  <2> QED BY <2>1, <2>2 DEF Turns
<1>2. CASE x \in {<<[kind |-> "call", size |-> c], [kind |-> "answer", size |-> s]>> : c, s \in Sizes}
  <2>1. PICK c, s \in Sizes : x = <<[kind |-> "call", size |-> c], [kind |-> "answer", size |-> s]>>
    BY <1>2
  <2>2. s \in Nat /\ c \in Nat
    BY DEF BodyParameters
  <2>3. x \in Seq(Turns) /\ Len(x) = 2 /\ x[1].kind = "call"
    BY <2>1, <2>2 DEF Turns
  <2> QED BY <2>3
<1>3. CASE x \in {<<[kind |-> "call", size |-> Body!Min(Sizes)], [kind |-> "answer", size |-> s],
                    [kind |-> "answer", size |-> t]>> : s, t \in Sizes}
  <2>1. PICK s, t \in Sizes : x = <<[kind |-> "call", size |-> Body!Min(Sizes)],
                                    [kind |-> "answer", size |-> s], [kind |-> "answer", size |-> t]>>
    BY <1>3
  <2>2. s \in Nat /\ t \in Nat
    BY DEF BodyParameters
  <2>3. Body!Min(Sizes) \in Nat
    <3>1. \E y \in Sizes : \A z \in Sizes : y <= z
      BY <2>1, LeastIsThere DEF BodyParameters
    <3>2. Body!Min(Sizes) \in Sizes
      BY <3>1 DEF Body!Min
    <3> QED BY <3>2 DEF BodyParameters
  <2>4. x \in Seq(Turns) /\ Len(x) = 3 /\ x[1].kind = "call" /\ x[2].kind = "answer"
    BY <2>1, <2>2, <2>3 DEF Turns
  <2> QED BY <2>4
<1> QED BY <1>1, <1>2, <1>3 DEF Body!Exchange

LEMMA BodyStart == BodyParameters /\ Body!BodyInit => BodyInv
BY ExchangesFollow DEF Body!BodyInit, BodyInv, BodyTyped, AnswersFollow, BodyParameters

LEMMA BodyStep == BodyParameters /\ BodyInv /\ [Body!BodyNext]_(Body!bodyVars) => BodyInv'
<1> SUFFICES ASSUME BodyParameters, BodyInv, [Body!BodyNext]_(Body!bodyVars) PROVE BodyInv'
  OBVIOUS
<1>1. ASSUME Body!Send PROVE BodyInv'
  <2>1. PICK x \in Body!Exchange, b \in Spares :
          turns' = turns \o x /\ spare' = b /\ anchor' = anchor
    BY <1>1 DEF Body!Send
  <2>2. /\ x \in Seq(Turns) /\ Len(x) > 0
        /\ \A i \in 1..Len(x) : x[i].kind = "answer" =>
             i > 1 /\ x[i - 1].kind \in {"call", "answer"}
    BY ExchangesFollow
  <2>3. /\ turns \in Seq(Turns)
        /\ \A i \in 1..Len(turns) : turns[i].kind = "answer" =>
             i > 1 /\ turns[i - 1].kind \in {"call", "answer"}
    BY DEF BodyInv, BodyTyped, AnswersFollow
  <2>4. BodyTyped'
    BY <2>1, <2>2 DEF BodyInv, BodyTyped, BodyParameters
  <2>5. ASSUME NEW i \in 1..Len(turns \o x), (turns \o x)[i].kind = "answer"
        PROVE  i > 1 /\ (turns \o x)[i - 1].kind \in {"call", "answer"}
    <3>1. CASE i <= Len(turns)
      BY <2>2, <2>3, <2>5, <3>1
    <3>2. CASE i > Len(turns)
      <4> DEFINE j == i - Len(turns)
      <4>1. j \in 1..Len(x) /\ (turns \o x)[i] = x[j]
        BY <2>2, <2>3, <2>5, <3>2
      <4>2. j > 1 /\ x[j - 1].kind \in {"call", "answer"}
        BY <2>2, <2>5, <4>1
      <4>3. i - 1 \in 1..Len(turns \o x) /\ i - 1 > Len(turns) /\ (i - 1) - Len(turns) = j - 1
        BY <2>2, <2>3, <2>5, <4>1, <4>2
      <4>4. (turns \o x)[i - 1] = x[j - 1]
        BY <2>2, <2>3, <4>3
      <4> QED BY <2>3, <4>2, <4>3, <4>4
    <3> QED BY <2>2, <2>3, <3>1, <3>2
  <2> QED BY <2>1, <2>4, <2>5 DEF BodyInv, AnswersFollow
<1>2. ASSUME Body!Compact PROVE BodyInv'
  <2>1. PICK s \in Sizes : turns' = <<[kind |-> "plain", size |-> s]>>
    BY <1>2 DEF Body!Compact
  <2>2. s \in Nat
    BY DEF BodyParameters
  <2>3. turns' \in Seq(Turns) /\ Len(turns') = 1 /\ turns'[1].kind = "plain"
    BY <2>1, <2>2 DEF Turns
  <2> QED BY <1>2, <2>3 DEF Body!Compact, BodyInv, BodyTyped, AnswersFollow
<1>3. ASSUME UNCHANGED Body!bodyVars PROVE BodyInv'
  BY <1>3 DEF Body!bodyVars, BodyInv, BodyTyped, AnswersFollow
<1> QED BY <1>1, <1>2, <1>3 DEF Body!BodyNext

\* The chat lane: the more turns are dropped, the smaller the body.

LEMMA BytesShrink ==
  ASSUME BodyInv, NEW from \in Nat \ {0}
  PROVE  /\ Body!Bytes(turns, from) \in Int
         /\ from <= Len(turns) =>
              /\ turns[from].size \in Nat
              /\ Body!Bytes(turns, from) = turns[from].size + Body!Bytes(turns, from + 1)
<1> DEFINE S == from..Len(turns)
<1>1. turns \in Seq(Turns) /\ Len(turns) \in Nat
  BY DEF BodyInv, BodyTyped
<1>2. \A i \in S : SizesOf[i] \in Nat /\ SizesOf[i] = turns[i].size
  <2> TAKE i \in S
  <2>1. i \in 1..Len(turns)
    BY <1>1
  <2>2. turns[i] \in Turns
    BY <1>1, <2>1
  <2> QED BY <2>1, <2>2 DEF SizesOf, Turns
<1>3. IsFiniteSet(S) /\ \A i \in S : SizesOf[i] \in Int
  <2>1. IsFiniteSet(S)
    BY <1>1, FS_Interval
  <2> QED BY <1>2, <2>1
<1>4. SumOf(SizesOf, S) \in Int /\ \A i \in S : SumOf(SizesOf, S) = SizesOf[i] + SumOf(SizesOf, S \ {i})
  <2> HIDE DEF S
  <2> QED BY <1>3, SumTake
<1>5. Body!Bytes(turns, from) = SumOf(SizesOf, S)
      /\ Body!Bytes(turns, from + 1) = SumOf(SizesOf, (from + 1)..Len(turns))
  BY BytesAreSums
<1>6. ASSUME from <= Len(turns)
      PROVE  /\ turns[from].size \in Nat
             /\ Body!Bytes(turns, from) = turns[from].size + Body!Bytes(turns, from + 1)
  <2>1. from \in S /\ S \ {from} = (from + 1)..Len(turns)
    BY <1>1, <1>6
  <2>2. SumOf(SizesOf, S) = SizesOf[from] + SumOf(SizesOf, (from + 1)..Len(turns))
    BY <1>4, <2>1
  <2> QED BY <1>2, <1>5, <2>1, <2>2
<1> QED BY <1>4, <1>5, <1>6

LEMMA FittedTyped ==
  ASSUME BodyParameters, BodyInv, NEW d \in Nat
  PROVE  Body!FittedBytes(d) \in Int
<1>1. Body!Bytes(turns, d + 1) \in Int
  BY BytesShrink
<1>2. anchor \in Nat /\ Len(turns) \in Nat /\ Envelope \in Nat /\ Note \in Nat
  BY DEF BodyParameters, BodyInv, BodyTyped
<1> QED BY <1>1, <1>2 DEF Body!FittedBytes

LEMMA FitsOn ==
  ASSUME BodyParameters, BodyInv, NEW d \in Nat \ {0}, d < Len(turns), Body!Fits(d)
  PROVE  Body!Fits(d + 1)
<1> DEFINE a == IF anchor = 0 THEN 0 ELSE 1
<1>1. /\ Body!Bytes(turns, d + 1) = turns[d + 1].size + Body!Bytes(turns, d + 2)
      /\ turns[d + 1].size \in Nat /\ Body!Bytes(turns, d + 2) \in Int
  <2>1. d + 1 \in Nat \ {0} /\ d + 2 \in Nat \ {0} /\ (d + 1) + 1 = d + 2 /\ d + 1 <= Len(turns)
    BY DEF BodyInv, BodyTyped
  <2> QED BY <2>1, BytesShrink
<1>2. anchor \in Nat /\ Len(turns) \in Nat /\ Envelope \in Nat /\ Note \in Nat /\ a \in Nat
      /\ Budget \in Nat
  BY DEF BodyParameters, BodyInv, BodyTyped
<1>3. Body!FittedBytes(d)
        = Envelope + anchor + Note + Body!Bytes(turns, d + 1) + 2 * (a + 1 + Len(turns) - d - 1)
  BY <1>1, <1>2 DEF Body!FittedBytes
<1>4. Body!FittedBytes(d + 1)
        = Envelope + anchor + Note + Body!Bytes(turns, d + 2) + 2 * (a + 1 + Len(turns) - (d + 1) - 1)
  <2>1. (d + 1) + 1 = d + 2 /\ d + 1 # 0
    OBVIOUS
  <2> QED BY <1>1, <1>2, <2>1 DEF Body!FittedBytes
<1>5. Body!FittedBytes(d + 1) <= Body!FittedBytes(d)
  <2> DEFINE t == turns[d + 1].size
             b == Body!Bytes(turns, d + 2)
             k == Envelope + anchor + Note
             l == Len(turns)
  <2>1. Body!FittedBytes(d) = k + (t + b) + 2 * (a + 1 + l - d - 1)
    BY <1>1, <1>3
  <2>2. Body!FittedBytes(d + 1) = k + b + 2 * (a + 1 + l - (d + 1) - 1)
    BY <1>4
  <2>3. t \in Nat /\ b \in Int /\ k \in Int /\ l \in Int /\ a \in Int /\ d \in Int
    BY <1>1, <1>2
  <2> HIDE DEF t, b, k, l, a
  <2> QED BY <2>1, <2>2, <2>3
<1>6. Body!FittedBytes(d + 1) \in Int /\ Body!FittedBytes(d) \in Int
  BY FittedTyped
<1> QED BY <1>2, <1>5, <1>6 DEF Body!Fits

LEMMA FitsBeyond ==
  ASSUME BodyParameters, BodyInv,
         NEW d \in 1..Len(turns), NEW e \in 1..Len(turns), d <= e, Body!Fits(d)
  PROVE  Body!Fits(e)
<1> DEFINE T == {k \in d..e : ~Body!Fits(k)}
<1> SUFFICES ASSUME T # {} PROVE FALSE
  OBVIOUS
<1>0. Len(turns) \in Nat
  BY DEF BodyInv, BodyTyped
<1>1. PICK k \in T : \A j \in T : k <= j
  <2>1. T \subseteq Nat
    BY <1>0
  <2> HIDE DEF T
  <2> QED BY <2>1, LeastIsThere
<1>2. k \in d..e /\ k # d /\ ~Body!Fits(k)
  BY <1>1
<1>3. k - 1 \in d..e /\ k - 1 < k
  BY <1>0, <1>2
<1>4. Body!Fits(k - 1)
  BY <1>0, <1>1, <1>2, <1>3
<1>5. k - 1 \in Nat \ {0} /\ k - 1 < Len(turns) /\ (k - 1) + 1 = k
  BY <1>0, <1>2, <1>3
<1> QED BY <1>2, <1>4, <1>5, FitsOn

LEMMA HeadIs ==
  ASSUME BodyParameters, BodyInv
  PROVE  /\ Body!HeadLen \in Nat /\ (Body!HeadLen < Len(turns) \/ Body!HeadLen = 0)
         /\ Len(turns) \in Nat
<1> DEFINE v == Len(turns) - KeepTail
           m == IF v > 0 THEN v ELSE 0
<1>1. Len(turns) \in Nat /\ KeepTail \in Nat \ {0} /\ v \in Int
  BY DEF BodyParameters, BodyInv, BodyTyped
<1>2. v < Len(turns)
  BY <1>1
<1> HIDE DEF v
<1>3. \A x \in {0, v} : (\A y \in {0, v} : x >= y) <=> x = m
  BY <1>1
<1>4. Body!Max({0, v}) = m
  <2>1. m \in {0, v}
    OBVIOUS
  <2> HIDE DEF m
  <2> QED BY <1>3, <2>1 DEF Body!Max
<1>5. Body!HeadLen = m
  BY <1>4 DEF Body!HeadLen, v
<1> QED BY <1>1, <1>2, <1>5

\* The least cut of a range that fits, its end if none does.
IsFirst(low, high, d) ==
  /\ d \in low..high /\ (d = high \/ Body!Fits(d))
  /\ \A e \in low..d - 1 : ~Body!Fits(e)

Middle(range) == (range[1] + range[2]) \div 2
Ranges == (1..Body!HeadLen) \X (1..Body!HeadLen)
Bisected(g) ==
  [range \in Ranges |->
     IF range[1] >= range[2] THEN range[1]
     ELSE IF Body!Fits(Middle(range)) THEN g[<<range[1], Middle(range)>>]
     ELSE g[<<Middle(range) + 1, range[2]>>]]

LEMMA MiddleInside ==
  ASSUME BodyParameters, BodyInv, NEW low \in 1..Body!HeadLen, NEW high \in 1..Body!HeadLen,
         low < high
  PROVE  /\ Middle(<<low, high>>) \in low..high - 1
         /\ <<low, Middle(<<low, high>>)>> \in Ranges
         /\ <<Middle(<<low, high>>) + 1, high>> \in Ranges
<1> DEFINE m == (low + high) \div 2
<1>1. Body!HeadLen \in Nat
  BY HeadIs
<1>2. m \in low..high - 1
  BY <1>1
<1>3. Middle(<<low, high>>) = m
  BY DEF Middle
<1> HIDE DEF m
<1> QED BY <1>1, <1>2, <1>3 DEF Ranges

\* There is one, and only one.
LEMMA FirstIsThere ==
  ASSUME BodyParameters, BodyInv, NEW low \in 1..Body!HeadLen, NEW high \in low..Body!HeadLen
  PROVE  \E d \in low..high :
           IsFirst(low, high, d) /\ \A e \in low..high : IsFirst(low, high, e) => e = d
<1>1. Body!HeadLen \in Nat
  BY HeadIs
<1> DEFINE T == {d \in low..high : d = high \/ Body!Fits(d)}
<1>2. T \subseteq Nat /\ high \in T
  BY <1>1
<1>3. PICK d \in T : \A e \in T : d <= e
  <2> HIDE DEF T
  <2> QED BY <1>2, LeastIsThere
<1>4. ASSUME NEW e \in low..d - 1 PROVE ~Body!Fits(e)
  <2>1. e \in low..high /\ ~(d <= e)
    BY <1>1, <1>3
  <2> QED BY <1>3, <2>1
<1>5. IsFirst(low, high, d)
  BY <1>1, <1>3, <1>4 DEF IsFirst
<1>6. ASSUME NEW e \in low..high, IsFirst(low, high, e) PROVE e = d
  <2>1. e \in T
    BY <1>6 DEF IsFirst
  <2>2. d <= e
    BY <1>3, <2>1
  <2>3. ~(d < e)
    <3> SUFFICES ASSUME d < e PROVE FALSE
      OBVIOUS
    <3>1. d \in low..e - 1 /\ d # high
      BY <1>1, <1>3
    <3>2. ~Body!Fits(d)
      BY <1>6, <3>1 DEF IsFirst
    <3> QED BY <1>3, <3>1, <3>2
  <2> QED BY <1>1, <1>3, <2>2, <2>3
<1> QED BY <1>3, <1>5, <1>6

\* What fits to the left of the middle is found there, what does not, to the right.
LEMMA FirstInHalf ==
  ASSUME BodyParameters, BodyInv, NEW low \in 1..Body!HeadLen, NEW high \in low..Body!HeadLen,
         NEW m \in low..high - 1, NEW d
  PROVE  /\ Body!Fits(m) => (IsFirst(low, m, d) => IsFirst(low, high, d))
         /\ ~Body!Fits(m) => (IsFirst(m + 1, high, d) => IsFirst(low, high, d))
<1>1. Body!HeadLen \in Nat /\ Len(turns) \in Nat
      /\ (Body!HeadLen < Len(turns) \/ Body!HeadLen = 0)
  BY HeadIs
<1>2. ASSUME Body!Fits(m), IsFirst(low, m, d) PROVE IsFirst(low, high, d)
  BY <1>1, <1>2 DEF IsFirst
<1>3. ASSUME ~Body!Fits(m), IsFirst(m + 1, high, d) PROVE IsFirst(low, high, d)
  <2>1. ASSUME NEW e \in low..d - 1 PROVE ~Body!Fits(e)
    <3>1. CASE e >= m + 1
      <4>1. e \in (m + 1)..d - 1
        BY <1>1, <1>3, <2>1, <3>1 DEF IsFirst
      <4> QED BY <1>3, <4>1 DEF IsFirst
    <3>2. CASE e <= m
      <4>1. e \in 1..Len(turns) /\ m \in 1..Len(turns)
        BY <1>1, <3>2
      <4> QED BY <1>3, <3>2, <4>1, FitsBeyond
    <3> QED BY <1>1, <1>3, <2>1, <3>1, <3>2 DEF IsFirst
  <2>2. d \in low..high /\ (d = high \/ Body!Fits(d))
    BY <1>1, <1>3 DEF IsFirst
  <2> QED BY <2>1, <2>2 DEF IsFirst
<1> QED BY <1>2, <1>3

First(low, high) == CHOOSE d \in low..high : IsFirst(low, high, d)

LEMMA FirstIs ==
  ASSUME BodyParameters, BodyInv, NEW low \in 1..Body!HeadLen, NEW high \in low..Body!HeadLen
  PROVE  /\ IsFirst(low, high, First(low, high))
         /\ \A e : IsFirst(low, high, e) => e = First(low, high)
<1>1. PICK d \in low..high :
        IsFirst(low, high, d) /\ \A e \in low..high : IsFirst(low, high, e) => e = d
  BY FirstIsThere
<1>2. First(low, high) \in low..high /\ IsFirst(low, high, First(low, high))
  BY <1>1 DEF First
<1>3. \A e : IsFirst(low, high, e) => e \in low..high
  BY DEF IsFirst
<1> QED BY <1>1, <1>2, <1>3

LEMMA BisectionExists ==
  ASSUME BodyParameters, BodyInv
  PROVE  \E g : g = Bisected(g)
<1> DEFINE Value(range) == IF range[1] > range[2] THEN range[1] ELSE First(range[1], range[2])
           w == [range \in Ranges |-> Value(range)]
<1>0. Body!HeadLen \in Nat
  BY HeadIs
<1>1. ASSUME NEW range \in Ranges
      PROVE  w[range] = IF range[1] >= range[2] THEN range[1]
                        ELSE IF Body!Fits(Middle(range)) THEN w[<<range[1], Middle(range)>>]
                        ELSE w[<<Middle(range) + 1, range[2]>>]
  <2> DEFINE low == range[1]
             high == range[2]
             m == Middle(range)
  <2>1. low \in 1..Body!HeadLen /\ high \in 1..Body!HeadLen /\ range = <<low, high>>
    BY DEF Ranges
  <2>2. w[range] = Value(range)
    OBVIOUS
  <2>3. CASE low > high
    BY <1>0, <2>1, <2>2, <2>3
  <2>4. CASE low = high
    <3>1. IsFirst(low, high, First(low, high))
      BY <1>0, <2>1, <2>4, FirstIs
    <3>2. First(low, high) = low
      BY <1>0, <2>1, <2>4, <3>1 DEF IsFirst
    <3> QED BY <1>0, <2>1, <2>2, <2>4, <3>2
  <2>5. CASE low < high
    <3>1. /\ m \in low..high - 1 /\ <<low, m>> \in Ranges /\ <<m + 1, high>> \in Ranges
      BY <2>1, <2>5, MiddleInside
    <3>2. w[<<low, m>>] = Value(<<low, m>>) /\ w[<<m + 1, high>>] = Value(<<m + 1, high>>)
      BY <3>1
    <3> HIDE DEF m, w
    <3>3. /\ Value(<<low, m>>) = First(low, m) /\ Value(<<m + 1, high>>) = First(m + 1, high)
          /\ Value(range) = First(low, high)
      BY <1>0, <2>1, <2>5, <3>1
    <3>4. m \in low..Body!HeadLen /\ m + 1 \in 1..Body!HeadLen /\ high \in (m + 1)..Body!HeadLen
          /\ high \in low..Body!HeadLen
      BY <1>0, <2>1, <2>5, <3>1
    <3> HIDE DEF low, high, Value
    <3>5. CASE Body!Fits(m)
      <4>1. IsFirst(low, m, First(low, m))
        BY <2>1, <3>4, FirstIs
      <4>2. IsFirst(low, high, First(low, m))
        BY <2>1, <3>1, <3>4, <3>5, <4>1, FirstInHalf
      <4>3. First(low, m) = First(low, high)
        BY <2>1, <3>4, <4>2, FirstIs
      <4> QED BY <1>0, <2>1, <2>2, <2>5, <3>2, <3>3, <3>5, <4>3 DEF low, high, m
    <3>6. CASE ~Body!Fits(m)
      <4>1. IsFirst(m + 1, high, First(m + 1, high))
        BY <2>1, <3>4, FirstIs
      <4>2. IsFirst(low, high, First(m + 1, high))
        BY <2>1, <3>1, <3>4, <3>6, <4>1, FirstInHalf
      <4>3. First(m + 1, high) = First(low, high)
        BY <2>1, <3>4, <4>2, FirstIs
      <4> QED BY <1>0, <2>1, <2>2, <2>5, <3>2, <3>3, <3>6, <4>3 DEF low, high, m
    <3> QED BY <3>5, <3>6
  <2> QED BY <1>0, <2>1, <2>3, <2>4, <2>5
<1>2. w = Bisected(w)
  BY <1>1 DEF Bisected
<1> QED BY <1>2

LEMMA BisectionFinds ==
  ASSUME BodyParameters, BodyInv, NEW g, g = Bisected(g),
         NEW low \in 1..Body!HeadLen, NEW high \in low..Body!HeadLen
  PROVE  IsFirst(low, high, g[<<low, high>>])
<1> DEFINE H == Body!HeadLen
           T == {k \in Nat : \E l \in 1..H : \E h \in l..H : h - l = k /\ ~IsFirst(l, h, g[<<l, h>>])}
<1>0. H \in Nat
  BY HeadIs
<1>1. T = {}
  <2> SUFFICES ASSUME T # {} PROVE FALSE
    OBVIOUS
  <2>1. PICK k \in T : \A j \in T : k <= j
    <3>1. T \subseteq Nat
      OBVIOUS
    <3> HIDE DEF T
    <3> QED BY <3>1, LeastIsThere
  <2>2. PICK l \in 1..H : \E h \in l..H : h - l = k /\ ~IsFirst(l, h, g[<<l, h>>])
    BY <2>1
  <2>3. PICK h \in l..H : h - l = k /\ ~IsFirst(l, h, g[<<l, h>>])
    BY <2>2
  <2> DEFINE m == Middle(<<l, h>>)
  <2>4. h \in 1..H /\ <<l, h>> \in Ranges
    BY <1>0, <2>2, <2>3 DEF Ranges
  <2>5. g[<<l, h>>] = IF l >= h THEN l
                      ELSE IF Body!Fits(m) THEN g[<<l, m>>] ELSE g[<<m + 1, h>>]
    <3>1. Bisected(g)[<<l, h>>] = IF l >= h THEN l
                      ELSE IF Body!Fits(m) THEN g[<<l, m>>] ELSE g[<<m + 1, h>>]
      BY <2>4 DEF Bisected
    <3> HIDE DEF m
    <3> QED BY <3>1
  <2>6. CASE l = h
    <3>1. g[<<l, h>>] = l
      BY <1>0, <2>2, <2>4, <2>5, <2>6
    <3>2. IsFirst(l, h, l)
      BY <1>0, <2>2, <2>6 DEF IsFirst
    <3> QED BY <2>3, <3>1, <3>2
  <2>7. CASE l < h
    <3>1. m \in l..h - 1
      BY <2>2, <2>4, <2>7, MiddleInside
    <3> HIDE DEF m
    <3>2. /\ m \in l..H /\ m + 1 \in 1..H /\ h \in (m + 1)..H
          /\ m - l \in Nat /\ h - (m + 1) \in Nat /\ ~(k <= m - l) /\ ~(k <= h - (m + 1))
      BY <1>0, <2>2, <2>3, <2>4, <3>1
    <3>3. IsFirst(l, m, g[<<l, m>>])
      BY <2>1, <2>2, <3>2
    <3>4. IsFirst(m + 1, h, g[<<m + 1, h>>])
      BY <2>1, <3>2
    <3>5. CASE Body!Fits(m)
      <4>1. g[<<l, h>>] = g[<<l, m>>]
        BY <1>0, <2>2, <2>4, <2>5, <2>7, <3>5
      <4>2. IsFirst(l, h, g[<<l, m>>])
        BY <2>2, <2>3, <3>1, <3>3, <3>5, FirstInHalf
      <4> QED BY <2>3, <4>1, <4>2
    <3>6. CASE ~Body!Fits(m)
      <4>1. g[<<l, h>>] = g[<<m + 1, h>>]
        BY <1>0, <2>2, <2>4, <2>5, <2>7, <3>6
      <4>2. IsFirst(l, h, g[<<m + 1, h>>])
        BY <2>2, <2>3, <3>1, <3>4, <3>6, FirstInHalf
      <4> QED BY <2>3, <4>1, <4>2
    <3> QED BY <3>5, <3>6
  <2> QED BY <1>0, <2>2, <2>3, <2>6, <2>7
<1>2. high - low \in Nat /\ high \in low..H
  BY <1>0
<1>3. high - low \notin T
  BY <1>1
<1> QED BY <1>2, <1>3

LEMMA LeastFittingIs ==
  ASSUME BodyParameters, BodyInv, Body!HeadLen # 0
  PROVE  IsFirst(1, Body!HeadLen, Body!LeastFitting)
<1> DEFINE g == CHOOSE f : f = Bisected(f)
<1>1. Body!LeastFitting = g[<<1, Body!HeadLen>>]
  BY DEF Body!LeastFitting, Bisected, Ranges, Middle
<1>2. g = Bisected(g)
  BY BisectionExists
<1>3. 1 \in 1..Body!HeadLen /\ Body!HeadLen \in 1..Body!HeadLen
  BY HeadIs
<1> HIDE DEF g
<1> QED BY <1>1, <1>2, <1>3, BisectionFinds

\* A cut keeps every answer's call exactly if the first turn it keeps is no answer.
LEMMA WholeCuts ==
  ASSUME BodyParameters, BodyInv, NEW d \in 1..Body!HeadLen
  PROVE  Body!Whole(d) <=> ~Body!AnswersADroppedCall(d)
<1>1. /\ Len(turns) \in Nat /\ Body!HeadLen \in Nat /\ Body!HeadLen < Len(turns)
      /\ d + 1 \in 1..Len(turns)
  BY HeadIs
<1>2. ASSUME Body!Whole(d), Body!AnswersADroppedCall(d) PROVE FALSE
  <2>1. d + 1 \in (d + 1)..Len(turns) /\ turns[d + 1].kind = "answer"
    BY <1>1, <1>2 DEF Body!AnswersADroppedCall
  <2>2. \E c \in (d + 1)..(d + 1) - 1 : TRUE
    BY <1>2, <2>1 DEF Body!Whole
  <2> QED BY <1>1, <2>2
<1>3. ASSUME ~Body!AnswersADroppedCall(d) PROVE Body!Whole(d)
  <2> DEFINE Called(i) == \E c \in (d + 1)..i - 1 :
               turns[c].kind = "call" /\ \A j \in (c + 1)..i - 1 : turns[j].kind = "answer"
             T == {i \in (d + 1)..Len(turns) : turns[i].kind = "answer" /\ ~Called(i)}
  <2>1. T = {}
    <3> SUFFICES ASSUME T # {} PROVE FALSE
      OBVIOUS
    <3>1. PICK i \in T : \A j \in T : i <= j
      <4>1. T \subseteq Nat
        BY <1>1
      <4> HIDE DEF T
      <4> QED BY <4>1, LeastIsThere
    <3>2. i \in (d + 1)..Len(turns) /\ turns[i].kind = "answer" /\ ~Called(i)
      BY <3>1
    <3>3. i # d + 1
      BY <1>3, <3>2 DEF Body!AnswersADroppedCall
    <3>4. i - 1 \in (d + 1)..Len(turns) /\ i \in 1..Len(turns) /\ ~(i <= i - 1)
      BY <1>1, <3>2, <3>3
    <3>5. turns[i - 1].kind \in {"call", "answer"}
      BY <3>2, <3>4 DEF BodyInv, AnswersFollow
    <3>6. CASE turns[i - 1].kind = "call"
      <4>1. i - 1 \in (d + 1)..i - 1 /\ ((i - 1) + 1)..i - 1 = {}
        BY <1>1, <3>4
      <4> QED BY <3>2, <3>6, <4>1
    <3>7. CASE turns[i - 1].kind = "answer"
      <4>1. Called(i - 1)
        BY <3>1, <3>4, <3>7
      <4>2. PICK c \in (d + 1)..(i - 1) - 1 :
              turns[c].kind = "call" /\ \A j \in (c + 1)..(i - 1) - 1 : turns[j].kind = "answer"
        BY <4>1
      <4>3. c \in (d + 1)..i - 1
        BY <1>1, <3>4, <4>2
      <4>4. ASSUME NEW j \in (c + 1)..i - 1 PROVE turns[j].kind = "answer"
        <5>1. j = i - 1 \/ j \in (c + 1)..(i - 1) - 1
          BY <1>1, <3>4, <4>2
        <5> QED BY <3>7, <4>2, <5>1
      <4> QED BY <3>2, <4>2, <4>3, <4>4
    <3> QED BY <3>5, <3>6, <3>7
  <2>2. \A i \in (d + 1)..Len(turns) : turns[i].kind = "answer" => Called(i)
    BY <2>1
  <2> QED BY <2>2 DEF Body!Whole
<1> QED BY <1>2, <1>3

LEMMA SnappedIs ==
  ASSUME BodyParameters, BodyInv, NEW low \in 1..Body!HeadLen
  PROVE  LET cut == Body!Snapped(low) IN
         /\ cut \in low..Body!HeadLen
         /\ cut = Body!HeadLen \/ ~Body!AnswersADroppedCall(cut)
         /\ \A d \in low..cut - 1 : Body!AnswersADroppedCall(d)
<1> DEFINE H == Body!HeadLen
           T == {d \in low..H : d = H \/ ~Body!AnswersADroppedCall(d)}
           cut == Body!Snapped(low)
<1>1. H \in Nat
  BY HeadIs
<1>2. T \subseteq Nat /\ H \in T
  BY <1>1
<1>3. cut \in T /\ \A e \in T : cut <= e
  <2>1. cut = CHOOSE x \in T : \A y \in T : x <= y
    BY DEF Body!Snapped, Body!Min
  <2> HIDE DEF T, cut
  <2> QED BY <1>2, <2>1, LeastIsThere
<1> HIDE DEF cut
<1>4. ASSUME NEW d \in low..cut - 1 PROVE Body!AnswersADroppedCall(d)
  <2>1. d \in low..H /\ ~(cut <= d)
    BY <1>1, <1>3
  <2> QED BY <1>3, <2>1
<1> QED BY <1>3, <1>4 DEF cut

LEMMA CutKept == ASSUME BodyParameters, BodyInv PROVE Body!CutIsLeast
<1> DEFINE H == Body!HeadLen
           safe == {d \in 1..H : Body!Fits(d) /\ Body!Whole(d)}
           least == Body!LeastFitting
           cut == Body!Snapped(least)
           pass == Body!OriginalBytes <= Budget \/ Body!Fits(0)
           result == Body!SmallestFittingCut
<1>1. H \in Nat /\ (H < Len(turns) \/ H = 0) /\ Len(turns) \in Nat
  BY HeadIs
<1>2. result = IF H = 0 \/ pass \/ ~Body!Fits(H) THEN 0
               ELSE IF Body!AnswersADroppedCall(cut)
                       \/ Body!FittedBytes(cut) >= Body!OriginalBytes THEN 0 ELSE cut
  BY DEF Body!SmallestFittingCut
<1> HIDE DEF result
<1>3. CASE H = 0 \/ pass
  <2>1. result = 0
    BY <1>2, <1>3
  <2>2. pass \/ safe = {}
    BY <1>1, <1>3
  <2> QED BY <2>1, <2>2 DEF Body!CutIsLeast, result
<1>4. CASE H # 0 /\ ~pass /\ ~Body!Fits(H)
  <2>1. safe = {}
    <3> SUFFICES ASSUME NEW d \in safe PROVE FALSE
      OBVIOUS
    <3>1. d \in 1..Len(turns) /\ H \in 1..Len(turns) /\ d <= H /\ Body!Fits(d)
      BY <1>1, <1>4
    <3> QED BY <1>4, <3>1, FitsBeyond
  <2>2. result = 0
    BY <1>2, <1>4
  <2> QED BY <2>1, <2>2 DEF Body!CutIsLeast, result
<1>5. CASE H # 0 /\ ~pass /\ Body!Fits(H)
  <2>1. IsFirst(1, H, least)
    BY <1>5, LeastFittingIs
  <2>2. least \in 1..H /\ Body!Fits(least) /\ \A e \in 1..least - 1 : ~Body!Fits(e)
    BY <1>5, <2>1 DEF IsFirst
  <2>3. /\ cut \in least..H /\ (cut = H \/ ~Body!AnswersADroppedCall(cut))
        /\ \A d \in least..cut - 1 : Body!AnswersADroppedCall(d)
    BY <2>2, SnappedIs
  <2> HIDE DEF cut, least
  <2>4. cut \in 1..H /\ cut \in 1..Len(turns) /\ least \in 1..Len(turns) /\ least <= cut
    BY <1>1, <2>2, <2>3
  <2>5. Body!Fits(cut)
    BY <2>2, <2>4, FitsBeyond
  <2>6. \A d \in safe : d \in least..H /\ ~Body!AnswersADroppedCall(d)
    <3> TAKE d \in safe
    <3>1. d \in 1..H /\ Body!Fits(d) /\ ~Body!AnswersADroppedCall(d)
      BY WholeCuts
    <3>2. ~(d < least)
      BY <1>1, <2>2, <3>1
    <3> QED BY <1>1, <2>2, <3>1, <3>2
  <2>7. CASE Body!AnswersADroppedCall(cut)
    <3>1. result = 0
      BY <1>2, <2>7
    <3>2. safe = {}
      <4> SUFFICES ASSUME NEW d \in safe PROVE FALSE
        OBVIOUS
      <4>1. d \in least..cut - 1 \/ d = cut
        BY <1>1, <2>2, <2>3, <2>6, <2>7
      <4> QED BY <2>3, <2>6, <2>7, <4>1
    <3> QED BY <3>1, <3>2 DEF Body!CutIsLeast, result
  <2>8. CASE ~Body!AnswersADroppedCall(cut)
    <3>1. ~(Body!FittedBytes(cut) >= Body!OriginalBytes)
      <4>1. Body!FittedBytes(cut) \in Int /\ Body!FittedBytes(0) \in Int
        BY <1>1, <2>4, FittedTyped
      <4>2. Body!OriginalBytes \in Int /\ Budget \in Int
        BY <4>1 DEF Body!OriginalBytes, BodyInv, BodyTyped, BodyParameters
      <4> QED BY <1>5, <2>5, <4>1, <4>2 DEF Body!Fits
    <3>2. result = cut
      BY <1>2, <1>5, <2>8, <3>1
    <3>3. cut \in safe
      BY <2>4, <2>5, <2>8, WholeCuts
    <3>4. \A d \in safe : cut <= d
      <4> TAKE d \in safe
      <4>1. d \notin least..cut - 1
        BY <2>3, <2>6
      <4> QED BY <1>1, <2>2, <2>3, <2>6, <4>1
    <3>5. \A d \in safe : (\A e \in safe : d <= e) => d = cut
      BY <1>1, <2>4, <3>3, <3>4
    <3>6. Body!Min(safe) = cut
      <4> HIDE DEF safe
      <4> QED BY <3>3, <3>4, <3>5 DEF Body!Min
    <3> QED BY <1>5, <3>2, <3>3, <3>6 DEF Body!CutIsLeast, result
  <2> QED BY <2>7, <2>8
<1> QED BY <1>3, <1>4, <1>5

\* The messages lane: the oldest blocks worth a stub, until the body is under the cap.

\* Sizes of the turns with those of the stubbed.
StubbedSizes(D) == [i \in 1..Len(turns) |-> IF i \in D THEN Stub ELSE turns[i].size]

LEMMA ShrunkTyped ==
  ASSUME BodyParameters, BodyInv, NEW D
  PROVE  Body!ShrunkBytes(D) \in Int
<1> DEFINE S == 1..Len(turns)
           f == StubbedSizes(D)
           F(g) == [s \in SUBSET S |-> IF s = {} THEN 0
                      ELSE (IF Pick(s) \in D THEN Stub ELSE turns[Pick(s)].size) + g[s \ {Pick(s)}]]
           G(g) == [s \in SUBSET S |-> IF s = {} THEN 0 ELSE f[Pick(s)] + g[s \ {Pick(s)}]]
<1>1. \A g : F(g) = G(g)
  <2> TAKE g
  <2>1. \A s \in SUBSET S : s # {} =>
          f[Pick(s)] = IF Pick(s) \in D THEN Stub ELSE turns[Pick(s)].size
    BY DEF Pick, StubbedSizes
  <2> QED BY <2>1
<1>2. Body!ShrunkBytes(D) = anchor + (CHOOSE g : g = F(g))[S]
  BY DEF Body!ShrunkBytes, Body!MapThenSumSet, Body!MapThenFoldSet, Pick
<1>3. SumOf(f, S) = (CHOOSE g : g = G(g))[S]
  BY DEF SumOf, SumFun
<1>4. (CHOOSE g : g = F(g)) = (CHOOSE g : g = G(g))
  <2> HIDE DEF F, G
  <2> QED BY <1>1
<1>5. Body!ShrunkBytes(D) = anchor + SumOf(f, S)
  <2> HIDE DEF F, G
  <2> QED BY <1>2, <1>3, <1>4
<1>6. SumOf(f, S) \in Int
  <2>1. turns \in Seq(Turns) /\ Len(turns) \in Nat /\ Stub \in Nat
    BY DEF BodyInv, BodyTyped, BodyParameters
  <2>2. \A i \in S : turns[i].size \in Nat
    <3> TAKE i \in S
    <3>1. turns[i] \in Turns
      BY <2>1
    <3> QED BY <3>1 DEF Turns
  <2>3. \A i \in S : f[i] \in Int
    BY <2>1, <2>2 DEF StubbedSizes
  <2>4. IsFiniteSet(S)
    BY <2>1, FS_Interval
  <2> HIDE DEF S, f
  <2> QED BY <2>3, <2>4, SumTake
<1> QED BY <1>5, <1>6 DEF BodyInv, BodyTyped

Under(D) == D = Body!Eligible \/ (D # {} /\ Body!ShrunkBytes(D) <= Cap)
Oldest(D) == Body!Min(Body!Eligible \ D)
Trimmed(g) ==
  [done \in SUBSET Body!Eligible |-> IF Under(done) THEN done ELSE g[done \cup {Oldest(done)}]]

LEMMA EligibleIs ==
  ASSUME BodyParameters, BodyInv
  PROVE  /\ Body!Eligible \subseteq Nat /\ IsFiniteSet(Body!Eligible)
         /\ \A D \in SUBSET Body!Eligible : D # Body!Eligible =>
              /\ Oldest(D) \in Body!Eligible \ D
              /\ \A e \in Body!Eligible \ D : Oldest(D) <= e
<1> DEFINE v == Len(turns) - KeepTurns
           n == Body!Max({0, v})
<1>1. v \in Int
  BY DEF BodyInv, BodyTyped, BodyParameters
<1>2. n \in Int
  <2> DEFINE m == IF v > 0 THEN v ELSE 0
  <2> HIDE DEF v
  <2>1. m \in {0, v} /\ \A x \in {0, v} : (\A y \in {0, v} : x >= y) <=> x = m
    BY <1>1
  <2> HIDE DEF m
  <2>2. Body!Max({0, v}) = m
    BY <2>1 DEF Body!Max
  <2> QED BY <1>1, <2>1, <2>2
<1>3. Body!Eligible \subseteq 1..n /\ Body!Eligible \subseteq Nat
  BY DEF Body!Eligible
<1> HIDE DEF n
<1>4. IsFiniteSet(Body!Eligible)
  <2>1. IsFiniteSet(1..n)
    BY <1>2, FS_Interval
  <2> QED BY <1>3, <2>1, FS_Subset
<1>5. ASSUME NEW D \in SUBSET Body!Eligible, D # Body!Eligible
      PROVE  /\ Oldest(D) \in Body!Eligible \ D
             /\ \A e \in Body!Eligible \ D : Oldest(D) <= e
  <2> DEFINE R == Body!Eligible \ D
  <2>1. R \subseteq Nat /\ R # {}
    BY <1>3, <1>5
  <2>2. Oldest(D) = CHOOSE x \in R : \A y \in R : x <= y
    BY DEF Oldest, Body!Min
  <2> HIDE DEF R
  <2>3. Oldest(D) \in R /\ \A e \in R : Oldest(D) <= e
    BY <2>1, <2>2, LeastIsThere
  <2> QED BY <2>3 DEF R
<1> QED BY <1>3, <1>4, <1>5

LEMMA TrimExists ==
  ASSUME BodyParameters, BodyInv
  PROVE  \E g : g = Trimmed(g)
<1> DEFINE E == Body!Eligible
           Small(k) == {D \in SUBSET E : Cardinality(E \ D) <= k}
           Solves(g, k) ==
             g = [D \in Small(k) |-> IF Under(D) THEN D ELSE g[D \cup {Oldest(D)}]]
           Bad == {k \in Nat : \A g : ~Solves(g, k)}
<1>1. \A D \in SUBSET E : /\ IsFiniteSet(E \ D) /\ Cardinality(E \ D) \in Nat
                          /\ (Cardinality(E \ D) = 0 <=> E \ D = {})
  <2> TAKE D \in SUBSET E
  <2>1. IsFiniteSet(E \ D)
    BY EligibleIs, FS_Difference
  <2> QED BY <2>1, FS_CardinalityType, FS_EmptySet
<1>2. \A D \in SUBSET E : ~Under(D) =>
        /\ D \cup {Oldest(D)} \in SUBSET E
        /\ Cardinality(E \ (D \cup {Oldest(D)})) = Cardinality(E \ D) - 1
  <2> TAKE D \in SUBSET E
  <2> SUFFICES ASSUME ~Under(D)
               PROVE  /\ D \cup {Oldest(D)} \in SUBSET E
                      /\ Cardinality(E \ (D \cup {Oldest(D)})) = Cardinality(E \ D) - 1
    OBVIOUS
  <2>1. Oldest(D) \in E \ D
    BY EligibleIs DEF Under
  <2>2. E \ (D \cup {Oldest(D)}) = (E \ D) \ {Oldest(D)}
    OBVIOUS
  <2>3. Cardinality((E \ D) \ {Oldest(D)}) = Cardinality(E \ D) - 1
    <3> DEFINE C == E \ D
    <3>1. IsFiniteSet(C) /\ Oldest(D) \in C
      BY <1>1, <2>1
    <3> HIDE DEF C
    <3>2. Cardinality(C \ {Oldest(D)}) = Cardinality(C) - 1
      BY <3>1, FS_RemoveElement
    <3> QED BY <3>2 DEF C
  <2> QED BY <2>1, <2>2, <2>3
<1>3. Bad = {}
  <2> SUFFICES ASSUME Bad # {} PROVE FALSE
    OBVIOUS
  <2>1. PICK k \in Bad : \A j \in Bad : k <= j
    BY LeastIsThere
  <2>2. CASE k = 0
    <3> DEFINE g == [D \in Small(0) |-> D]
    <3>1. \A D \in Small(0) : D = E
      BY <1>1
    <3>2. g = [D \in Small(0) |-> IF Under(D) THEN D ELSE g[D \cup {Oldest(D)}]]
      BY <3>1 DEF Under
    <3>3. Solves(g, 0)
      BY <3>2
    <3> QED BY <2>1, <2>2, <3>3
  <2>3. CASE k # 0
    <3>1. k - 1 \in Nat /\ k - 1 \notin Bad
      <4>1. k \in Nat /\ ~(k <= k - 1)
        BY <2>1
      <4> HIDE DEF Bad
      <4> QED BY <2>1, <2>3, <4>1
    <3>2. PICK h : Solves(h, k - 1)
      BY <3>1
    <3> DEFINE g == [D \in Small(k) |-> IF Under(D) THEN D ELSE h[D \cup {Oldest(D)}]]
    <3>3. ASSUME NEW D \in Small(k), ~Under(D)
          PROVE  g[D \cup {Oldest(D)}] = h[D \cup {Oldest(D)}]
      <4> DEFINE C == D \cup {Oldest(D)}
      <4>1. C \in Small(k - 1) /\ C \in Small(k)
        <5>1. C \in SUBSET E /\ Cardinality(E \ C) = Cardinality(E \ D) - 1
          BY <1>2, <3>3
        <5>2. Cardinality(E \ D) <= k /\ Cardinality(E \ D) \in Nat /\ k \in Nat
          BY <1>1, <2>1, <3>3
        <5> HIDE DEF C, E
        <5>3. Cardinality(E \ C) <= k - 1 /\ Cardinality(E \ C) <= k
          BY <5>1, <5>2
        <5> QED BY <5>1, <5>3
      <4>3. h[C] = IF Under(C) THEN C ELSE h[C \cup {Oldest(C)}]
        BY <3>2, <4>1
      <4>4. g[C] = IF Under(C) THEN C ELSE h[C \cup {Oldest(C)}]
        BY <4>1
      <4> QED BY <4>3, <4>4
    <3>4. g = [D \in Small(k) |-> IF Under(D) THEN D ELSE g[D \cup {Oldest(D)}]]
      BY <3>3
    <3>5. Solves(g, k)
      BY <3>4
    <3> QED BY <2>1, <3>5
  <2> QED BY <2>2, <2>3
<1>4. Cardinality(E) \in Nat /\ Small(Cardinality(E)) = SUBSET E
  <2>1. IsFiniteSet(E) /\ Cardinality(E) \in Nat
    BY EligibleIs, FS_CardinalityType
  <2>2. \A D \in SUBSET E : Cardinality(E \ D) <= Cardinality(E)
    BY <2>1, FS_Subset
  <2> QED BY <2>1, <2>2
<1>5. \E g : Solves(g, Cardinality(E))
  <2>1. Cardinality(E) \notin Bad
    BY <1>3
  <2> DEFINE c == Cardinality(E)
  <2>2. c \in Nat /\ c \notin Bad
    BY <1>4, <2>1
  <2> HIDE DEF c
  <2>3. \E g : Solves(g, c)
    BY <2>2
  <2> QED BY <2>3 DEF c
<1>6. PICK g : g = [D \in SUBSET E |-> IF Under(D) THEN D ELSE g[D \cup {Oldest(D)}]]
  BY <1>4, <1>5
<1> QED BY <1>6 DEF Trimmed

\* Nothing younger than a block left whole, and the cap not met without the youngest.
OldestFirst(D) ==
  /\ D \in SUBSET Body!Eligible
  /\ \A i \in D : \A j \in Body!Eligible : j < i => j \in D
Needed(D) == \A i \in D : (\A j \in D : j <= i) /\ D # {i} => ~(Body!ShrunkBytes(D \ {i}) <= Cap)

LEMMA TrimFinds ==
  ASSUME BodyParameters, BodyInv, NEW g, g = Trimmed(g), NEW D, OldestFirst(D), Needed(D)
  PROVE  OldestFirst(g[D]) /\ Needed(g[D]) /\ Under(g[D])
<1> DEFINE E == Body!Eligible
           Good(C) == OldestFirst(C) /\ Needed(C) => OldestFirst(g[C]) /\ Needed(g[C]) /\ Under(g[C])
           Rest == {E \ C : C \in {C \in SUBSET E : ~Good(C)}}
<1>1. E \subseteq Nat /\ IsFiniteSet(E)
  BY EligibleIs
<1>2. Rest = {}
  <2> SUFFICES ASSUME Rest # {} PROVE FALSE
    OBVIOUS
  <2>1. PICK R \in Rest : \A U \in SUBSET R : U # R => U \notin Rest
    <3>1. \A R \in Rest : IsFiniteSet(R)
      BY <1>1, FS_Subset
    <3> HIDE DEF Rest
    <3> QED BY <3>1, SmallestSet
  <2>2. PICK C \in SUBSET E : ~Good(C) /\ R = E \ C
    BY <2>1
  <2>3. OldestFirst(C) /\ Needed(C) /\ ~(OldestFirst(g[C]) /\ Needed(g[C]) /\ Under(g[C]))
    BY <2>2
  <2> DEFINE o == Oldest(C)
             N == C \cup {o}
  <2>4. g[C] = IF Under(C) THEN C ELSE g[N]
    <3>1. Trimmed(g)[C] = IF Under(C) THEN C ELSE g[N]
      BY <2>2 DEF Trimmed
    <3> HIDE DEF N
    <3> QED BY <3>1
  <2>5. ~Under(C) /\ g[C] = g[N]
    BY <2>3, <2>4
  <2>6. o \in E \ C /\ \A e \in E \ C : o <= e
    BY <2>2, <2>5, EligibleIs DEF Under
  <2> HIDE DEF o
  <2>7. \A i \in C : i < o
    <3> TAKE i \in C
    <3>1. ~(o < i) /\ i # o /\ i \in Nat /\ o \in Nat
      BY <1>1, <2>2, <2>3, <2>6 DEF OldestFirst
    <3> QED BY <3>1
  <2>8. OldestFirst(N)
    <3>1. N \in SUBSET E
      BY <2>2, <2>6
    <3>2. ASSUME NEW i \in N, NEW j \in E, j < i PROVE j \in N
      <4>1. CASE i \in C
        BY <2>3, <3>2, <4>1 DEF OldestFirst
      <4>2. CASE i = o
        <5>1. ~(o <= j)
          BY <1>1, <2>6, <3>2, <4>2
        <5> QED BY <2>6, <3>2, <5>1
      <4> QED BY <3>2, <4>1, <4>2
    <3> QED BY <3>1, <3>2 DEF OldestFirst
  <2>9. Needed(N)
    <3> SUFFICES ASSUME NEW i \in N, \A j \in N : j <= i, N # {i}
                 PROVE  ~(Body!ShrunkBytes(N \ {i}) <= Cap)
      BY DEF Needed
    <3>1. i = o
      <4>1. o <= i /\ (i = o \/ i < o) /\ i \in Nat /\ o \in Nat
        BY <1>1, <2>2, <2>6, <2>7
      <4> QED BY <4>1
    <3>2. N \ {i} = C /\ C # {}
      BY <2>6, <3>1
    <3> QED BY <2>5, <3>2 DEF Under
  <2>10. Good(N)
    <3>1. N \in SUBSET E /\ E \ N \in SUBSET R /\ E \ N # R
      BY <2>2, <2>6
    <3>2. E \ N \notin Rest
      BY <2>1, <3>1
    <3> HIDE DEF Good, N
    <3> QED BY <3>1, <3>2
  <2> HIDE DEF N
  <2> QED BY <2>3, <2>5, <2>8, <2>9, <2>10
<1>3. Good(D)
  <2>1. D \in SUBSET E
    BY DEF OldestFirst
  <2> HIDE DEF Good
  <2> QED BY <1>2, <2>1
<1> QED BY <1>3

LEMMA TrimKept == ASSUME BodyParameters, BodyInv PROVE Body!TrimIsLeast
<1> DEFINE g == CHOOSE f : f = Trimmed(f)
           r == Body!Stubbed
           all == Body!ShrunkBytes({})
<1>1. r = IF all + spare <= Cap THEN {} ELSE g[{}]
  BY DEF Body!Stubbed, Trimmed, Under, Oldest
<1>2. g = Trimmed(g)
  BY TrimExists
<1> HIDE DEF g
<1>3. OldestFirst({}) /\ Needed({})
  BY DEF OldestFirst, Needed
<1>4. OldestFirst(g[{}]) /\ Needed(g[{}]) /\ Under(g[{}])
  BY <1>2, <1>3, TrimFinds
<1>5. all \in Int /\ spare \in Nat /\ Cap \in Nat /\ \A D : Body!ShrunkBytes(D) \in Int
  BY ShrunkTyped DEF BodyInv, BodyTyped, BodyParameters
<1> HIDE DEF r, all
<1>6. OldestFirst(r) /\ Needed(r)
  BY <1>1, <1>3, <1>4
<1>7. r # {} => all + spare > Cap
  BY <1>1, <1>5
<1>8. Cardinality(r) > 1 => Body!ShrunkBytes(r \ {Body!Max(r)}) > Cap
  <2> SUFFICES ASSUME Cardinality(r) > 1 PROVE Body!ShrunkBytes(r \ {Body!Max(r)}) > Cap
    OBVIOUS
  <2>1. IsFiniteSet(r) /\ r \subseteq Nat
    BY <1>6, EligibleIs, FS_Subset DEF OldestFirst
  <2>2. r # {} /\ \A i : r # {i}
    BY <2>1, FS_EmptySet, FS_Singleton
  <2>3. Body!Max(r) \in r /\ \A j \in r : j <= Body!Max(r)
    BY <2>1, <2>2, GreatestIsThere DEF Body!Max
  <2>4. ~(Body!ShrunkBytes(r \ {Body!Max(r)}) <= Cap)
    BY <1>6, <2>2, <2>3 DEF Needed
  <2> QED BY <1>5, <2>4
<1>9. all + spare > Cap /\ Body!ShrunkBytes(r) > Cap => r = Body!Eligible
  <2> SUFFICES ASSUME all + spare > Cap, Body!ShrunkBytes(r) > Cap PROVE r = Body!Eligible
    OBVIOUS
  <2>1. r = g[{}]
    BY <1>1, <1>5
  <2>2. ~(Body!ShrunkBytes(r) <= Cap)
    BY <1>5
  <2> QED BY <1>4, <2>1, <2>2 DEF Under
<1>10. \A i \in r, j \in Body!Eligible : j < i => j \in r
  BY <1>6 DEF OldestFirst
<1>11. r # {} => /\ all + spare > Cap
                 /\ Cardinality(r) > 1 => Body!ShrunkBytes(r \ {Body!Max(r)}) > Cap
  BY <1>7, <1>8
<1>12. Body!Cardinality(r) = Cardinality(r)
  BY DEF Body!Cardinality, Cardinality
<1> QED BY <1>9, <1>10, <1>11, <1>12 DEF Body!TrimIsLeast, r, all

\* On the chat lane bisection and snapping find the fewest oldest turns to drop that bring a
\* body within budget with every answer's call kept, or leave it as it is; on the messages lane
\* the stubs are the oldest eligible blocks, and no more than the cap asks for (body_shape.py).
THEOREM BodyIsCutLeast == BodyParameters => (BodySpec => []Body!BodiesAreCutLeast)
<1> SUFFICES ASSUME BodyParameters PROVE BodySpec => []Body!BodiesAreCutLeast
  OBVIOUS
<1>1. BodyInv => Body!BodiesAreCutLeast
  BY CutKept, TrimKept DEF Body!BodiesAreCutLeast
<1>2. Body!BodyInit => BodyInv
  BY BodyStart
<1>3. BodyInv /\ [Body!BodyNext]_(Body!bodyVars) => BodyInv'
  BY BodyStep
<1>4. QED BY <1>1, <1>2, <1>3, PTL DEF BodySpec

-----------------------------------------------------------------------------
(* Watchdog: what an alert stands for. *)

WatchSpec == Watch!WatchInit /\ [][Watch!WatchNext]_(Watch!watchVars)

Samples == [ts : Nat, ceiling : Nat, shrinks : Nat, shrunk : Nat]

WatchTyped ==
  /\ gates \in Nat \ {0} /\ turn \in 1..gates /\ live \in BOOLEAN
  /\ clock \in Nat /\ shrunk \in Nat /\ ceiling \in [1..gates -> Nat]
  /\ shrinks \in [1..gates -> [Statuses -> Nat]] /\ lastLabel \in [1..gates -> Statuses]
  /\ scrapes \in Seq(Samples)

\* The scrapes are in order of time, and of shrinks; between two of one gate with none
\* between them the counter that is seen keeps its value or is gone.
Follows(earlier, ts, seenNow, shrunkNow) ==
  /\ earlier.ts <= ts /\ earlier.shrunk <= shrunkNow
  /\ gates = 1 /\ earlier.shrunk = shrunkNow => seenNow \in {earlier.shrinks, 0}

ScrapesInOrder ==
  /\ \A i \in DOMAIN scrapes :
       Follows(scrapes[i], clock, Watch!Visible(shrinks[1], lastLabel[1]), shrunk)
  /\ \A i, j \in DOMAIN scrapes :
       i < j => Follows(scrapes[i], scrapes[j].ts, scrapes[j].shrinks, scrapes[j].shrunk)

WatchInv == WatchTyped /\ ScrapesInOrder

LEMMA WatchTop ==
  ASSUME NEW S, IsFiniteSet(S), S \subseteq Nat, S # {}
  PROVE  Watch!Max(S) \in S /\ \A y \in S : y <= Watch!Max(S)
<1>1. Watch!Max(S) \in S /\ \A y \in S : Watch!Max(S) >= y
  BY GreatestIsThere DEF Watch!Max
<1> QED BY <1>1

LEMMA WatchBottom ==
  ASSUME NEW S, S \subseteq Nat, S # {}
  PROVE  Watch!Min(S) \in S /\ \A y \in S : Watch!Min(S) <= y
BY LeastIsThere DEF Watch!Min

LEMMA VisibleTyped ==
  ASSUME WatchParameters, NEW c \in [Statuses -> Nat], NEW latest \in Statuses
  PROVE  Watch!Visible(c, latest) \in Nat
<1> DEFINE there == {s \in Statuses : c[s] > 0}
<1>1. IsFiniteSet(there) /\ there \subseteq Nat
  BY FS_Subset DEF WatchParameters
<1>2. there # {} => Watch!Max(there) \in there
  <2> HIDE DEF there
  <2> QED BY <1>1, WatchTop
<1> QED BY <1>2 DEF Watch!Visible

LEMMA WatchStart == ASSUME WatchParameters, Watch!WatchInit PROVE WatchInv
<1>1. gates \in Nat \ {0} /\ turn \in 1..gates /\ live \in BOOLEAN
  BY DEF WatchParameters, Watch!WatchInit
<1>2. Watch!Nothing \in [Statuses -> Nat] /\ Start \in Nat /\ Util \in Statuses
  BY DEF WatchParameters, Watch!Nothing
<1>3. WatchTyped
  BY <1>1, <1>2 DEF Watch!WatchInit, WatchTyped
<1>4. ScrapesInOrder
  BY DEF Watch!WatchInit, ScrapesInOrder
<1> QED BY <1>3, <1>4 DEF WatchInv

\* The next scrape, or none, of a state that follows.
LEMMA ScrapeAdded ==
  ASSUME WatchInv, NEW at \in Nat, NEW max \in Nat, NEW visible \in Nat, NEW truth \in Nat,
         \A i \in DOMAIN scrapes : Follows(scrapes[i], at, visible, truth),
         NEW new, new = scrapes \/ new = Append(scrapes, [ts |-> at, ceiling |-> max, shrinks |-> visible, shrunk |-> truth])
  PROVE  /\ new \in Seq(Samples)
         /\ \A i \in DOMAIN new : Follows(new[i], at, visible, truth)
         /\ \A i, j \in DOMAIN new :
              i < j => Follows(new[i], new[j].ts, new[j].shrinks, new[j].shrunk)
<1> DEFINE r == [ts |-> at, ceiling |-> max, shrinks |-> visible, shrunk |-> truth]
<1>1. CASE new = scrapes
  BY <1>1 DEF WatchInv, WatchTyped, ScrapesInOrder
<1>2. CASE new = Append(scrapes, r)
  <2>1. r \in Samples /\ r.ts = at /\ r.shrinks = visible /\ r.shrunk = truth
    BY DEF Samples
  <2> HIDE DEF r
  <2>2. scrapes \in Seq(Samples)
    BY DEF WatchInv, WatchTyped
  <2>3. /\ new \in Seq(Samples) /\ DOMAIN new = 1..Len(scrapes) + 1
        /\ new[Len(scrapes) + 1] = r /\ DOMAIN scrapes = 1..Len(scrapes) /\ Len(scrapes) \in Nat
        /\ \A i \in 1..Len(scrapes) : new[i] = scrapes[i]
    BY <1>2, <2>1, <2>2
  <2>4. Follows(r, at, visible, truth)
    BY <2>1 DEF Follows
  <2>5. \A i \in DOMAIN new : Follows(new[i], at, visible, truth)
    <3> TAKE i \in DOMAIN new
    <3>1. i \in 1..Len(scrapes) \/ i = Len(scrapes) + 1
      BY <2>3
    <3> QED BY <2>3, <2>4, <3>1
  <2>6. ASSUME NEW i \in DOMAIN new, NEW j \in DOMAIN new, i < j
        PROVE  Follows(new[i], new[j].ts, new[j].shrinks, new[j].shrunk)
    <3>1. i \in 1..Len(scrapes) /\ (j \in 1..Len(scrapes) \/ j = Len(scrapes) + 1)
      BY <2>3, <2>6
    <3>2. CASE j \in 1..Len(scrapes)
      BY <2>3, <2>6, <3>1, <3>2 DEF WatchInv, ScrapesInOrder
    <3>3. CASE j = Len(scrapes) + 1
      BY <2>1, <2>3, <3>1, <3>3
    <3> QED BY <3>1, <3>2, <3>3
  <2> QED BY <2>3, <2>5, <2>6
<1> QED BY <1>1, <1>2

\* What is seen of any gate follows the scrapes.
LEMMA SeenFollows ==
  ASSUME WatchInv, NEW g \in 1..gates
  PROVE  \A i \in DOMAIN scrapes : Follows(scrapes[i], clock, Watch!Visible(shrinks[g], lastLabel[g]), shrunk)
<1>1. gates = 1 => g = 1
  OBVIOUS
<1>2. \A i \in DOMAIN scrapes : Follows(scrapes[i], clock, Watch!Visible(shrinks[1], lastLabel[1]), shrunk)
  BY DEF WatchInv, ScrapesInOrder
<1> QED BY <1>1, <1>2 DEF Follows

LEMMA ReportKept ==
  ASSUME WatchParameters, WatchInv, NEW g \in 1..gates, NEW max \in Nat,
         NEW counters \in [Statuses -> Nat], NEW latest \in Statuses, NEW truth \in Nat,
         Watch!Report(g, max, counters, latest, truth),
         \A i \in DOMAIN scrapes : Follows(scrapes[i], clock, Watch!Visible(counters, latest), truth)
  PROVE  WatchInv'
<1> DEFINE v == Watch!Visible(counters, latest)
<1>1. v \in Nat
  BY VisibleTyped
<1>2. PICK at \in Nat :
        /\ clock' = at /\ clock <= at
        /\ scrapes' = scrapes \/ scrapes' = Append(scrapes, Watch!ScrapeOf(at, max, v, truth))
  <2>1. CASE live
    BY <2>1 DEF Watch!Report, WatchInv, WatchTyped
  <2>2. CASE ~live
    <3>1. PICK gap \in 0..MaxGap :
            /\ clock' = clock + gap
            /\ scrapes' = Append(scrapes, Watch!ScrapeOf(clock', max, v, truth))
      BY <2>2 DEF Watch!Report
    <3>2. clock + gap \in Nat /\ clock <= clock + gap
      BY DEF WatchInv, WatchTyped
    <3> HIDE DEF v
    <3> QED BY <3>1, <3>2
  <2> QED BY <2>1, <2>2
<1>3. /\ ceiling' = [ceiling EXCEPT ![g] = max] /\ shrinks' = [shrinks EXCEPT ![g] = counters]
      /\ lastLabel' = [lastLabel EXCEPT ![g] = latest] /\ shrunk' = truth
      /\ live' = live /\ gates' = gates /\ turn' = turn
  BY DEF Watch!Report
<1>4. scrapes' = scrapes
      \/ scrapes' = Append(scrapes, [ts |-> at, ceiling |-> max, shrinks |-> v, shrunk |-> truth])
  BY <1>2 DEF Watch!ScrapeOf
<1>5. \A i \in DOMAIN scrapes : Follows(scrapes[i], at, v, truth)
  <2> TAKE i \in DOMAIN scrapes
  <2>1. scrapes[i] \in Samples /\ clock \in Nat
    BY DEF WatchInv, WatchTyped
  <2>2. scrapes[i].ts \in Nat
    BY <2>1 DEF Samples
  <2> HIDE DEF v
  <2> QED BY <1>2, <2>1, <2>2 DEF Follows, v
<1>6. gates = 1 => Watch!Visible(shrinks[1], lastLabel[1])' = v
  <2> SUFFICES ASSUME gates = 1 PROVE Watch!Visible(shrinks[1], lastLabel[1])' = v
    OBVIOUS
  <2>1. g = 1 /\ 1 \in DOMAIN shrinks /\ 1 \in DOMAIN lastLabel
    BY DEF WatchInv, WatchTyped
  <2>2. shrinks'[1] = counters /\ lastLabel'[1] = latest
    BY <1>3, <2>1
  <2> QED BY <1>3, <2>2 DEF Watch!Visible
<1> HIDE DEF v
<1>7. /\ scrapes' \in Seq(Samples)
      /\ \A i \in DOMAIN scrapes' : Follows(scrapes'[i], at, v, truth)
      /\ \A i, j \in DOMAIN scrapes' :
           i < j => Follows(scrapes'[i], scrapes'[j].ts, scrapes'[j].shrinks, scrapes'[j].shrunk)
  BY <1>1, <1>4, <1>5, ScrapeAdded
<1>8. WatchTyped'
  <2>1. /\ ceiling' \in [1..gates -> Nat] /\ shrinks' \in [1..gates -> [Statuses -> Nat]]
        /\ lastLabel' \in [1..gates -> Statuses]
    BY <1>3 DEF WatchInv, WatchTyped
  <2> QED BY <1>2, <1>3, <1>7, <2>1 DEF WatchInv, WatchTyped
<1>9. ScrapesInOrder'
  <2>1. \A i \in DOMAIN scrapes' :
          Follows(scrapes[i], clock, Watch!Visible(shrinks[1], lastLabel[1]), shrunk)'
    BY <1>2, <1>3, <1>6, <1>7 DEF Follows
  <2>2. \A i, j \in DOMAIN scrapes' :
          i < j => Follows(scrapes[i], scrapes[j].ts, scrapes[j].shrinks, scrapes[j].shrunk)'
    BY <1>3, <1>7 DEF Follows
  <2> QED BY <2>1, <2>2 DEF ScrapesInOrder
<1> QED BY <1>8, <1>9 DEF WatchInv

LEMMA PollKept ==
  ASSUME WatchParameters, WatchInv, Watch!Poll PROVE WatchInv'
<1> DEFINE v == Watch!Visible(shrinks[turn], lastLabel[turn])
           at == IF turn = 1 THEN clock + 1 ELSE clock
<1>1. /\ UNCHANGED <<live, gates, ceiling, shrinks, lastLabel, shrunk>> /\ clock' = at
      /\ turn' = IF turn = gates THEN 1 ELSE turn + 1
  BY DEF Watch!Poll
<1>2. scrapes' = scrapes \/ scrapes' = Append(scrapes,
        [ts |-> at, ceiling |-> ceiling[turn], shrinks |-> v, shrunk |-> shrunk])
  BY DEF Watch!Poll, Watch!ScrapeOf
<1>3. /\ turn \in 1..gates /\ gates \in Nat \ {0} /\ shrinks[turn] \in [Statuses -> Nat]
      /\ lastLabel[turn] \in Statuses /\ ceiling[turn] \in Nat /\ clock \in Nat /\ shrunk \in Nat
  BY DEF WatchInv, WatchTyped
<1>4. v \in Nat /\ at \in Nat /\ clock <= at
  BY <1>3, VisibleTyped
<1>5. \A i \in DOMAIN scrapes : Follows(scrapes[i], at, v, shrunk)
  <2> TAKE i \in DOMAIN scrapes
  <2>1. scrapes[i] \in Samples
    BY DEF WatchInv, WatchTyped
  <2>2. scrapes[i].ts \in Nat
    BY <2>1 DEF Samples
  <2>3. Follows(scrapes[i], clock, v, shrunk)
    BY <1>3, SeenFollows
  <2> HIDE DEF v, at
  <2> QED BY <1>3, <1>4, <2>2, <2>3 DEF Follows
<1>6. gates = 1 => Watch!Visible(shrinks[1], lastLabel[1])' = v
  <2>1. gates = 1 => turn = 1
    BY <1>3
  <2> QED BY <1>1, <2>1 DEF Watch!Visible
<1> HIDE DEF v, at
<1>7. /\ scrapes' \in Seq(Samples)
      /\ \A i \in DOMAIN scrapes' : Follows(scrapes'[i], at, v, shrunk)
      /\ \A i, j \in DOMAIN scrapes' :
           i < j => Follows(scrapes'[i], scrapes'[j].ts, scrapes'[j].shrinks, scrapes'[j].shrunk)
  BY <1>2, <1>3, <1>4, <1>5, ScrapeAdded
<1>8. WatchTyped'
  <2>1. turn' \in 1..gates
    BY <1>1, <1>3
  <2> QED BY <1>1, <1>4, <1>7, <2>1 DEF WatchInv, WatchTyped
<1>9. ScrapesInOrder'
  <2>1. \A i \in DOMAIN scrapes' :
          Follows(scrapes[i], clock, Watch!Visible(shrinks[1], lastLabel[1]), shrunk)'
    BY <1>1, <1>6, <1>7 DEF Follows
  <2>2. \A i, j \in DOMAIN scrapes' :
          i < j => Follows(scrapes[i], scrapes[j].ts, scrapes[j].shrinks, scrapes[j].shrunk)'
    BY <1>1, <1>7 DEF Follows
  <2> QED BY <2>1, <2>2 DEF ScrapesInOrder
<1> QED BY <1>8, <1>9 DEF WatchInv

LEMMA WatchStep ==
  ASSUME WatchParameters, WatchInv, [Watch!WatchNext]_(Watch!watchVars)
  PROVE  WatchInv'
<1>1. /\ shrunk \in Nat /\ clock \in Nat
      /\ \A g \in 1..gates :
           ceiling[g] \in Nat /\ shrinks[g] \in [Statuses -> Nat] /\ lastLabel[g] \in Statuses
  BY DEF WatchInv, WatchTyped
<1>2. \A i \in DOMAIN scrapes : scrapes[i].shrunk \in Nat
  <2> TAKE i \in DOMAIN scrapes
  <2>1. scrapes[i] \in Samples
    BY DEF WatchInv, WatchTyped
  <2> QED BY <2>1 DEF Samples
<1>3. ASSUME Watch!RecordShrink PROVE WatchInv'
  <2>1. PICK g \in 1..gates, status \in Watch!Counted :
          Watch!Report(g, Watch!Max({Floor, ceiling[g] - 1}), [shrinks[g] EXCEPT ![status] = @ + 1],
                       IF shrinks[g][status] = 0 THEN status ELSE lastLabel[g], shrunk + 1)
    BY <1>3 DEF Watch!RecordShrink
  <2> DEFINE m == Watch!Max({Floor, ceiling[g] - 1})
             c == [shrinks[g] EXCEPT ![status] = @ + 1]
             l == IF shrinks[g][status] = 0 THEN status ELSE lastLabel[g]
  <2>2. m \in Nat
    <3> DEFINE k == IF Floor >= ceiling[g] - 1 THEN Floor ELSE ceiling[g] - 1
    <3>1. Floor \in Nat /\ ceiling[g] \in Nat
      BY <1>1 DEF WatchParameters
    <3>2. k \in Nat
      BY <3>1
    <3>3. \A x \in {Floor, ceiling[g] - 1} : (\A y \in {Floor, ceiling[g] - 1} : x >= y) <=> x = k
      BY <3>1
    <3>4. k \in {Floor, ceiling[g] - 1}
      OBVIOUS
    <3> HIDE DEF k
    <3> QED BY <3>2, <3>3, <3>4 DEF Watch!Max
  <2>3. c \in [Statuses -> Nat] /\ l \in Statuses /\ shrunk + 1 \in Nat
    <3>1. status \in Statuses
      BY DEF Watch!Counted
    <3> QED BY <1>1, <3>1
  <2>4. \A i \in DOMAIN scrapes : Follows(scrapes[i], clock, Watch!Visible(c, l), shrunk + 1)
    <3> TAKE i \in DOMAIN scrapes
    <3>1. Follows(scrapes[i], clock, Watch!Visible(shrinks[g], lastLabel[g]), shrunk)
      BY SeenFollows
    <3> HIDE DEF c, l
    <3> QED BY <1>1, <1>2, <3>1 DEF Follows
  <2> HIDE DEF m, c, l
  <2>5. Watch!Report(g, m, c, l, shrunk + 1)
    BY <2>1 DEF m, c, l
  <2> QED BY <2>2, <2>3, <2>4, <2>5, ReportKept
<1>4. ASSUME Watch!RecordCeiling PROVE WatchInv'
  <2>1. PICK g \in 1..gates, max \in {Floor, Start} :
          Watch!Report(g, max, shrinks[g], lastLabel[g], shrunk)
    BY <1>4 DEF Watch!RecordCeiling
  <2>2. max \in Nat
    BY DEF WatchParameters
  <2>3. \A i \in DOMAIN scrapes : Follows(scrapes[i], clock, Watch!Visible(shrinks[g], lastLabel[g]), shrunk)
    BY SeenFollows
  <2> QED BY <1>1, <2>1, <2>2, <2>3, ReportKept
<1>5. ASSUME Watch!RecordDone PROVE WatchInv'
  <2>1. Watch!Report(1, ceiling[1], shrinks[1], lastLabel[1], shrunk)
    BY <1>5 DEF Watch!RecordDone
  <2>2. 1 \in 1..gates
    BY DEF WatchInv, WatchTyped
  <2>3. \A i \in DOMAIN scrapes : Follows(scrapes[i], clock, Watch!Visible(shrinks[1], lastLabel[1]), shrunk)
    BY <2>2, SeenFollows
  <2> QED BY <1>1, <2>1, <2>2, <2>3, ReportKept
<1>6. ASSUME Watch!RecordRestart PROVE WatchInv'
  <2>1. PICK g \in 1..gates :
          Watch!Report(g, IF live THEN 0 ELSE ceiling[g], Watch!Nothing, lastLabel[g], shrunk)
    BY <1>6 DEF Watch!RecordRestart
  <2> DEFINE m == IF live THEN 0 ELSE ceiling[g]
  <2>2. m \in Nat /\ Watch!Nothing \in [Statuses -> Nat]
    BY <1>1 DEF Watch!Nothing
  <2>3. Watch!Visible(Watch!Nothing, lastLabel[g]) = 0
    BY DEF Watch!Visible, Watch!Nothing
  <2>4. \A i \in DOMAIN scrapes : Follows(scrapes[i], clock, Watch!Visible(Watch!Nothing, lastLabel[g]), shrunk)
    <3> TAKE i \in DOMAIN scrapes
    <3>1. Follows(scrapes[i], clock, Watch!Visible(shrinks[g], lastLabel[g]), shrunk)
      BY SeenFollows
    <3> QED BY <2>3, <3>1 DEF Follows
  <2> HIDE DEF m
  <2>5. Watch!Report(g, m, Watch!Nothing, lastLabel[g], shrunk)
    BY <2>1 DEF m
  <2> QED BY <1>1, <2>2, <2>4, <2>5, ReportKept
<1>7. ASSUME Watch!Poll PROVE WatchInv'
  BY <1>7, PollKept
<1>8. CASE UNCHANGED Watch!watchVars
  <2>1. Watch!Visible(shrinks[1], lastLabel[1])' = Watch!Visible(shrinks[1], lastLabel[1])
    BY <1>8 DEF Watch!watchVars, Watch!Visible
  <2>2. WatchTyped'
    BY <1>8 DEF Watch!watchVars, WatchInv, WatchTyped
  <2>3. ScrapesInOrder'
    BY <1>8, <2>1 DEF Watch!watchVars, WatchInv, ScrapesInOrder, Follows
  <2> QED BY <2>2, <2>3 DEF WatchInv
<1> QED BY <1>3, <1>4, <1>5, <1>6, <1>7, <1>8 DEF Watch!WatchNext

\* What the rules read of the scrapes.
LEMMA ScrapesAre ==
  ASSUME WatchInv
  PROVE  /\ Len(scrapes) \in Nat /\ DOMAIN scrapes = 1..Len(scrapes)
         /\ \A i \in DOMAIN scrapes :
              scrapes[i].ts \in Nat /\ scrapes[i].ceiling \in Nat
              /\ scrapes[i].shrinks \in Nat /\ scrapes[i].shrunk \in Nat
         /\ \A i, j \in DOMAIN scrapes : i <= j =>
              scrapes[i].ts <= scrapes[j].ts /\ scrapes[i].shrunk <= scrapes[j].shrunk
<1>1. scrapes \in Seq(Samples)
  BY DEF WatchInv, WatchTyped
<1>2. Len(scrapes) \in Nat /\ DOMAIN scrapes = 1..Len(scrapes)
  BY <1>1
<1>3. \A i \in DOMAIN scrapes :
        scrapes[i].ts \in Nat /\ scrapes[i].ceiling \in Nat
        /\ scrapes[i].shrinks \in Nat /\ scrapes[i].shrunk \in Nat
  <2> TAKE i \in DOMAIN scrapes
  <2>1. scrapes[i] \in Samples
    BY <1>1
  <2> QED BY <2>1 DEF Samples
<1>4. ASSUME NEW i \in DOMAIN scrapes, NEW j \in DOMAIN scrapes, i <= j
      PROVE  scrapes[i].ts <= scrapes[j].ts /\ scrapes[i].shrunk <= scrapes[j].shrunk
  <2>1. CASE i < j
    BY <2>1 DEF WatchInv, ScrapesInOrder, Follows
  <2>2. CASE i = j
    BY <1>3, <2>2
  <2> QED BY <1>2, <1>4, <2>1, <2>2
<1> QED BY <1>2, <1>3, <1>4

\* The scrape before, of those that show the counter.
LEMMA BeforeIs ==
  ASSUME WatchInv, NEW i \in Watch!Rises
  PROVE  /\ i \in DOMAIN scrapes /\ Watch!Before(i) \in DOMAIN scrapes /\ Watch!Before(i) < i
         /\ \A j \in Watch!Seen : j < i => j <= Watch!Before(i)
         /\ gates = 1 => scrapes[Watch!Before(i)].shrunk + 1 <= scrapes[i].shrunk
<1> DEFINE B == {j \in Watch!Seen : j < i}
           b == Watch!Before(i)
<1>1. Watch!Seen \subseteq 1..Len(scrapes) /\ Len(scrapes) \in Nat
  BY ScrapesAre DEF Watch!Seen
<1>2. i \in Watch!Seen /\ Watch!Min(Watch!Seen) < i /\ scrapes[i].shrinks > scrapes[b].shrinks
  BY DEF Watch!Rises
<1>3. Watch!Min(Watch!Seen) \in Watch!Seen
  <2>1. Watch!Seen \subseteq Nat /\ Watch!Seen # {}
    BY <1>1, <1>2
  <2> QED BY <2>1, WatchBottom
<1>4. IsFiniteSet(B) /\ B \subseteq Nat /\ B # {}
  <2>1. IsFiniteSet(1..Len(scrapes))
    BY <1>1, FS_Interval
  <2>2. IsFiniteSet(B)
    BY <1>1, <2>1, FS_Subset
  <2>3. Watch!Min(Watch!Seen) \in B
    BY <1>2, <1>3
  <2>4. B \subseteq Nat
    <3>1. \A j \in Watch!Seen : j \in Nat
      BY <1>1
    <3> QED BY <3>1
  <2> QED BY <2>2, <2>3, <2>4
<1>5. b \in B /\ \A j \in B : j <= b
  <2>1. b = Watch!Max(B)
    BY DEF Watch!Before
  <2> HIDE DEF B, b
  <2> QED BY <1>4, <2>1, WatchTop
<1> HIDE DEF b
<1>6. b \in Watch!Seen /\ b < i /\ b \in DOMAIN scrapes /\ i \in DOMAIN scrapes
  BY <1>2, <1>5 DEF Watch!Seen
<1>7. Follows(scrapes[b], scrapes[i].ts, scrapes[i].shrinks, scrapes[i].shrunk)
  BY <1>6 DEF WatchInv, ScrapesInOrder
<1>8. /\ scrapes[b].shrunk \in Nat /\ scrapes[i].shrunk \in Nat
      /\ scrapes[b].shrinks \in Nat /\ scrapes[i].shrinks \in Nat
  BY <1>6, ScrapesAre
<1>9. scrapes[b].shrinks > 0
  BY <1>6 DEF Watch!Seen
<1>10. gates = 1 => scrapes[b].shrunk + 1 <= scrapes[i].shrunk
  BY <1>2, <1>7, <1>8, <1>9 DEF Follows, b
<1> QED BY <1>5, <1>6, <1>10 DEF b

\* As many shrinks of one gate as rises, since the scrape before the first of them.
LEMMA RisesAreShrinks ==
  ASSUME WatchInv, gates = 1, NEW i \in DOMAIN scrapes, NEW R, R \subseteq Watch!Rises, R # {},
         IsFiniteSet(R), \A j \in R : j <= i
  PROVE  Cardinality(R) <= scrapes[i].shrunk - scrapes[Watch!Before(Watch!Min(R))].shrunk
<1> DEFINE Holds(s) ==
             Cardinality(s) <= scrapes[i].shrunk - scrapes[Watch!Before(Watch!Min(s))].shrunk
           B == {s \in SUBSET R : s # {} /\ ~Holds(s)}
<1> SUFFICES ASSUME B # {} PROVE FALSE
  OBVIOUS
<1>1. PICK s \in B : \A t \in SUBSET s : t # s => t \notin B
  <2>1. \A s \in B : IsFiniteSet(s)
    BY FS_Subset
  <2> HIDE DEF B
  <2> QED BY <2>1, SmallestSet
<1>2. s \in SUBSET R /\ s # {} /\ ~Holds(s) /\ IsFiniteSet(s)
  BY <1>1, FS_Subset
<1>3. \A j \in s : j \in Watch!Rises /\ j \in DOMAIN scrapes /\ j \in Nat /\ j \in Watch!Seen
  <2> TAKE j \in s
  <2>1. j \in Watch!Rises
    BY <1>2
  <2> QED BY <2>1, BeforeIs, ScrapesAre DEF Watch!Rises
<1> DEFINE m == Watch!Min(s)
           b == Watch!Before(m)
           t == s \ {m}
<1>4. m \in s /\ \A j \in s : m <= j
  <2>1. s \subseteq Nat
    BY <1>3
  <2> QED BY <1>2, <2>1, WatchBottom
<1> HIDE DEF m
<1>5. /\ b \in DOMAIN scrapes /\ scrapes[b].shrunk + 1 <= scrapes[m].shrunk
  BY <1>3, <1>4, BeforeIs
<1>6. /\ scrapes[b].shrunk \in Nat /\ scrapes[m].shrunk \in Nat /\ scrapes[i].shrunk \in Nat
      /\ scrapes[m].shrunk <= scrapes[i].shrunk
  BY <1>2, <1>3, <1>4, <1>5, ScrapesAre
<1>7. Cardinality(t) = Cardinality(s) - 1 /\ Cardinality(s) \in Nat
  BY <1>2, <1>4, FS_RemoveElement, FS_CardinalityType
<1>8. CASE t = {}
  <2>1. Cardinality(s) = 1
    <3>1. Cardinality(t) = 0
      BY <1>8, FS_EmptySet
    <3> HIDE DEF t
    <3> QED BY <1>7, <3>1
  <2>2. Holds(s)
    BY <1>5, <1>6, <2>1 DEF m
  <2> QED BY <1>2, <2>2
<1>9. CASE t # {}
  <2> DEFINE q == Watch!Min(t)
             c == Watch!Before(q)
  <2>1. q \in t
    <3>1. t \subseteq Nat
      BY <1>3
    <3> HIDE DEF t
    <3> QED BY <1>9, <3>1, WatchBottom
  <2> HIDE DEF q
  <2>2. q \in Watch!Rises /\ m < q
    <3>1. q \in s /\ q # m /\ m <= q /\ q \in Nat /\ m \in Nat
      BY <1>3, <1>4, <2>1
    <3> QED BY <1>3, <3>1
  <2>3. m <= c /\ c \in DOMAIN scrapes
    BY <1>3, <1>4, <2>2, BeforeIs
  <2>4. scrapes[m].shrunk <= scrapes[c].shrunk /\ scrapes[c].shrunk \in Nat
    BY <1>3, <1>4, <2>3, ScrapesAre
  <2>5. Holds(t)
    <3>1. t \in SUBSET s /\ t # s /\ t \in SUBSET R
      BY <1>2, <1>4
    <3>2. t \notin B
      BY <1>1, <3>1
    <3> HIDE DEF Holds, t
    <3> QED BY <1>9, <3>1, <3>2
  <2>6. Cardinality(t) <= scrapes[i].shrunk - scrapes[c].shrunk
    BY <2>5 DEF q
  <2> HIDE DEF t, c, b
  <2>7. Cardinality(s) <= scrapes[i].shrunk - scrapes[b].shrunk
    BY <1>5, <1>6, <1>7, <2>4, <2>6
  <2> QED BY <1>2, <2>7 DEF b, m
<1> QED BY <1>8, <1>9

-----------------------------------------------------------------------------
(* The folds of the rules, scrape by scrape. *)

Ids == [i \in 1..Len(scrapes) |-> i]

ScrapeFold(g, base, step) ==
  \A s \in SUBSET DOMAIN scrapes :
    g[s] = IF s = {} THEN base ELSE step[<<g[s \ {Watch!Max(s)}], Watch!Max(s)>>]

\* A rule's fold is there, and ends where its steps lead; "step" is the rule's, of the values
\* A it goes through.
LEMMA FoldRuns ==
  ASSUME WatchInv, NEW A, NEW base \in A,
         NEW step, \A a \in A, i \in DOMAIN scrapes : step[<<a, i>>] \in A
  PROVE  \E g \in [SUBSET DOMAIN scrapes -> A] : ScrapeFold(g, base, step)
<1> DEFINE S == DOMAIN scrapes
           top == [s \in SUBSET S |-> Watch!Max(s)]
<1>1. IsFiniteSet(S) /\ S \subseteq Nat
  <2>1. S = 1..Len(scrapes) /\ Len(scrapes) \in Nat
    BY ScrapesAre
  <2>2. IsFiniteSet(1..Len(scrapes))
    <3>1. 1 \in Int /\ Len(scrapes) \in Int
      BY <2>1
    <3> QED BY <3>1, FS_Interval, Zenon
  <2> HIDE DEF S
  <2> QED BY <2>1, <2>2
<1>2. \A s \in SUBSET S : s # {} => Watch!Max(s) \in s
  <2> HIDE DEF S
  <2> QED BY <1>1, FS_Subset, WatchTop
<1>3. \A s \in SUBSET S : s # {} => top[s] \in s
  BY <1>2
<1>4. PICK g \in [SUBSET S -> A] : FoldsTo(g, S, base, step, top)
  <2>1. \A a \in A, i \in S : step[<<a, i>>] \in A
    OBVIOUS
  <2> HIDE DEF S, top
  <2> QED BY <1>1, <1>3, <2>1, FoldExists
<1>5. \A s \in SUBSET S : top[s] = Watch!Max(s)
  OBVIOUS
<1> QED BY <1>4, <1>5 DEF FoldsTo, ScrapeFold

\* Prefixes of the scrapes, their last one taken away.
LEMMA Prefixes ==
  ASSUME WatchInv, NEW k \in DOMAIN scrapes
  PROVE  /\ k - 1 \in Nat /\ 1..k \in SUBSET DOMAIN scrapes /\ 1..k # {}
         /\ Watch!Max(1..k) = k /\ (1..k) \ {k} = 1..(k - 1) /\ Ids[k] = k
<1>1. k \in Nat /\ k >= 1 /\ k <= Len(scrapes) /\ Len(scrapes) \in Nat /\ DOMAIN scrapes = 1..Len(scrapes)
  BY ScrapesAre
<1>2. Watch!Max(1..k) = k
  <2>1. k \in 1..k /\ \A y \in 1..k : k >= y
    BY <1>1
  <2>2. \A x \in 1..k : (\A y \in 1..k : x >= y) => x = k
    BY <1>1
  <2> QED BY <2>1, <2>2 DEF Watch!Max
<1> QED BY <1>1, <1>2 DEF Ids

\* _collect_pin_runs.
PinStep(acc, i) ==
  IF Watch!AtFloor(i) /\ acc.open = 0 THEN [acc EXCEPT !.open = i]
  ELSE IF Watch!Above(i) /\ acc.open # 0
  THEN [open |-> 0, closed |-> acc.closed \cup {<<scrapes[acc.open].ts, scrapes[i].ts>>}]
  ELSE acc
PinBase == [open |-> 0, closed |-> {}]
PinFold(g) ==
  [s \in SUBSET DOMAIN Ids |->
     IF s = {} THEN PinBase ELSE PinStep(g[s \ {Watch!Max(s)}], Ids[Watch!Max(s)])]
PinEnd == (CHOOSE g : g = PinFold(g))[DOMAIN Ids]

LEMMA PinRunsAre ==
  Watch!PinRuns =
    IF PinEnd.open = 0 THEN PinEnd.closed
    ELSE PinEnd.closed \cup {<<scrapes[PinEnd.open].ts, Watch!Last(scrapes).ts>>}
BY DEF Watch!PinRuns, PinEnd, PinFold, PinStep, PinBase, Ids, Watch!FoldLeft, Watch!MapThenFoldSet

\* _rule_rate.
RateStep(fired, i) ==
  IF /\ i \in Watch!Seen /\ Watch!Cardinality(Watch!InWindow(i)) >= Threshold
     /\ fired # {} => scrapes[i].ts - scrapes[Watch!Max(fired)].ts >= WatchCooldown
  THEN fired \cup {i} ELSE fired
RateFold(g) ==
  [s \in SUBSET DOMAIN Ids |->
     IF s = {} THEN {} ELSE RateStep(g[s \ {Watch!Max(s)}], Ids[Watch!Max(s)])]
RateEnd == (CHOOSE g : g = RateFold(g))[DOMAIN Ids]

LEMMA RateAlertsAre == Watch!RateAlerts = RateEnd
BY DEF Watch!RateAlerts, RateEnd, RateFold, RateStep, Ids, Watch!FoldLeft, Watch!MapThenFoldSet

PinValues == [open : {0} \cup DOMAIN scrapes, closed : SUBSET (Nat \X Nat)]

LEMMA PinStepTyped ==
  ASSUME WatchInv, NEW acc \in PinValues, NEW i \in DOMAIN scrapes
  PROVE  PinStep(acc, i) \in PinValues
<1>1. acc.open \in {0} \cup DOMAIN scrapes /\ acc.closed \in SUBSET (Nat \X Nat)
  BY DEF PinValues
<1>2. scrapes[i].ts \in Nat
  BY ScrapesAre
<1>3. acc.open # 0 => scrapes[acc.open].ts \in Nat
  BY <1>1, ScrapesAre
<1>4. acc.open # 0 =>
        [open |-> 0, closed |-> acc.closed \cup {<<scrapes[acc.open].ts, scrapes[i].ts>>}] \in PinValues
  BY <1>1, <1>2, <1>3 DEF PinValues
<1>5. [acc EXCEPT !.open = i] \in PinValues
  BY DEF PinValues
<1> QED BY <1>4, <1>5 DEF PinStep

LEMMA PinSteps ==
  ASSUME WatchInv
  PROVE  \E at \in [0..Len(scrapes) -> PinValues] :
           /\ at[0] = PinBase
           /\ \A k \in DOMAIN scrapes : at[k] = PinStep(at[k - 1], k)
           /\ PinEnd = at[Len(scrapes)]
<1> DEFINE S == DOMAIN scrapes
           n == Len(scrapes)
           step == [p \in PinValues \X S |-> PinStep(p[1], p[2])]
<1>1. S = 1..n /\ n \in Nat /\ DOMAIN Ids = S /\ \A i \in S : Ids[i] = i
  BY ScrapesAre DEF Ids
<1>2. \A a \in PinValues, i \in S : step[<<a, i>>] = PinStep(a, i) /\ step[<<a, i>>] \in PinValues
  BY PinStepTyped
<1>3. PinBase \in PinValues
  BY DEF PinBase, PinValues
<1>4. \E g : g = PinFold(g)
  <2>1. PICK g \in [SUBSET S -> PinValues] : ScrapeFold(g, PinBase, step)
    <3> HIDE DEF step
    <3> QED BY <1>2, <1>3, FoldRuns
  <2>2. \A s \in SUBSET S :
          g[s] = IF s = {} THEN PinBase ELSE step[<<g[s \ {Watch!Max(s)}], Watch!Max(s)>>]
    <3> HIDE DEF step
    <3> QED BY <2>1 DEF ScrapeFold
  <2>3. \A s \in SUBSET S : s # {} => Watch!Max(s) \in s
    <3>1. IsFiniteSet(1..n)
      BY <1>1, FS_Interval
    <3>2. \A s \in SUBSET S : IsFiniteSet(s) /\ s \subseteq Nat
      BY <1>1, <3>1, FS_Subset
    <3> QED BY <3>2, WatchTop
  <2>4. \A s \in SUBSET S :
          g[s] = IF s = {} THEN PinBase ELSE PinStep(g[s \ {Watch!Max(s)}], Ids[Watch!Max(s)])
    <3> TAKE s \in SUBSET S
    <3>1. CASE s = {}
      BY <2>2, <3>1
    <3>2. CASE s # {}
      <4> DEFINE m == Watch!Max(s)
                 t == s \ {m}
      <4>1. m \in S /\ t \in SUBSET S /\ g[t] \in PinValues /\ Ids[m] = m
        BY <1>1, <2>1, <2>3, <3>2
      <4>2. g[s] = step[<<g[t], m>>]
        BY <2>2, <3>2
      <4> HIDE DEF m, t, step
      <4>3. step[<<g[t], m>>] = PinStep(g[t], Ids[m])
        BY <1>2, <4>1
      <4> QED BY <3>2, <4>2, <4>3 DEF m, t
    <3> QED BY <3>1, <3>2
  <2>5. g = PinFold(g)
    BY <1>1, <2>1, <2>4 DEF PinFold
  <2> QED BY <2>5
<1> DEFINE g == CHOOSE g : g = PinFold(g)
           at == [k \in 0..n |-> g[1..k]]
<1>5. g = PinFold(g)
  BY <1>4
<1> HIDE DEF g
<1>6. at[0] = PinBase
  <2>1. 1..0 = {}
    OBVIOUS
  <2>2. PinFold(g)[{}] = PinBase
    BY DEF PinFold
  <2> QED BY <1>1, <1>5, <2>1, <2>2
<1>7. \A k \in S : at[k] = PinStep(at[k - 1], k)
  <2> TAKE k \in S
  <2>1. /\ k - 1 \in Nat /\ 1..k \in SUBSET S /\ 1..k # {}
        /\ Watch!Max(1..k) = k /\ (1..k) \ {k} = 1..(k - 1) /\ Ids[k] = k
    BY Prefixes
  <2>2. PinFold(g)[1..k] = PinStep(g[(1..k) \ {Watch!Max(1..k)}], Ids[Watch!Max(1..k)])
    BY <1>1, <2>1 DEF PinFold
  <2>3. g[1..k] = PinStep(g[1..(k - 1)], k)
    BY <1>5, <2>1, <2>2
  <2>4. at[k] = g[1..k] /\ at[k - 1] = g[1..(k - 1)]
    BY <1>1, <2>1
  <2> QED BY <2>3, <2>4
<1>8. PinEnd = at[n]
  BY <1>1 DEF PinEnd, g
<1>9. \A k \in 0..n : at[k] \in PinValues
  <2> DEFINE B == {k \in 0..n : at[k] \notin PinValues}
  <2> HIDE DEF at
  <2> SUFFICES ASSUME B # {} PROVE FALSE
    OBVIOUS
  <2>1. PICK k \in B : \A j \in B : k <= j
    <3>1. B \subseteq Nat
      OBVIOUS
    <3> HIDE DEF B
    <3> QED BY <3>1, LeastIsThere
  <2>2. k # 0
    BY <1>3, <1>6, <2>1
  <2>3. k \in S /\ k - 1 \in 0..n /\ ~(k <= k - 1)
    BY <1>1, <2>1, <2>2
  <2>4. at[k - 1] \in PinValues
    BY <2>1, <2>3
  <2>5. at[k] = PinStep(at[k - 1], k)
    BY <1>7, <2>3
  <2>6. at[k] \in PinValues
    BY <2>3, <2>4, <2>5, PinStepTyped
  <2> QED BY <2>1, <2>6
<1>10. at \in [0..n -> PinValues]
  BY <1>9
<1> QED BY <1>6, <1>7, <1>8, <1>10

\* A run begins at i and is ended by e; the times of the runs ended by scrape k.
Starts(i) ==
  Watch!AtFloor(i) /\ \A j \in 1..i - 1 : Watch!AtFloor(j) => \E m \in j..i : Watch!Above(m)
RunTo(i, e) == Starts(i) /\ i < e /\ Watch!Above(e) /\ \A m \in i..e - 1 : ~Watch!Above(m)
Spans(i, e) == <<scrapes[i].ts, scrapes[e].ts>>
Ended(k) ==
  {r \in Nat \X Nat :
     \E i, e \in DOMAIN scrapes : e <= k /\ RunTo(i, e) /\ r = Spans(i, e)}
PinHolds(acc, k) ==
  /\ acc.open = 0 => \A j \in 1..k : Watch!AtFloor(j) => \E m \in j..k : Watch!Above(m)
  /\ acc.open # 0 => /\ acc.open \in 1..k /\ Starts(acc.open)
                     /\ \A m \in acc.open..k : ~Watch!Above(m)
  /\ acc.closed = Ended(k)

LEMMA OneRun ==
  ASSUME NEW i \in Nat \ {0}, NEW j \in Nat, NEW e \in Nat, Starts(i), Starts(j), i < j, j <= e,
         \A m \in i..e : ~Watch!Above(m)
  PROVE  FALSE
<1>1. i \in 1..j - 1
  OBVIOUS
<1>2. PICK m \in i..j : Watch!Above(m)
  BY <1>1 DEF Starts
<1>3. m \in i..e
  OBVIOUS
<1> QED BY <1>2, <1>3

LEMMA PinStepHolds ==
  ASSUME WatchInv, WatchParameters, NEW acc \in PinValues, NEW k \in DOMAIN scrapes,
         PinHolds(acc, k - 1)
  PROVE  PinHolds(PinStep(acc, k), k)
<1> DEFINE S == DOMAIN scrapes
<1>1. S = 1..Len(scrapes) /\ Len(scrapes) \in Nat /\ k \in Nat /\ k >= 1
  BY ScrapesAre
<1>2. \A i \in S : ~(Watch!AtFloor(i) /\ Watch!Above(i))
  <2> TAKE i \in S
  <2>1. scrapes[i].ceiling \in Nat /\ Floor \in Nat
    BY ScrapesAre DEF WatchParameters
  <2> QED BY <2>1 DEF Watch!AtFloor, Watch!Above
<1>3. (\A i \in S : ~RunTo(i, k)) => Ended(k) = Ended(k - 1)
  <2> SUFFICES ASSUME \A i \in S : ~RunTo(i, k) PROVE Ended(k) = Ended(k - 1)
    OBVIOUS
  <2>1. ASSUME NEW i \in S, NEW e \in S, RunTo(i, e) PROVE e <= k <=> e <= k - 1
    <3>1. e # k
      BY <2>1
    <3> QED BY <1>1, <3>1
  <2> QED BY <2>1 DEF Ended
<1>4. CASE Watch!AtFloor(k) /\ acc.open = 0
  <2>1. PinStep(acc, k) = [acc EXCEPT !.open = k]
    BY <1>4 DEF PinStep
  <2>2. PinStep(acc, k).open = k /\ PinStep(acc, k).closed = acc.closed
    BY <2>1 DEF PinValues
  <2>3. Starts(k)
    <3> SUFFICES ASSUME NEW j \in 1..k - 1, Watch!AtFloor(j) PROVE \E m \in j..k : Watch!Above(m)
      BY <1>4 DEF Starts
    <3>1. PICK m \in j..k - 1 : Watch!Above(m)
      BY <1>4 DEF PinHolds
    <3>2. m \in j..k
      BY <1>1
    <3> QED BY <3>1, <3>2
  <2>4. \A m \in k..k : ~Watch!Above(m)
    BY <1>1, <1>2, <1>4
  <2>5. \A i \in S : ~RunTo(i, k)
    BY <1>2, <1>4 DEF RunTo
  <2>6. acc.closed = Ended(k)
    BY <1>3, <2>5 DEF PinHolds
  <2>7. k \in 1..k /\ k # 0
    BY <1>1
  <2> QED BY <2>2, <2>3, <2>4, <2>6, <2>7 DEF PinHolds
<1>5. CASE Watch!Above(k) /\ acc.open # 0
  <2> DEFINE o == acc.open
  <2>1. PinStep(acc, k) = [open |-> 0, closed |-> acc.closed \cup {Spans(o, k)}]
    BY <1>2, <1>5 DEF PinStep, Spans
  <2>2. o \in 1..k - 1 /\ Starts(o) /\ \A m \in o..k - 1 : ~Watch!Above(m)
    BY <1>5 DEF PinHolds
  <2>3. RunTo(o, k) /\ o \in S /\ Spans(o, k) \in Nat \X Nat
    <3>1. o < k /\ o \in S
      BY <1>1, <2>2
    <3>2. RunTo(o, k)
      BY <1>5, <2>2, <3>1 DEF RunTo
    <3>3. scrapes[o].ts \in Nat /\ scrapes[k].ts \in Nat
      BY <3>1, ScrapesAre
    <3> QED BY <3>1, <3>2, <3>3 DEF Spans
  <2>4. ASSUME NEW i \in S, RunTo(i, k) PROVE i = o
    <3>1. Starts(i) /\ i < k /\ \A m \in i..k - 1 : ~Watch!Above(m)
      BY <2>4 DEF RunTo
    <3>2. i \in Nat \ {0} /\ o \in Nat \ {0} /\ k - 1 \in Nat /\ i <= k - 1 /\ o <= k - 1
      BY <1>1, <2>2, <3>1
    <3> HIDE DEF o
    <3>3. ~(i < o) /\ ~(o < i)
      BY <2>2, <3>1, <3>2, OneRun
    <3> QED BY <3>2, <3>3
  <2>5. Ended(k) = Ended(k - 1) \cup {Spans(o, k)}
    <3> HIDE DEF o
    <3>1. ASSUME NEW i \in S, NEW e \in S, RunTo(i, e)
          PROVE  e <= k <=> e <= k - 1 \/ (i = o /\ e = k)
      <4>1. e = k => i = o
        BY <2>4, <3>1
      <4> QED BY <1>1, <4>1
    <3>2. k <= k
      BY <1>1
    <3>3. Ended(k) \subseteq Ended(k - 1) \cup {Spans(o, k)}
      BY <3>1 DEF Ended
    <3>4. Ended(k - 1) \subseteq Ended(k)
      BY <3>1 DEF Ended
    <3>5. Spans(o, k) \in Ended(k)
      BY <2>3, <3>2 DEF Ended
    <3> QED BY <3>3, <3>4, <3>5
  <2>6. acc.closed \cup {Spans(o, k)} = Ended(k)
    <3> HIDE DEF o
    <3> QED BY <2>5 DEF PinHolds
  <2>7. \A j \in 1..k : \E m \in j..k : Watch!Above(m)
    <3> TAKE j \in 1..k
    <3>1. k \in j..k
      BY <1>1
    <3> QED BY <1>5, <3>1
  <2>8. PinStep(acc, k).open = 0
        /\ PinStep(acc, k).closed = acc.closed \cup {Spans(o, k)}
    BY <2>1
  <2> QED BY <2>6, <2>7, <2>8 DEF PinHolds
<1>6. CASE acc.open = 0 /\ ~Watch!AtFloor(k)
  <2>1. PinStep(acc, k) = acc
    BY <1>6 DEF PinStep
  <2>2. ASSUME NEW j \in 1..k, Watch!AtFloor(j) PROVE \E m \in j..k : Watch!Above(m)
    <3>1. j \in 1..k - 1
      BY <1>1, <1>6, <2>2
    <3>2. PICK m \in j..k - 1 : Watch!Above(m)
      BY <1>6, <2>2, <3>1 DEF PinHolds
    <3>3. m \in j..k
      BY <1>1
    <3> QED BY <3>2, <3>3
  <2>3. \A i \in S : ~RunTo(i, k)
    <3> SUFFICES ASSUME NEW i \in S, RunTo(i, k) PROVE FALSE
      OBVIOUS
    <3>1. Watch!AtFloor(i) /\ i < k /\ \A m \in i..k - 1 : ~Watch!Above(m)
      BY DEF RunTo, Starts
    <3>2. i \in 1..k - 1
      BY <1>1, <3>1
    <3> QED BY <1>6, <3>1, <3>2 DEF PinHolds
  <2>4. acc.closed = Ended(k)
    BY <1>3, <2>3 DEF PinHolds
  <2> QED BY <1>6, <2>1, <2>2, <2>4 DEF PinHolds
<1>7. CASE acc.open # 0 /\ ~Watch!Above(k)
  <2>1. PinStep(acc, k) = acc
    BY <1>7 DEF PinStep
  <2>2. acc.open \in 1..k - 1 /\ Starts(acc.open) /\ \A m \in acc.open..k - 1 : ~Watch!Above(m)
    BY <1>7 DEF PinHolds
  <2>3. acc.open \in 1..k /\ \A m \in acc.open..k : ~Watch!Above(m)
    <3>1. \A m \in acc.open..k : m \in acc.open..k - 1 \/ m = k
      BY <1>1, <2>2
    <3> QED BY <1>1, <1>7, <2>2, <3>1
  <2>4. \A i \in S : ~RunTo(i, k)
    BY <1>7 DEF RunTo
  <2>5. acc.closed = Ended(k)
    BY <1>3, <2>4 DEF PinHolds
  <2> QED BY <1>7, <2>1, <2>2, <2>3, <2>5 DEF PinHolds
<1> QED BY <1>4, <1>5, <1>6, <1>7

LEMMA PinEndHolds ==
  ASSUME WatchInv, WatchParameters
  PROVE  PinEnd \in PinValues /\ PinHolds(PinEnd, Len(scrapes))
<1> DEFINE n == Len(scrapes)
<1>1. n \in Nat /\ DOMAIN scrapes = 1..n
  BY ScrapesAre
<1>2. PICK at \in [0..n -> PinValues] :
        /\ at[0] = PinBase
        /\ \A k \in DOMAIN scrapes : at[k] = PinStep(at[k - 1], k)
        /\ PinEnd = at[n]
  BY PinSteps
<1> DEFINE B == {k \in 0..n : ~PinHolds(at[k], k)}
<1>3. B = {}
  <2> SUFFICES ASSUME B # {} PROVE FALSE
    OBVIOUS
  <2>1. PICK k \in B : \A j \in B : k <= j
    <3>1. B \subseteq Nat
      OBVIOUS
    <3> HIDE DEF B
    <3> QED BY <3>1, LeastIsThere
  <2>2. k \in 0..n /\ ~PinHolds(at[k], k)
    BY <2>1
  <2>3. CASE k = 0
    <3>1. at[0].open = 0 /\ at[0].closed = {}
      BY <1>2 DEF PinBase
    <3>2. Ended(0) = {}
      BY <1>1 DEF Ended
    <3>3. PinHolds(at[0], 0)
      BY <3>1, <3>2 DEF PinHolds
    <3> QED BY <2>2, <2>3, <3>3
  <2>4. CASE k # 0
    <3>1. k \in DOMAIN scrapes /\ k - 1 \in 0..n /\ ~(k <= k - 1)
      BY <1>1, <2>2, <2>4
    <3>2. PinHolds(at[k - 1], k - 1) /\ at[k - 1] \in PinValues
      BY <1>2, <2>1, <3>1
    <3>3. PinHolds(PinStep(at[k - 1], k), k)
      BY <3>1, <3>2, PinStepHolds
    <3> QED BY <1>2, <2>2, <3>1, <3>3
  <2> QED BY <2>3, <2>4
<1>4. n \in 0..n /\ n \notin B
  BY <1>1, <1>3
<1> QED BY <1>2, <1>4

LEMMA PinsHold == ASSUME WatchInv, WatchParameters PROVE Watch!PinsAreSustained
<1> DEFINE n == Len(scrapes)
           S == DOMAIN scrapes
           o == PinEnd.open
           last == Watch!Last(scrapes).ts
           Sustained(i) ==
             /\ Watch!AtFloor(i)
             /\ \A j \in 1..i - 1 : Watch!AtFloor(j) => \E k \in j..i : Watch!Above(k)
             /\ last - scrapes[i].ts >= PinDwell
             /\ \A j \in i..n : scrapes[j].ts < scrapes[i].ts + PinDwell => ~Watch!Above(j)
<1>1. n \in Nat /\ S = 1..n /\ PinDwell \in Nat /\ \A i \in S : scrapes[i].ts \in Nat
  BY ScrapesAre DEF WatchParameters
<1>2. \A i, j \in S : i <= j => scrapes[i].ts <= scrapes[j].ts
  BY ScrapesAre
<1>3. \A i \in S : last = scrapes[n].ts /\ n \in S /\ i <= n /\ scrapes[i].ts <= last /\ last \in Nat
  <2> TAKE i \in S
  <2>1. n \in S /\ i <= n
    BY <1>1
  <2>2. last = scrapes[n].ts
    BY DEF Watch!Last
  <2> QED BY <1>1, <1>2, <2>1, <2>2
<1>4. /\ PinEnd.closed = Ended(n)
      /\ o = 0 => \A j \in 1..n : Watch!AtFloor(j) => \E m \in j..n : Watch!Above(m)
      /\ o # 0 => o \in 1..n /\ Starts(o) /\ \A m \in o..n : ~Watch!Above(m)
  BY PinEndHolds DEF PinHolds
<1>5. \A r : r \in Watch!PinRuns <=> r \in Ended(n) \/ (o # 0 /\ r = <<scrapes[o].ts, last>>)
  BY <1>4, PinRunsAre
<1>6. \A i \in S : Sustained(i) <=>
        /\ Starts(i) /\ last - scrapes[i].ts >= PinDwell
        /\ \A j \in i..n : scrapes[j].ts < scrapes[i].ts + PinDwell => ~Watch!Above(j)
  BY DEF Starts
<1> HIDE DEF last, o, Sustained
<1>7. ASSUME NEW r \in Watch!PinRuns, r[2] - r[1] >= PinDwell
      PROVE  \E i \in S : Sustained(i) /\ r[1] = scrapes[i].ts
  <2>1. CASE r \in Ended(n)
    <3>1. PICK i \in S, e \in S : RunTo(i, e) /\ r = Spans(i, e)
      BY <2>1 DEF Ended
    <3>2. r[1] = scrapes[i].ts /\ r[2] = scrapes[e].ts
      BY <3>1 DEF Spans
    <3>3. Starts(i) /\ i < e /\ \A m \in i..e - 1 : ~Watch!Above(m)
      BY <3>1 DEF RunTo
    <3>4. last - scrapes[i].ts >= PinDwell
      <4>1. /\ scrapes[e].ts <= last /\ last \in Nat /\ scrapes[e].ts \in Nat
            /\ scrapes[i].ts \in Nat /\ scrapes[e].ts - scrapes[i].ts >= PinDwell
        BY <1>1, <1>3, <1>7, <3>2
      <4> QED BY <1>1, <4>1
    <3>5. ASSUME NEW j \in i..n, scrapes[j].ts < scrapes[i].ts + PinDwell PROVE ~Watch!Above(j)
      <4>1. j \in S
        BY <1>1
      <4>2. /\ scrapes[j].ts \in Nat /\ scrapes[e].ts \in Nat /\ scrapes[i].ts \in Nat
            /\ scrapes[e].ts - scrapes[i].ts >= PinDwell
        BY <1>1, <1>7, <3>2, <4>1
      <4>3. ~(scrapes[e].ts <= scrapes[j].ts)
        BY <1>1, <3>5, <4>2
      <4>4. ~(e <= j)
        BY <1>2, <4>1, <4>3
      <4>5. j \in i..e - 1
        BY <1>1, <4>1, <4>4
      <4> QED BY <3>3, <4>5
    <3>6. Sustained(i)
      BY <1>6, <3>3, <3>4, <3>5
    <3> QED BY <3>2, <3>6
  <2>2. CASE r \notin Ended(n)
    <3>1. o # 0 /\ r = <<scrapes[o].ts, last>>
      BY <1>5, <2>2
    <3>2. o \in S /\ Starts(o) /\ \A m \in o..n : ~Watch!Above(m)
      BY <1>1, <1>4, <3>1
    <3>3. r[1] = scrapes[o].ts /\ r[2] = last
      BY <3>1
    <3>4. Sustained(o)
      BY <1>6, <1>7, <3>2, <3>3
    <3> QED BY <3>2, <3>3, <3>4
  <2> QED BY <2>1, <2>2
<1>8. ASSUME NEW i \in S, Sustained(i)
      PROVE  \E r \in Watch!PinRuns : r[2] - r[1] >= PinDwell /\ r[1] = scrapes[i].ts
  <2>1. /\ Starts(i) /\ last - scrapes[i].ts >= PinDwell
        /\ \A j \in i..n : scrapes[j].ts < scrapes[i].ts + PinDwell => ~Watch!Above(j)
    BY <1>6, <1>8
  <2> DEFINE A == {e \in i..n : Watch!Above(e)}
  <2>2. i \in Nat /\ i >= 1 /\ i <= n
    BY <1>1
  <2>3. CASE A # {}
    <3>1. PICK e \in A : \A m \in A : e <= m
      <4>1. A \subseteq Nat
        BY <2>2
      <4> HIDE DEF A
      <4> QED BY <2>3, <4>1, LeastIsThere
    <3>2. e \in i..n /\ e \in S /\ Watch!Above(e)
      BY <1>1, <3>1
    <3>3. \A m \in i..e - 1 : ~Watch!Above(m)
      <4> SUFFICES ASSUME NEW m \in i..e - 1, Watch!Above(m) PROVE FALSE
        OBVIOUS
      <4>1. m \in A /\ ~(e <= m)
        BY <1>1, <2>2, <3>2
      <4> QED BY <3>1, <4>1
    <3>4. ~(scrapes[e].ts < scrapes[i].ts + PinDwell)
      BY <2>1, <3>2
    <3>5. scrapes[e].ts \in Nat /\ scrapes[i].ts \in Nat
      BY <1>1, <3>2
    <3>6. e # i
      <4>1. scrapes[i].ceiling \in Nat /\ Floor \in Nat
        BY ScrapesAre DEF WatchParameters
      <4> QED BY <2>1, <3>2, <4>1 DEF Starts, Watch!AtFloor, Watch!Above
    <3>7. i < e
      BY <2>2, <3>2, <3>6
    <3>8. RunTo(i, e)
      BY <2>1, <3>2, <3>3, <3>7 DEF RunTo
    <3>9. Spans(i, e) \in Ended(n)
      BY <1>1, <3>2, <3>5, <3>8 DEF Ended, Spans
    <3>10. Spans(i, e) \in Watch!PinRuns
      BY <1>5, <3>9
    <3>11. Spans(i, e)[1] = scrapes[i].ts /\ Spans(i, e)[2] = scrapes[e].ts
      BY DEF Spans
    <3>12. scrapes[e].ts - scrapes[i].ts >= PinDwell
      BY <1>1, <3>4, <3>5
    <3> QED BY <3>10, <3>11, <3>12
  <2>4. CASE A = {}
    <3>1. \A m \in i..n : ~Watch!Above(m)
      BY <2>4
    <3>2. o # 0
      BY <1>4, <2>1, <2>2, <3>1 DEF Starts
    <3>3. o \in 1..n /\ Starts(o) /\ \A m \in o..n : ~Watch!Above(m)
      BY <1>4, <3>2
    <3>4. o = i
      <4>1. o \in Nat \ {0} /\ i \in Nat \ {0} /\ o <= n /\ i <= n /\ n \in Nat
        BY <1>1, <2>2, <3>3
      <4>2. ~(i < o) /\ ~(o < i)
        BY <2>1, <3>1, <3>3, <4>1, OneRun
      <4> QED BY <4>1, <4>2
    <3>5. <<scrapes[o].ts, last>> \in Watch!PinRuns
      BY <1>5, <3>2
    <3> DEFINE r == <<scrapes[o].ts, last>>
    <3>6. r[1] = scrapes[i].ts /\ r[2] = last /\ r \in Watch!PinRuns
      BY <3>4, <3>5
    <3> HIDE DEF r
    <3> QED BY <2>1, <3>6
  <2> QED BY <2>3, <2>4
<1>9. Watch!PinAlerts = {scrapes[i].ts + PinDwell : i \in {i \in S : Sustained(i)}}
  <2>1. ASSUME NEW x \in Watch!PinAlerts
        PROVE  x \in {scrapes[i].ts + PinDwell : i \in {i \in S : Sustained(i)}}
    <3>1. PICK r \in Watch!PinRuns : r[2] - r[1] >= PinDwell /\ x = r[1] + PinDwell
      BY <2>1 DEF Watch!PinAlerts
    <3> QED BY <1>7, <3>1
  <2>2. ASSUME NEW i \in S, Sustained(i) PROVE scrapes[i].ts + PinDwell \in Watch!PinAlerts
    <3>1. PICK r \in Watch!PinRuns : r[2] - r[1] >= PinDwell /\ r[1] = scrapes[i].ts
      BY <1>8, <2>2
    <3>2. r[1] + PinDwell \in Watch!PinAlerts
      BY <3>1 DEF Watch!PinAlerts
    <3> QED BY <3>1, <3>2
  <2> QED BY <2>1, <2>2
<1> QED BY <1>9 DEF Watch!PinsAreSustained, Sustained, last

RateValues == SUBSET DOMAIN scrapes

LEMMA RateStepTyped ==
  ASSUME NEW acc \in RateValues, NEW i \in DOMAIN scrapes
  PROVE  RateStep(acc, i) \in RateValues
BY DEF RateStep, RateValues

LEMMA RateSteps ==
  ASSUME WatchInv
  PROVE  \E at \in [0..Len(scrapes) -> RateValues] :
           /\ at[0] = {}
           /\ \A k \in DOMAIN scrapes : at[k] = RateStep(at[k - 1], k)
           /\ RateEnd = at[Len(scrapes)]
<1> DEFINE S == DOMAIN scrapes
           n == Len(scrapes)
           step == [p \in RateValues \X S |-> RateStep(p[1], p[2])]
<1>1. S = 1..n /\ n \in Nat /\ DOMAIN Ids = S /\ \A i \in S : Ids[i] = i
  BY ScrapesAre DEF Ids
<1>2. \A a \in RateValues, i \in S : step[<<a, i>>] = RateStep(a, i) /\ step[<<a, i>>] \in RateValues
  BY RateStepTyped
<1>3. {} \in RateValues
  BY DEF RateValues
<1>4. \E g : g = RateFold(g)
  <2>1. PICK g \in [SUBSET S -> RateValues] : ScrapeFold(g, {}, step)
    <3> HIDE DEF step
    <3> QED BY <1>2, <1>3, FoldRuns
  <2>2. \A s \in SUBSET S :
          g[s] = IF s = {} THEN {} ELSE step[<<g[s \ {Watch!Max(s)}], Watch!Max(s)>>]
    <3> HIDE DEF step
    <3> QED BY <2>1 DEF ScrapeFold
  <2>3. \A s \in SUBSET S : s # {} => Watch!Max(s) \in s
    <3>1. IsFiniteSet(1..n)
      BY <1>1, FS_Interval
    <3>2. \A s \in SUBSET S : IsFiniteSet(s) /\ s \subseteq Nat
      BY <1>1, <3>1, FS_Subset
    <3> QED BY <3>2, WatchTop
  <2>4. \A s \in SUBSET S :
          g[s] = IF s = {} THEN {} ELSE RateStep(g[s \ {Watch!Max(s)}], Ids[Watch!Max(s)])
    <3> TAKE s \in SUBSET S
    <3>1. CASE s = {}
      BY <2>2, <3>1
    <3>2. CASE s # {}
      <4> DEFINE m == Watch!Max(s)
                 t == s \ {m}
      <4>1. m \in S /\ t \in SUBSET S /\ g[t] \in RateValues /\ Ids[m] = m
        BY <1>1, <2>1, <2>3, <3>2
      <4>2. g[s] = step[<<g[t], m>>]
        BY <2>2, <3>2
      <4> HIDE DEF m, t, step
      <4>3. step[<<g[t], m>>] = RateStep(g[t], Ids[m])
        BY <1>2, <4>1
      <4> QED BY <3>2, <4>2, <4>3 DEF m, t
    <3> QED BY <3>1, <3>2
  <2>5. g = RateFold(g)
    BY <1>1, <2>1, <2>4 DEF RateFold
  <2> QED BY <2>5
<1> DEFINE g == CHOOSE g : g = RateFold(g)
           at == [k \in 0..n |-> g[1..k]]
<1>5. g = RateFold(g)
  BY <1>4
<1> HIDE DEF g
<1>6. at[0] = {}
  <2>1. 1..0 = {}
    OBVIOUS
  <2>2. RateFold(g)[{}] = {}
    BY DEF RateFold
  <2> QED BY <1>1, <1>5, <2>1, <2>2
<1>7. \A k \in S : at[k] = RateStep(at[k - 1], k)
  <2> TAKE k \in S
  <2>1. /\ k - 1 \in Nat /\ 1..k \in SUBSET S /\ 1..k # {}
        /\ Watch!Max(1..k) = k /\ (1..k) \ {k} = 1..(k - 1) /\ Ids[k] = k
    BY Prefixes
  <2>2. RateFold(g)[1..k] = RateStep(g[(1..k) \ {Watch!Max(1..k)}], Ids[Watch!Max(1..k)])
    BY <1>1, <2>1 DEF RateFold
  <2>3. g[1..k] = RateStep(g[1..(k - 1)], k)
    BY <1>5, <2>1, <2>2
  <2>4. at[k] = g[1..k] /\ at[k - 1] = g[1..(k - 1)]
    BY <1>1, <2>1
  <2> QED BY <2>3, <2>4
<1>8. RateEnd = at[n]
  BY <1>1 DEF RateEnd, g
<1>9. \A k \in 0..n : at[k] \in RateValues
  <2> DEFINE B == {k \in 0..n : at[k] \notin RateValues}
  <2> HIDE DEF at
  <2> SUFFICES ASSUME B # {} PROVE FALSE
    OBVIOUS
  <2>1. PICK k \in B : \A j \in B : k <= j
    <3>1. B \subseteq Nat
      OBVIOUS
    <3> HIDE DEF B
    <3> QED BY <3>1, LeastIsThere
  <2>2. k # 0
    BY <1>3, <1>6, <2>1
  <2>3. k \in S /\ k - 1 \in 0..n /\ ~(k <= k - 1)
    BY <1>1, <2>1, <2>2
  <2>4. at[k - 1] \in RateValues
    BY <2>1, <2>3
  <2>5. at[k] = RateStep(at[k - 1], k)
    BY <1>7, <2>3
  <2>6. at[k] \in RateValues
    BY <2>3, <2>4, <2>5, RateStepTyped
  <2> QED BY <2>1, <2>6
<1>10. at \in [0..n -> RateValues]
  BY <1>9
<1> QED BY <1>6, <1>7, <1>8, <1>10

RateHolds(fired, k) ==
  /\ fired \subseteq 1..k
  /\ \A i \in fired : i \in Watch!Seen /\ Watch!Cardinality(Watch!InWindow(i)) >= Threshold
  /\ \A i, j \in fired : i < j => scrapes[j].ts - scrapes[i].ts >= WatchCooldown

LEMMA RateStepHolds ==
  ASSUME WatchInv, WatchParameters, NEW fired \in RateValues, NEW k \in DOMAIN scrapes,
         RateHolds(fired, k - 1)
  PROVE  RateHolds(RateStep(fired, k), k)
<1> DEFINE Fires == /\ k \in Watch!Seen /\ Watch!Cardinality(Watch!InWindow(k)) >= Threshold
                    /\ fired # {} => scrapes[k].ts - scrapes[Watch!Max(fired)].ts >= WatchCooldown
<1>1. k \in Nat /\ DOMAIN scrapes = 1..Len(scrapes) /\ Len(scrapes) \in Nat /\ WatchCooldown \in Nat
      /\ \A i \in DOMAIN scrapes : scrapes[i].ts \in Nat
  BY ScrapesAre DEF WatchParameters
<1>2. /\ fired \subseteq 1..k - 1 /\ fired \subseteq 1..k /\ fired \subseteq DOMAIN scrapes
      /\ k \notin fired
  BY <1>1 DEF RateHolds
<1>3. /\ \A i \in fired : i \in Watch!Seen /\ Watch!Cardinality(Watch!InWindow(i)) >= Threshold
      /\ \A i, j \in fired : i < j => scrapes[j].ts - scrapes[i].ts >= WatchCooldown
  BY DEF RateHolds
<1>4. CASE ~Fires
  <2>1. RateStep(fired, k) = fired
    BY <1>4 DEF RateStep
  <2> QED BY <1>2, <1>3, <2>1 DEF RateHolds
<1>5. CASE Fires
  <2>1. RateStep(fired, k) = fired \cup {k}
    BY <1>5 DEF RateStep
  <2>2. fired \cup {k} \subseteq 1..k
    <3>1. k \in 1..k
      BY <1>1
    <3> QED BY <1>2, <3>1
  <2>3. \A i \in fired \cup {k} :
          i \in Watch!Seen /\ Watch!Cardinality(Watch!InWindow(i)) >= Threshold
    BY <1>3, <1>5
  <2>4. ASSUME NEW i \in fired PROVE scrapes[k].ts - scrapes[i].ts >= WatchCooldown
    <3> DEFINE m == Watch!Max(fired)
    <3>1. m \in fired /\ i <= m
      <4>1. IsFiniteSet(1..k)
        BY <1>1, FS_Interval
      <4>2. IsFiniteSet(fired)
        BY <1>2, <4>1, FS_Subset
      <4>3. fired \subseteq Nat
        BY <1>1, <1>2
      <4> QED BY <4>2, <4>3, WatchTop
    <3>2. scrapes[k].ts - scrapes[m].ts >= WatchCooldown
      BY <1>5, <2>4
    <3> HIDE DEF m
    <3>3. scrapes[i].ts <= scrapes[m].ts
      BY <1>2, <3>1, ScrapesAre
    <3>4. scrapes[i].ts \in Nat /\ scrapes[m].ts \in Nat /\ scrapes[k].ts \in Nat
      BY <1>1, <1>2, <3>1
    <3> QED BY <1>1, <3>2, <3>3, <3>4
  <2>5. ASSUME NEW i \in fired \cup {k}, NEW j \in fired \cup {k}, i < j
        PROVE  scrapes[j].ts - scrapes[i].ts >= WatchCooldown
    <3>1. i # k
      <4>1. j \in 1..k /\ k \in Nat
        BY <1>1, <2>2
      <4> QED BY <2>5, <4>1
    <3>2. CASE j = k
      BY <2>4, <2>5, <3>1, <3>2
    <3>3. CASE j # k
      BY <1>3, <2>5, <3>1, <3>3
    <3> QED BY <3>2, <3>3
  <2> HIDE DEF Fires
  <2> QED BY <2>1, <2>2, <2>3, <2>5 DEF RateHolds
<1> QED BY <1>4, <1>5

LEMMA RateEndHolds ==
  ASSUME WatchInv, WatchParameters
  PROVE  RateHolds(RateEnd, Len(scrapes))
<1> DEFINE n == Len(scrapes)
<1>1. n \in Nat /\ DOMAIN scrapes = 1..n
  BY ScrapesAre
<1>2. PICK at \in [0..n -> RateValues] :
        /\ at[0] = {}
        /\ \A k \in DOMAIN scrapes : at[k] = RateStep(at[k - 1], k)
        /\ RateEnd = at[n]
  BY RateSteps
<1> DEFINE B == {k \in 0..n : ~RateHolds(at[k], k)}
<1>3. B = {}
  <2> SUFFICES ASSUME B # {} PROVE FALSE
    OBVIOUS
  <2>1. PICK k \in B : \A j \in B : k <= j
    <3>1. B \subseteq Nat
      OBVIOUS
    <3> HIDE DEF B
    <3> QED BY <3>1, LeastIsThere
  <2>2. k \in 0..n /\ ~RateHolds(at[k], k)
    BY <2>1
  <2>3. CASE k = 0
    <3>1. RateHolds({}, 0)
      BY DEF RateHolds
    <3> QED BY <1>2, <2>2, <2>3, <3>1
  <2>4. CASE k # 0
    <3>1. k \in DOMAIN scrapes /\ k - 1 \in 0..n /\ ~(k <= k - 1)
      BY <1>1, <2>2, <2>4
    <3>2. RateHolds(at[k - 1], k - 1) /\ at[k - 1] \in RateValues
      BY <1>2, <2>1, <3>1
    <3>3. RateHolds(RateStep(at[k - 1], k), k)
      BY <3>1, <3>2, RateStepHolds
    <3> QED BY <1>2, <2>2, <3>1, <3>3
  <2> QED BY <2>3, <2>4
<1>4. n \in 0..n /\ n \notin B
  BY <1>1, <1>3
<1> QED BY <1>2, <1>4

LEMMA StormsHold == ASSUME WatchInv, WatchParameters PROVE Watch!StormsAreReal
<1>1. /\ RateEnd \subseteq DOMAIN scrapes
      /\ \A i \in RateEnd : Watch!Cardinality(Watch!InWindow(i)) >= Threshold
      /\ \A i, j \in RateEnd : i < j => scrapes[j].ts - scrapes[i].ts >= WatchCooldown
  BY RateEndHolds, ScrapesAre DEF RateHolds
<1>2. ASSUME NEW i \in RateEnd, gates = 1
      PROVE  scrapes[i].shrunk - scrapes[Watch!Before(Watch!Min(Watch!InWindow(i)))].shrunk >= Threshold
  <2> DEFINE R == Watch!InWindow(i)
             b == Watch!Before(Watch!Min(R))
  <2>1. i \in DOMAIN scrapes /\ Threshold \in Nat \ {0}
    BY <1>1 DEF WatchParameters
  <2>2. R \subseteq Watch!Rises /\ R \subseteq DOMAIN scrapes /\ \A j \in R : j <= i
    BY DEF Watch!InWindow, Watch!Rises, Watch!Seen
  <2>3. IsFiniteSet(R) /\ R \subseteq Nat
    <3>1. DOMAIN scrapes = 1..Len(scrapes) /\ Len(scrapes) \in Nat
      BY ScrapesAre
    <3>2. IsFiniteSet(1..Len(scrapes))
      BY <3>1, FS_Interval
    <3>3. \A j \in R : j \in Nat
      BY <2>2, <3>1
    <3> HIDE DEF R
    <3> QED BY <2>2, <3>1, <3>2, <3>3, FS_Subset
  <2>4. Cardinality(R) >= Threshold
    <3>1. Watch!Cardinality(R) = Cardinality(R)
      BY DEF Watch!Cardinality, Cardinality
    <3> QED BY <1>1, <3>1
  <2> HIDE DEF R
  <2>5. R # {}
    BY <2>1, <2>4, FS_EmptySet
  <2>6. Cardinality(R) <= scrapes[i].shrunk - scrapes[b].shrunk
    BY <1>2, <2>1, <2>2, <2>3, <2>5, RisesAreShrinks
  <2>7. b \in DOMAIN scrapes
    <3>1. Watch!Min(R) \in R
      BY <2>3, <2>5, WatchBottom
    <3> QED BY <2>2, <3>1, BeforeIs
  <2>8. scrapes[i].shrunk \in Nat /\ scrapes[b].shrunk \in Nat /\ Cardinality(R) \in Nat
    BY <2>1, <2>3, <2>7, ScrapesAre, FS_CardinalityType
  <2> HIDE DEF b
  <2>9. scrapes[i].shrunk - scrapes[b].shrunk >= Threshold
    BY <2>1, <2>4, <2>6, <2>8
  <2> QED BY <2>9 DEF R, b
<1> QED BY <1>1, <1>2, RateAlertsAre DEF Watch!StormsAreReal

\* A spike alert of the watchdog for a bearer of one gate stands for as many shrinks as it
\* says, whatever restarts, failed scrapes and status labels made of the counter, and any two
\* alerts are a cooldown apart; a pin alert stands for a bearer that was never seen above its
\* floor, by whichever gate, for the dwell, and every such run is alerted (_rule_rate and _collect_pin_runs, free_gate_watchdog.py).
THEOREM WatchAlertsAreTrue == WatchParameters => (WatchSpec => []Watch!AlertsAreTrue)
<1> SUFFICES ASSUME WatchParameters PROVE WatchSpec => []Watch!AlertsAreTrue
  OBVIOUS
<1>1. WatchInv => Watch!AlertsAreTrue
  BY StormsHold, PinsHold DEF Watch!AlertsAreTrue
<1>2. Watch!WatchInit => WatchInv
  BY WatchStart
<1>3. WatchInv /\ [Watch!WatchNext]_(Watch!watchVars) => WatchInv'
  BY WatchStep
<1>4. QED BY <1>1, <1>2, <1>3, PTL DEF WatchSpec
-----------------------------------------------------------------------------
(* DrainEstimate: who is told that a slot will come in time. *)

DrainSpec == Drain!DrainInit /\ [][Drain!DrainNext]_(Drain!drainVars)

\* Dispatches by horizon h of a server that is free at a and serves one call in s.
Begins(h, a, s) == IF a <= h THEN (h - a) \div s + 1 ELSE 0
BeginsOf(h, free, s) == [i \in DOMAIN free |-> Begins(h, free[i], s)]

LEMMA StartsTyped ==
  ASSUME NEW h \in Int, NEW a \in Int, NEW s \in Nat \ {0}
  PROVE  Begins(h, a, s) \in Nat
<1>1. CASE a <= h
  <2>1. h - a \in Nat
    BY <1>1
  <2>2. (h - a) \div s \in Nat
    BY <2>1
  <2> QED BY <1>1, <2>2 DEF Begins
<1> QED BY <1>1 DEF Begins

\* A server that is free later starts no more.
LEMMA StartsFall ==
  ASSUME NEW h \in Int, NEW a \in Int, NEW b \in Int, a <= b, NEW s \in Nat \ {0}
  PROVE  Begins(h, b, s) <= Begins(h, a, s)
<1>1. CASE b <= h
  <2>1. h - a \in Nat /\ h - b \in Nat /\ h - b <= h - a
    BY <1>1
  <2>2. ~((h - b) \div s > (h - a) \div s)
    <3>1. (h - b) \div s \in Nat /\ (h - a) \div s \in Nat
      BY <2>1
    <3>2. ~(((h - b) \div s) * s > h - b)
      BY <2>1, <3>1, Rounded
    <3>3. ~(((h - b) \div s) * s > h - a)
      <4>1. ((h - b) \div s) * s \in Int
        BY <3>1
      <4> QED BY <2>1, <3>2, <4>1
    <3> QED BY <2>1, <3>1, <3>3, Rounded
  <2>3. (h - b) \div s \in Nat /\ (h - a) \div s \in Nat
    BY <2>1
  <2>4. a <= h
    BY <1>1
  <2> QED BY <1>1, <2>2, <2>3, <2>4 DEF Begins
<1>2. CASE ~(b <= h)
  <2>1. Begins(h, b, s) = 0
    BY <1>2 DEF Begins
  <2> QED BY <2>1, StartsTyped
<1> QED BY <1>1, <1>2

\* The estimate counts them.
LEMMA StartsWithinIs ==
  ASSUME NEW free, IsFiniteSet(DOMAIN free), \A i \in DOMAIN free : free[i] \in Int,
         NEW s \in Nat \ {0}, NEW h \in Int
  PROVE  Drain!StartsWithin(free, s, h) = SumOf(BeginsOf(h, free, s), DOMAIN free)
<1> DEFINE S == {i \in DOMAIN free : free[i] <= h}
           f == BeginsOf(h, free, s)
           Value(i) == (h - free[i]) \div s + 1
           F(g) == [t \in SUBSET S |-> IF t = {} THEN 0 ELSE Value(Pick(t)) + g[t \ {Pick(t)}]]
           G(g) == [t \in SUBSET S |-> IF t = {} THEN 0 ELSE f[Pick(t)] + g[t \ {Pick(t)}]]
<1>1. \A g : F(g) = G(g)
  <2> TAKE g
  <2>1. \A t \in SUBSET S : t # {} => f[Pick(t)] = Value(Pick(t))
    BY DEF Pick, BeginsOf, Begins
  <2> HIDE DEF f, Value, S
  <2> QED BY <2>1
<1>2. Drain!StartsWithin(free, s, h) = (CHOOSE g : g = F(g))[S]
  BY DEF Drain!StartsWithin, Drain!Sum, Drain!MapThenSumSet, Drain!MapThenFoldSet, Pick
<1>3. SumOf(f, S) = (CHOOSE g : g = G(g))[S]
  BY DEF SumOf, SumFun
<1>4. (CHOOSE g : g = F(g)) = (CHOOSE g : g = G(g))
  <2> HIDE DEF F, G
  <2> QED BY <1>1
<1>5. Drain!StartsWithin(free, s, h) = SumOf(f, S)
  <2> HIDE DEF F, G
  <2> QED BY <1>2, <1>3, <1>4
<1>6. \A i \in DOMAIN free : f[i] \in Int
  BY StartsTyped DEF BeginsOf
<1>7. SumOf(f, DOMAIN free \ S) = 0
  <2>1. \A i \in DOMAIN free \ S : f[i] = 0
    BY DEF BeginsOf, Begins
  <2>2. IsFiniteSet(DOMAIN free \ S)
    BY FS_Subset
  <2> HIDE DEF S, f
  <2> QED BY <2>1, <2>2, SumOfNone
<1>8. SumOf(f, DOMAIN free) = SumOf(f, S) + SumOf(f, DOMAIN free \ S)
  <2>1. S \in SUBSET DOMAIN free /\ DOMAIN free \ S \in SUBSET DOMAIN free
        /\ S \cap (DOMAIN free \ S) = {} /\ S \cup (DOMAIN free \ S) = DOMAIN free
    OBVIOUS
  <2> HIDE DEF S, f
  <2>2. SumOf(f, S \cup (DOMAIN free \ S)) = SumOf(f, S) + SumOf(f, DOMAIN free \ S)
    BY <1>6, <2>1, SumApart
  <2> QED BY <2>1, <2>2
<1>9. SumOf(f, S) \in Int
  <2>1. IsFiniteSet(S) /\ \A i \in S : f[i] \in Int
    BY <1>6, FS_Subset
  <2> HIDE DEF S, f
  <2> QED BY <2>1, SumTake
<1> HIDE DEF S, f
<1>10. SumOf(f, DOMAIN free) = Drain!StartsWithin(free, s, h)
  BY <1>5, <1>7, <1>8, <1>9
<1> QED BY <1>10 DEF f

\* A server that starts a call now starts the next one a service later.
LEMMA StartsNext ==
  ASSUME NEW h \in Int, NEW a \in Int, NEW s \in Nat \ {0}, a <= h
  PROVE  Begins(h, a, s) = Begins(h, a + s, s) + 1
<1>1. CASE a + s <= h
  <2> DEFINE n == h - a - s
             q == n \div s
             p == (n + s) \div s
  <2>1. n \in Nat /\ n + s \in Nat /\ h - (a + s) = n /\ h - a = n + s
    BY <1>1
  <2> HIDE DEF n
  <2>2. q \in Nat /\ p \in Nat
    BY <2>1
  <2>3. ~(q * s > n) /\ ~(p * s > n + s)
    BY <2>1, <2>2, Rounded
  <2>4. (q + 1) * s = q * s + s /\ (p - 1) * s = p * s - s /\ q * s \in Int /\ p * s \in Int
    BY <2>2
  <2>5. ~((q + 1) * s > n + s) /\ ~((p - 1) * s > n)
    BY <2>1, <2>3, <2>4
  <2>6. ~(q + 1 > p) /\ ~(p - 1 > q)
    <3>1. q + 1 \in Int /\ p - 1 \in Int
      BY <2>2
    <3> QED BY <2>1, <2>5, <3>1, Rounded
  <2>7. p = q + 1
    BY <2>2, <2>6
  <2> HIDE DEF p, q
  <2>8. Begins(h, a, s) = p + 1 /\ Begins(h, a + s, s) = q + 1
    BY <1>1, <2>1 DEF Begins, p, q
  <2> QED BY <2>2, <2>7, <2>8
<1>2. CASE ~(a + s <= h)
  <2> DEFINE n == h - a
             p == n \div s
  <2>1. n \in Nat /\ n < s
    BY <1>2
  <2> HIDE DEF n
  <2>2. p \in Nat /\ ~(p * s > n)
    BY <2>1, Rounded
  <2>3. ~(p >= 1)
    <3> SUFFICES ASSUME p >= 1 PROVE FALSE
      OBVIOUS
    <3>1. 1 * s <= p * s
      BY <2>2, Times
    <3>2. p * s \in Int
      BY <2>2
    <3> QED BY <2>1, <2>2, <3>1, <3>2
  <2>4. p = 0
    BY <2>2, <2>3
  <2> HIDE DEF p
  <2>5. Begins(h, a, s) = p + 1 /\ Begins(h, a + s, s) = 0
    BY <1>2 DEF Begins, p, n
  <2> QED BY <2>4, <2>5
<1> QED BY <1>1, <1>2

Parked == [waited : 0..DrainMaxWait, promised : BOOLEAN]

\* A call is in the queue only while every slot is taken; unless a call was heavier than the
\* lane has measured, no hold is older than a service.
DrainTyped ==
  /\ slots \in Nat \ {0} /\ heavy \in BOOLEAN
  /\ ages \in Seq(Nat) /\ queue \in Seq(Parked)
  /\ ~heavy => \A i \in DOMAIN ages : ages[i] <= Typical
  /\ queue # <<>> => Len(ages) >= slots

\* Slots that no heavier call holds take Typical each: how many dispatches they make by h.
BeginsBy(h) == [j \in DOMAIN ages |-> Begins(h, Typical - ages[j], Typical)]
LeftOf(i) == DrainMaxWait - queue[i].waited

\* Any of them, as many as the cap, come to whoever was promised a slot in what is left of
\* its budget: above the cap, whichever calls pay the overshoot down.
PromisesHold ==
  ~heavy => \A i \in DOMAIN queue : queue[i].promised =>
    \A U \in SUBSET DOMAIN ages : Cardinality(U) = slots => SumOf(BeginsBy(LeftOf(i)), U) >= i

\* What every step of the lane keeps.
DrainInv == DrainTyped /\ PromisesHold

\* The holds are numbered from 1.
LEMMA AgesAre ==
  ASSUME DrainTyped
  PROVE  /\ Len(ages) \in Nat /\ DOMAIN ages = 1..Len(ages) /\ IsFiniteSet(DOMAIN ages)
         /\ Cardinality(DOMAIN ages) = Len(ages)
         /\ \A j \in DOMAIN ages : ages[j] \in Nat
<1>1. Len(ages) \in Nat /\ DOMAIN ages = 1..Len(ages) /\ \A j \in DOMAIN ages : ages[j] \in Nat
  BY DEF DrainTyped
<1>2. IsFiniteSet(1..Len(ages)) /\ Cardinality(1..Len(ages)) = Len(ages)
  <2>1. 1 \in Int /\ Len(ages) \in Int /\ (1 > Len(ages) => Len(ages) = 0)
    BY <1>1
  <2>2. IsFiniteSet(1..Len(ages))
        /\ Cardinality(1..Len(ages)) = IF 1 > Len(ages) THEN 0 ELSE Len(ages) - 1 + 1
    BY <2>1, FS_Interval, Zenon
  <2> QED BY <1>1, <2>2
<1> QED BY <1>1, <1>2

\* No slot taken, and nobody has run longer than the lane has measured.
LEMMA AdmittedAre == ASSUME DrainInv, DrainParameters PROVE Drain!AdmittedInTime
<1> SUFFICES ASSUME ~heavy, NEW i \in DOMAIN queue, queue[i].promised, queue[i].waited = DrainMaxWait,
                    \A j \in DOMAIN ages : ages[j] # Typical
             PROVE  FALSE
  BY DEF Drain!AdmittedInTime
<1> DEFINE U == 1..slots
           f == BeginsBy(LeftOf(i))
<1>1. i \in Nat /\ i >= 1 /\ queue # <<>> /\ slots \in Nat /\ slots >= 1 /\ Len(ages) >= slots
  BY DEF DrainInv, DrainTyped
<1>2. U \in SUBSET DOMAIN ages
  BY <1>1, AgesAre DEF DrainInv
<1>3. IsFiniteSet(U) /\ Cardinality(U) = slots
  <2>1. 1 \in Int /\ slots \in Int /\ ~(1 > slots) /\ slots - 1 + 1 = slots
    BY <1>1
  <2>2. IsFiniteSet(1..slots) /\ Cardinality(1..slots) = IF 1 > slots THEN 0 ELSE slots - 1 + 1
    BY <2>1, FS_Interval, Zenon
  <2> QED BY <2>1, <2>2
<1>4. SumOf(f, U) >= i
  <2> HIDE DEF U
  <2> QED BY <1>2, <1>3 DEF DrainInv, PromisesHold
<1>5. \A j \in U : f[j] = 0
  <2> TAKE j \in U
  <2>1. j \in DOMAIN ages /\ ages[j] \in Nat /\ ages[j] <= Typical /\ ages[j] # Typical
    BY <1>2, AgesAre DEF DrainInv, DrainTyped
  <2>2. LeftOf(i) = 0
    BY DEF LeftOf, DrainParameters
  <2>3. ~(Typical - ages[j] <= 0)
    BY <2>1 DEF DrainParameters
  <2> QED BY <2>1, <2>2, <2>3 DEF BeginsBy, Begins
<1>6. SumOf(f, U) = 0
  <2> HIDE DEF U, f
  <2> QED BY <1>3, <1>5, SumOfNone
<1> QED BY <1>1, <1>4, <1>6

\* The service time is at least the typical one, and that one while no call was heavier.
LEMMA ServiceIs ==
  ASSUME DrainTyped, DrainParameters
  PROVE  /\ Drain!Service \in Nat \ {0} /\ Typical <= Drain!Service
         /\ ~heavy => Drain!Service = Typical
<1> DEFINE T == {Typical} \cup Drain!Range(ages)
<1>1. Drain!Service = Drain!Max(T)
  BY DEF Drain!Service
<1>2. T \subseteq Nat /\ Typical \in T /\ IsFiniteSet(T)
  <2>1. Drain!Range(ages) = {ages[j] : j \in DOMAIN ages}
    BY DEF Drain!Range
  <2>2. ages \in Surjection(DOMAIN ages, Drain!Range(ages))
    BY <2>1, AgesAre DEF Surjection, DrainTyped
  <2>3. IsFiniteSet(Drain!Range(ages))
    BY <2>2, AgesAre, FS_Surjection
  <2>4. IsFiniteSet({Typical})
    BY FS_Singleton
  <2>5. Drain!Range(ages) \subseteq Nat
    BY <2>1, AgesAre
  <2>6. IsFiniteSet(T)
    BY <2>3, <2>4, FS_Union
  <2> QED BY <2>5, <2>6 DEF DrainParameters
<1>3. \E x \in T : \A y \in T : x >= y
  <2> HIDE DEF T
  <2> QED BY <1>2, GreatestIsThere
<1>4. Drain!Service \in T /\ \A y \in T : Drain!Service >= y
  <2> HIDE DEF T
  <2> QED BY <1>1, <1>3 DEF Drain!Max
<1>5. ASSUME ~heavy PROVE Drain!Service = Typical
  <2>1. \A y \in T : y <= Typical
    BY <1>2, <1>5, AgesAre DEF DrainTyped, Drain!Range, DrainParameters
  <2> QED BY <1>2, <1>4, <2>1
<1> QED BY <1>2, <1>4, <1>5 DEF DrainParameters

\* The holders whose slots are modelled to end before i's.
Earlier(i) == {j \in DOMAIN ages : Drain!EndsBefore(j, i)}
Rank(i) == Cardinality(Earlier(i))

\* What a holder is modelled to need still.
LEMMA ResidualIs ==
  ASSUME DrainTyped, DrainParameters, NEW j \in DOMAIN ages
  PROVE  Drain!Residual(ages[j]) \in Nat /\ Typical - ages[j] <= Drain!Residual(ages[j])
BY AgesAre, ServiceIs DEF Drain!Residual, DrainParameters

\* The slots in the order they are modelled to come free.
LEMMA RanksAre ==
  ASSUME DrainTyped, DrainParameters
  PROVE  /\ \A i \in DOMAIN ages : Rank(i) \in 0..(Len(ages) - 1)
         /\ \A i, j \in DOMAIN ages : Rank(i) < Rank(j) <=> Drain!EndsBefore(i, j)
         /\ \A i, j \in DOMAIN ages : Rank(i) = Rank(j) => i = j
<1>1. \A i \in DOMAIN ages : i \in Nat /\ Drain!Residual(ages[i]) \in Nat
  BY ResidualIs, AgesAre
<1>2. /\ \A i \in DOMAIN ages : ~Drain!EndsBefore(i, i)
      /\ \A i, j \in DOMAIN ages : i # j => Drain!EndsBefore(i, j) \/ Drain!EndsBefore(j, i)
  BY <1>1 DEF Drain!EndsBefore
<1>3. \A i, j, k \in DOMAIN ages :
        Drain!EndsBefore(i, j) /\ Drain!EndsBefore(j, k) => Drain!EndsBefore(i, k)
  BY <1>1 DEF Drain!EndsBefore
<1>4. \A i \in DOMAIN ages : IsFiniteSet(Earlier(i)) /\ Rank(i) \in Nat
  <2> TAKE i \in DOMAIN ages
  <2>1. Earlier(i) \in SUBSET DOMAIN ages
    BY DEF Earlier
  <2>2. IsFiniteSet(Earlier(i))
    BY <2>1, AgesAre, FS_Subset
  <2> QED BY <2>2, FS_CardinalityType DEF Rank
<1>5. ASSUME NEW i \in DOMAIN ages, NEW j \in DOMAIN ages, Drain!EndsBefore(i, j)
      PROVE  Rank(i) < Rank(j)
  <2>1. Earlier(i) \in SUBSET Earlier(j) /\ i \in Earlier(j) /\ i \notin Earlier(i)
    BY <1>2, <1>3, <1>5 DEF Earlier
  <2>2. Cardinality(Earlier(i)) <= Cardinality(Earlier(j))
        /\ Cardinality(Earlier(i)) # Cardinality(Earlier(j))
    BY <1>4, <2>1, FS_Subset
  <2> QED BY <1>4, <2>2 DEF Rank
<1>6. ASSUME NEW i \in DOMAIN ages PROVE Rank(i) \in 0..(Len(ages) - 1)
  <2>1. Earlier(i) \in SUBSET DOMAIN ages /\ i \notin Earlier(i)
    BY <1>2 DEF Earlier
  <2>2. Rank(i) <= Len(ages) /\ Rank(i) # Len(ages)
    <3>1. Cardinality(Earlier(i)) <= Cardinality(DOMAIN ages)
          /\ Cardinality(DOMAIN ages) # Cardinality(Earlier(i))
      BY <2>1, AgesAre, FS_Subset
    <3> QED BY <3>1, AgesAre DEF Rank
  <2> QED BY <1>4, <2>2, AgesAre
<1>7. \A i, j \in DOMAIN ages : Rank(i) < Rank(j) => Drain!EndsBefore(i, j)
  <2> TAKE i, j \in DOMAIN ages
  <2>1. Rank(i) \in Nat /\ Rank(j) \in Nat
    BY <1>4
  <2>2. Drain!EndsBefore(j, i) => Rank(j) < Rank(i)
    BY <1>5
  <2>3. i # j => Drain!EndsBefore(i, j) \/ Drain!EndsBefore(j, i)
    BY <1>2
  <2> QED BY <2>1, <2>2, <2>3
<1>8. \A i, j \in DOMAIN ages : Rank(i) = Rank(j) => i = j
  <2> TAKE i, j \in DOMAIN ages
  <2>1. Rank(i) \in Nat /\ Rank(j) \in Nat
    BY <1>4
  <2>2. /\ Drain!EndsBefore(j, i) => Rank(j) < Rank(i)
        /\ Drain!EndsBefore(i, j) => Rank(i) < Rank(j)
    BY <1>5
  <2>3. i # j => Drain!EndsBefore(i, j) \/ Drain!EndsBefore(j, i)
    BY <1>2
  <2> QED BY <2>1, <2>2, <2>3
<1> QED BY <1>5, <1>6, <1>7, <1>8

\* The overshoot is paid down by the slots that end first.
LEMMA PaidDownIs ==
  ASSUME DrainTyped, DrainParameters
  PROVE  Drain!PaidDown = {i \in DOMAIN ages : Rank(i) < Len(ages) - slots}
<1>1. \A S : Drain!Cardinality(S) = Cardinality(S)
  BY DEF Drain!Cardinality, Cardinality
<1> QED BY <1>1 DEF Drain!PaidDown, Rank, Earlier

\* Above the cap the estimate keeps as many slots as the cap.
LEMMA KeptAre ==
  ASSUME DrainTyped, DrainParameters, Len(ages) >= slots
  PROVE  Cardinality(DOMAIN ages \ Drain!PaidDown) = slots
<1> DEFINE P == Drain!PaidDown
           K == DOMAIN ages \ P
           d == Len(ages) - slots
<1>1. d \in Nat /\ slots \in Nat /\ Len(ages) \in Nat /\ d + slots = Len(ages)
  BY AgesAre DEF DrainTyped
<1>2. P \in SUBSET DOMAIN ages /\ K \in SUBSET DOMAIN ages /\ P \cup K = DOMAIN ages /\ P \cap K = {}
  BY PaidDownIs
<1>3. IsFiniteSet(P) /\ IsFiniteSet(K)
  BY <1>2, AgesAre, FS_Subset
<1>4. Cardinality(P) <= d
  <2>1. \A i \in P : Rank(i) \in 0..(d - 1)
    <3> TAKE i \in P
    <3>1. i \in DOMAIN ages /\ Rank(i) < Len(ages) - slots
      BY PaidDownIs
    <3>2. Rank(i) \in 0..(Len(ages) - 1)
      BY <3>1, RanksAre
    <3> QED BY <1>1, <3>1, <3>2
  <2>2. [i \in P |-> Rank(i)] \in Injection(P, 0..(d - 1))
    BY <1>2, <2>1, RanksAre DEF Injection, IsInjective
  <2>3. IsFiniteSet(0..(d - 1)) /\ Cardinality(0..(d - 1)) = d
    <3>1. 0 \in Int /\ d - 1 \in Int /\ (0 > d - 1 => d = 0) /\ d - 1 - 0 + 1 = d
      <4>1. d \in Nat
        BY <1>1
      <4> HIDE DEF d
      <4> QED BY <4>1
    <3>2. IsFiniteSet(0..(d - 1))
          /\ Cardinality(0..(d - 1)) = IF 0 > d - 1 THEN 0 ELSE d - 1 - 0 + 1
      BY <3>1, FS_Interval, Zenon
    <3> HIDE DEF d
    <3> QED BY <3>1, <3>2
  <2> HIDE DEF P, d
  <2>4. Cardinality(P) <= Cardinality(0..(d - 1))
    BY <2>2, <2>3, FS_Injection
  <2> QED BY <2>3, <2>4
<1>5. Cardinality(K) <= slots
  <2> DEFINE R == d..(Len(ages) - 1)
  <2>1. \A i \in K : Rank(i) \in R
    <3> TAKE i \in K
    <3>1. i \in DOMAIN ages /\ ~(Rank(i) < Len(ages) - slots)
      BY PaidDownIs
    <3>2. Rank(i) \in 0..(Len(ages) - 1)
      BY <3>1, RanksAre
    <3> QED BY <1>1, <3>1, <3>2
  <2>2. [i \in K |-> Rank(i)] \in Injection(K, R)
    BY <1>2, <2>1, RanksAre DEF Injection, IsInjective
  <2>3. IsFiniteSet(R) /\ Cardinality(R) = slots
    <3>1. d \in Int /\ Len(ages) - 1 \in Int /\ (d > Len(ages) - 1 => slots = 0)
          /\ Len(ages) - 1 - d + 1 = slots
      BY <1>1
    <3>2. IsFiniteSet(d..(Len(ages) - 1))
          /\ Cardinality(d..(Len(ages) - 1)) = IF d > Len(ages) - 1 THEN 0 ELSE Len(ages) - 1 - d + 1
      BY <3>1, FS_Interval, Zenon
    <3> HIDE DEF d
    <3> QED BY <3>1, <3>2
  <2> HIDE DEF K, R
  <2>4. Cardinality(K) <= Cardinality(R)
    BY <2>2, <2>3, FS_Injection
  <2> QED BY <2>3, <2>4
<1>6. Cardinality(P) + Cardinality(K) = Len(ages)
  <2> HIDE DEF P, K
  <2>1. Cardinality(P \cup K) = Cardinality(P) + Cardinality(K) - Cardinality(P \cap K)
    BY <1>3, FS_Union
  <2>2. Cardinality(P \cap K) = 0
    BY <1>2, FS_EmptySet
  <2>3. Cardinality(P) \in Nat /\ Cardinality(K) \in Nat
    BY <1>3, FS_CardinalityType
  <2>4. Cardinality(P \cup K) = Len(ages)
    BY <1>2, AgesAre
  <2> QED BY <2>1, <2>2, <2>3, <2>4
<1>7. Cardinality(P) \in Nat /\ Cardinality(K) \in Nat
  <2> HIDE DEF P, K
  <2> QED BY <1>3, FS_CardinalityType
<1>8. Cardinality(K) = slots
  <2> HIDE DEF P, K
  <2> QED BY <1>1, <1>4, <1>5, <1>6, <1>7
<1> QED BY <1>8

\* At least one server, all of them in no time or after what is left of a call.
LEMMA AvailableIs ==
  ASSUME DrainTyped, DrainParameters
  PROVE  /\ IsFiniteSet(DOMAIN Drain!Available) /\ DOMAIN Drain!Available # {}
         /\ DOMAIN Drain!Available \subseteq Nat
         /\ \A i \in DOMAIN Drain!Available : Drain!Available[i] \in Nat
         /\ Len(ages) >= slots =>
              /\ DOMAIN Drain!Available = DOMAIN ages \ Drain!PaidDown
              /\ \A i \in DOMAIN Drain!Available : Drain!Available[i] = Drain!Residual(ages[i])
<1> DEFINE D == Drain!Slots \ Drain!PaidDown
<1>1. DOMAIN Drain!Available = D /\ \A i \in D : Drain!Available[i] = Drain!FreeIn(i)
  BY DEF Drain!Available
<1>2. slots \in Nat \ {0} /\ Len(ages) \in Nat
  BY AgesAre DEF DrainTyped
<1>3. IsFiniteSet(D) /\ D \subseteq Nat
  <2>1. IsFiniteSet((Len(ages) + 1)..slots)
    <3>1. Len(ages) + 1 \in Int /\ slots \in Int
      BY <1>2
    <3> QED BY <3>1, FS_Interval, Zenon
  <2>2. IsFiniteSet(Drain!Slots)
    BY <2>1, AgesAre, FS_Union DEF Drain!Slots
  <2>3. Drain!Slots \subseteq Nat
    BY <1>2, AgesAre DEF Drain!Slots
  <2> QED BY <2>2, <2>3, FS_Subset
<1>4. \A i \in D : Drain!Available[i] \in Nat
  BY <1>1, ResidualIs DEF Drain!FreeIn
<1>5. Len(ages) >= slots => D = DOMAIN ages \ Drain!PaidDown
  <2>1. Len(ages) >= slots => (Len(ages) + 1)..slots = {}
    BY <1>2
  <2> QED BY <2>1 DEF Drain!Slots
<1>6. D # {}
  <2>1. CASE Len(ages) >= slots
    <3>1. Cardinality(D) # 0
      BY <1>2, <1>5, <2>1, KeptAre
    <3> HIDE DEF D
    <3> QED BY <3>1, FS_EmptySet
  <2>2. CASE ~(Len(ages) >= slots)
    <3>1. Len(ages) + 1 \in Drain!Slots
      BY <1>2, <2>2 DEF Drain!Slots
    <3>2. Len(ages) + 1 \notin Drain!PaidDown
      BY <1>2, PaidDownIs, AgesAre
    <3> QED BY <3>1, <3>2
  <2> QED BY <2>1, <2>2
<1>7. Len(ages) >= slots => \A i \in D : Drain!Available[i] = Drain!Residual(ages[i])
  BY <1>1, <1>5 DEF Drain!FreeIn
<1> QED BY <1>1, <1>3, <1>4, <1>5, <1>6, <1>7

LEMMA LeastOfTwo ==
  ASSUME NEW a \in Int, NEW b \in Int
  PROVE  /\ Drain!Min({a, b}) = IF a <= b THEN a ELSE b
         /\ Drain!Max({a, b}) = IF a <= b THEN b ELSE a
<1>1. Drain!Min({a, b}) = IF a <= b THEN a ELSE b
  BY DEF Drain!Min
<1>2. Drain!Max({a, b}) = IF a <= b THEN b ELSE a
  BY DEF Drain!Max
<1> QED BY <1>1, <1>2

\* So many calls are let in.
LetIn(holds, parked) ==
  Drain!Min({Len(parked), Drain!Max({0, slots - Len(holds)})})

\* How many parked calls a dispatch lets in.
LEMMA LetInIs ==
  ASSUME slots \in Nat, NEW holds, Len(holds) \in Nat, NEW parked, Len(parked) \in Nat
  PROVE  /\ LetIn(holds, parked) \in 0..Len(parked)
         /\ Len(holds) >= slots => LetIn(holds, parked) = 0
         /\ Len(holds) + 1 = slots /\ Len(parked) >= 1 => LetIn(holds, parked) = 1
         /\ Len(holds) < slots /\ Len(parked) = 1 => LetIn(holds, parked) = 1
         /\ LetIn(holds, parked) < Len(parked) => Len(holds) + LetIn(holds, parked) >= slots
<1> DEFINE m == Drain!Max({0, slots - Len(holds)})
<1>1. m = IF 0 <= slots - Len(holds) THEN slots - Len(holds) ELSE 0
  BY LeastOfTwo
<1>2. m \in Int
  BY <1>1
<1>3. LetIn(holds, parked) = IF Len(parked) <= m THEN Len(parked) ELSE m
  <2> HIDE DEF m
  <2>1. Len(parked) \in Int
    OBVIOUS
  <2>2. Drain!Min({Len(parked), m}) = IF Len(parked) <= m THEN Len(parked) ELSE m
    BY <1>2, <2>1, LeastOfTwo
  <2> QED BY <2>2 DEF LetIn, m
<1>4. slots \in Nat /\ Len(holds) \in Nat /\ Len(parked) \in Nat
  OBVIOUS
<1> DEFINE n == LetIn(holds, parked)
<1>5. n = IF Len(parked) <= m THEN Len(parked) ELSE m
  BY <1>3
<1> HIDE DEF m, n
<1>6. ASSUME NEW s \in Nat, NEW h \in Nat, NEW p \in Nat,
             m = IF 0 <= s - h THEN s - h ELSE 0, n = IF p <= m THEN p ELSE m
      PROVE  /\ n \in 0..p
             /\ h >= s => n = 0
             /\ h + 1 = s /\ p >= 1 => n = 1
             /\ h < s /\ p = 1 => n = 1
             /\ n < p => h + n >= s
  BY <1>6
<1> QED BY <1>1, <1>4, <1>5, <1>6 DEF n

\* A dispatch takes the head of the queue into fresh slots, up to the cap.
LEMMA DispatchIs ==
  ASSUME slots \in Nat, NEW holds \in Seq(Nat), NEW parked \in Seq(Parked),
         Drain!Dispatch(holds, parked)
  PROVE  /\ ages' \in Seq(Nat) /\ Len(ages') = Len(holds) + LetIn(holds, parked)
         /\ \A j \in 1..Len(ages') : ages'[j] = IF j <= Len(holds) THEN holds[j] ELSE 0
         /\ queue' \in Seq(Parked) /\ Len(queue') = Len(parked) - LetIn(holds, parked)
         /\ \A i \in 1..Len(queue') : queue'[i] = parked[i + LetIn(holds, parked)]
         /\ LetIn(holds, parked) = 0 => ages' = holds /\ queue' = parked
<1> DEFINE n == LetIn(holds, parked)
           added == [i \in 1..n |-> 0]
<1>1. n \in 0..Len(parked) /\ Len(holds) \in Nat /\ Len(parked) \in Nat
  BY LetInIs
<1>2. ages' = holds \o added /\ queue' = SubSeq(parked, n + 1, Len(parked))
  BY DEF Drain!Dispatch, LetIn, Drain!AllButFirst
<1> HIDE DEF n
<1>3. added \in Seq(Nat) /\ Len(added) = n
  BY <1>1
<1>4. ages' \in Seq(Nat) /\ Len(ages') = Len(holds) + n
      /\ \A j \in 1..Len(ages') : ages'[j] = IF j <= Len(holds) THEN holds[j] ELSE 0
  <2>1. ages' \in Seq(Nat) /\ Len(ages') = Len(holds) + n
    BY <1>1, <1>2, <1>3
  <2>2. ASSUME NEW j \in 1..Len(ages') PROVE ages'[j] = IF j <= Len(holds) THEN holds[j] ELSE 0
    <3>1. ages'[j] = IF j <= Len(holds) THEN holds[j] ELSE added[j - Len(holds)]
      <4> HIDE DEF added
      <4> QED BY <1>1, <1>2, <1>3, <2>1
    <3>2. ~(j <= Len(holds)) => j - Len(holds) \in 1..n
      BY <1>1, <2>1
    <3> QED BY <3>1, <3>2
  <2> QED BY <2>1, <2>2
<1>5. queue' \in Seq(Parked) /\ Len(queue') = Len(parked) - n
      /\ \A i \in 1..Len(queue') : queue'[i] = parked[i + n]
  BY <1>1, <1>2
<1>6. ASSUME n = 0 PROVE ages' = holds /\ queue' = parked
  <2>1. ages' \in [1..Len(holds) -> Nat] /\ holds \in [1..Len(holds) -> Nat]
        /\ \A j \in 1..Len(holds) : ages'[j] = holds[j]
    BY <1>1, <1>4, <1>6
  <2>2. queue' \in [1..Len(parked) -> Parked] /\ parked \in [1..Len(parked) -> Parked]
        /\ \A j \in 1..Len(parked) : queue'[j] = parked[j]
    BY <1>1, <1>5, <1>6
  <2> QED BY <2>1, <2>2
<1> QED BY <1>4, <1>5, <1>6 DEF n

\* Nobody is parked while a slot is free.
LEMMA DispatchTyped ==
  ASSUME DrainTyped, DrainParameters, slots' = slots, heavy' = heavy,
         NEW holds \in Seq(Nat), NEW parked \in Seq(Parked), Drain!Dispatch(holds, parked),
         ~heavy => \A j \in 1..Len(holds) : holds[j] <= Typical
  PROVE  DrainTyped'
<1>1. slots \in Nat /\ Len(holds) \in Nat /\ Len(parked) \in Nat
  BY DEF DrainTyped
<1>2. ages' \in Seq(Nat) /\ queue' \in Seq(Parked)
  BY <1>1, DispatchIs
<1>3. ~heavy => \A j \in DOMAIN ages' : ages'[j] <= Typical
  <2> SUFFICES ASSUME ~heavy, NEW j \in DOMAIN ages' PROVE ages'[j] <= Typical
    OBVIOUS
  <2>1. j \in 1..Len(ages')
    BY <1>2
  <2>2. ages'[j] = IF j <= Len(holds) THEN holds[j] ELSE 0
    BY <1>1, <2>1, DispatchIs
  <2>3. j <= Len(holds) => j \in 1..Len(holds)
    BY <1>1, <2>1
  <2> QED BY <2>2, <2>3 DEF DrainParameters
<1>4. ASSUME queue' # <<>> PROVE Len(ages') >= slots
  <2>1. Len(queue') # 0
    BY <1>2, <1>4
  <2>2. Len(ages') = Len(holds) + LetIn(holds, parked) /\ Len(queue') = Len(parked) - LetIn(holds, parked)
    BY <1>1, DispatchIs
  <2>3. /\ LetIn(holds, parked) \in 0..Len(parked)
        /\ LetIn(holds, parked) < Len(parked) => Len(holds) + LetIn(holds, parked) >= slots
    BY <1>1, LetInIs
  <2> QED BY <1>1, <2>1, <2>2, <2>3
<1> QED BY <1>2, <1>3, <1>4 DEF DrainTyped

\* Whoever is let in on the estimate is promised no more than the slots come to.
LEMMA AdmittedWithin ==
  ASSUME DrainTyped, DrainParameters, ~heavy, Len(ages) >= slots, NEW ahead \in Nat, Drain!Admits(ahead),
         NEW U \in SUBSET DOMAIN ages, Cardinality(U) = slots
  PROVE  SumOf(BeginsBy(DrainMaxWait), U) >= ahead + 1
<1> DEFINE K == DOMAIN ages \ Drain!PaidDown
           h == DrainMaxWait
           f == BeginsOf(h, Drain!Available, Typical)
           r == [j \in DOMAIN ages |-> Begins(h, Drain!Residual(ages[j]), Typical)]
           g == BeginsBy(h)
<1>1. h \in Int /\ Typical \in Nat \ {0} /\ Drain!Service = Typical
  BY ServiceIs DEF DrainParameters
<1>2. /\ DOMAIN Drain!Available = K /\ IsFiniteSet(K) /\ K \in SUBSET DOMAIN ages
      /\ \A j \in K : Drain!Available[j] \in Nat /\ Drain!Available[j] = Drain!Residual(ages[j])
  BY AvailableIs
<1>3. Drain!StartsWithin(Drain!Available, Typical, h) = SumOf(f, K)
  BY <1>1, <1>2, StartsWithinIs
<1>4. \A j \in DOMAIN ages :
        /\ Drain!Residual(ages[j]) \in Nat /\ r[j] = Begins(h, Drain!Residual(ages[j]), Typical) /\ r[j] \in Nat
        /\ g[j] \in Nat /\ r[j] <= g[j]
  <2> TAKE j \in DOMAIN ages
  <2>1. /\ Drain!Residual(ages[j]) \in Int /\ Typical - ages[j] \in Int
        /\ Typical - ages[j] <= Drain!Residual(ages[j]) /\ Drain!Residual(ages[j]) \in Nat
    BY <1>1, ResidualIs, AgesAre
  <2>2. Begins(h, Drain!Residual(ages[j]), Typical) <= Begins(h, Typical - ages[j], Typical)
    BY <1>1, <2>1, StartsFall
  <2>3. Begins(h, Drain!Residual(ages[j]), Typical) \in Nat /\ Begins(h, Typical - ages[j], Typical) \in Nat
    BY <1>1, <2>1, StartsTyped
  <2> QED BY <2>1, <2>2, <2>3 DEF BeginsBy
<1>5. SumOf(f, K) = SumOf(r, K)
  <2>1. \A j \in K : f[j] \in Int /\ f[j] = r[j]
    BY <1>2, <1>4 DEF BeginsOf
  <2> HIDE DEF K, f, r
  <2> QED BY <1>2, <2>1, SumSame
<1>6. SumOf(r, K) <= SumOf(r, U)
  <2>1. Cardinality(K) = Cardinality(U)
    BY KeptAre
  <2>2. \A x \in K, y \in DOMAIN ages \ K : r[x] <= r[y]
    <3> TAKE x \in K, y \in DOMAIN ages \ K
    <3>1. x \in DOMAIN ages /\ y \in DOMAIN ages /\ ~(Rank(x) < Len(ages) - slots) /\ Rank(y) < Len(ages) - slots
      BY PaidDownIs
    <3>2. Rank(x) \in 0..(Len(ages) - 1) /\ Rank(y) \in 0..(Len(ages) - 1)
      BY <3>1, RanksAre
    <3>3. Rank(y) < Rank(x)
      BY <3>1, <3>2, AgesAre DEF DrainTyped
    <3>4. Drain!EndsBefore(y, x)
      BY <3>1, <3>3, RanksAre
    <3>5. Drain!Residual(ages[y]) <= Drain!Residual(ages[x])
      BY <1>4, <3>1, <3>4 DEF Drain!EndsBefore
    <3>6. Drain!Residual(ages[y]) \in Int /\ Drain!Residual(ages[x]) \in Int
      BY <1>4, <3>1
    <3>7. Begins(h, Drain!Residual(ages[x]), Typical) <= Begins(h, Drain!Residual(ages[y]), Typical)
      BY <1>1, <3>5, <3>6, StartsFall
    <3> QED BY <3>1, <3>7
  <2>3. \A x \in DOMAIN ages : r[x] \in Int
    BY <1>4
  <2>4. IsFiniteSet(DOMAIN ages)
    BY AgesAre
  <2> HIDE DEF K, r
  <2> QED BY <1>2, <2>1, <2>2, <2>3, <2>4, LeastSum
<1>7. IsFiniteSet(U) /\ SumOf(r, U) <= SumOf(g, U)
  <2>1. IsFiniteSet(U)
    BY AgesAre, FS_Subset
  <2>2. \A x \in U : r[x] \in Int /\ g[x] \in Int /\ r[x] <= g[x]
    BY <1>4
  <2> HIDE DEF r, g
  <2> QED BY <2>1, <2>2, SumCompares
<1>8. SumOf(r, U) \in Int /\ SumOf(g, U) \in Int /\ SumOf(r, K) \in Int
  <2>1. (\A x \in U : r[x] \in Int /\ g[x] \in Int) /\ (\A x \in K : r[x] \in Int)
    BY <1>2, <1>4
  <2> HIDE DEF r, g, K
  <2> QED BY <1>2, <1>7, <2>1, SumTake
<1>9. ahead <= SumOf(f, K) - 1
  BY <1>1, <1>3 DEF Drain!Admits, Drain!AdmissibleAhead
<1> HIDE DEF r, f, K, g
<1>10. SumOf(g, U) >= ahead + 1
  BY <1>5, <1>6, <1>7, <1>8, <1>9
<1> QED BY <1>10 DEF g

\* What is parked, and since when.
LEMMA QueueIs ==
  ASSUME DrainTyped, DrainParameters
  PROVE  /\ Len(queue) \in Nat /\ DOMAIN queue = 1..Len(queue)
         /\ \A i \in DOMAIN queue :
              /\ queue[i] \in Parked /\ queue[i].waited \in Nat /\ queue[i].waited <= DrainMaxWait
              /\ queue[i].promised \in BOOLEAN
              /\ DOMAIN queue[i] = {"waited", "promised"}
<1>1. Len(queue) \in Nat /\ DOMAIN queue = 1..Len(queue) /\ \A i \in DOMAIN queue : queue[i] \in Parked
  BY DEF DrainTyped
<1>2. ASSUME NEW q \in Parked
      PROVE  /\ q.waited \in Nat /\ q.waited <= DrainMaxWait /\ q.promised \in BOOLEAN
             /\ DOMAIN q = {"waited", "promised"}
  BY <1>2 DEF Parked, DrainParameters
<1> QED BY <1>1, <1>2

\* A parked call that has waited on, and one whose promise is void.
LEMMA ParkedOn ==
  ASSUME NEW q \in Parked
  PROVE  /\ q.waited < DrainMaxWait /\ DrainMaxWait \in Nat =>
              /\ [q EXCEPT !.waited = @ + 1] \in Parked
              /\ [q EXCEPT !.waited = @ + 1].waited = q.waited + 1
              /\ [q EXCEPT !.waited = @ + 1].promised = q.promised
         /\ [q EXCEPT !.promised = FALSE] \in Parked
         /\ ~[q EXCEPT !.promised = FALSE].promised
<1>1. q.waited \in 0..DrainMaxWait /\ q.promised \in BOOLEAN
  BY DEF Parked
<1>2. [q EXCEPT !.promised = FALSE] \in Parked
  BY DEF Parked
<1>3. ~[q EXCEPT !.promised = FALSE].promised
  BY DEF Parked
<1>4. ASSUME q.waited < DrainMaxWait, DrainMaxWait \in Nat
      PROVE  [q EXCEPT !.waited = @ + 1] \in Parked
  <2>1. q.waited + 1 \in 0..DrainMaxWait
    BY <1>1, <1>4
  <2> QED BY <2>1 DEF Parked
<1>5. /\ [q EXCEPT !.waited = @ + 1].waited = q.waited + 1
      /\ [q EXCEPT !.waited = @ + 1].promised = q.promised
  BY DEF Parked
<1> QED BY <1>2, <1>3, <1>4, <1>5

\* Before the first arrival nobody waits.
LEMMA DrainStart == DrainParameters /\ Drain!DrainInit => DrainInv
<1> SUFFICES ASSUME DrainParameters, Drain!DrainInit PROVE DrainInv
  OBVIOUS
<1>1. PICK n \in 0..MaxHolds : ages \in [1..n -> {0}]
  BY DEF Drain!DrainInit
<1>2. ages \in Seq(Nat) /\ \A j \in DOMAIN ages : ages[j] = 0
  BY <1>1 DEF DrainParameters
<1>3. slots \in Nat \ {0} /\ heavy \in BOOLEAN /\ queue = <<>> /\ queue \in Seq(Parked) /\ DOMAIN queue = {}
  <2>1. slots \in 1..MaxSlots /\ heavy = FALSE /\ queue = <<>>
    BY DEF Drain!DrainInit
  <2>2. slots \in Nat \ {0}
    BY <2>1 DEF DrainParameters
  <2>3. queue \in Seq(Parked) /\ DOMAIN queue = {}
    BY <2>1
  <2> QED BY <2>1, <2>2, <2>3
<1>4. \A j \in DOMAIN ages : ages[j] <= Typical
  BY <1>2 DEF DrainParameters
<1>5. DrainTyped
  BY <1>2, <1>3, <1>4 DEF DrainTyped
<1>6. PromisesHold
  BY <1>3 DEF PromisesHold
<1> QED BY <1>5, <1>6 DEF DrainInv

\* An arrival is promised what the estimate says, and takes nothing from those before it.
LEMMA ArriveKeeps ==
  ASSUME DrainParameters, DrainInv, Drain!Arrive PROVE DrainInv'
<1> DEFINE call == [waited |-> 0, promised |-> Drain!Admits(Len(queue))]
           parked == Append(queue, call)
<1>1. slots \in Nat \ {0} /\ DrainTyped /\ slots' = slots /\ heavy' = heavy
      /\ ages \in Seq(Nat) /\ queue \in Seq(Parked) /\ Len(ages) \in Nat /\ Len(queue) \in Nat
  BY DEF DrainInv, DrainTyped, Drain!Arrive
<1>2. CASE ages' = ages /\ queue' = queue
  BY <1>1, <1>2 DEF DrainInv, DrainTyped, PromisesHold, BeginsBy, LeftOf
<1>3. CASE Drain!Dispatch(ages, parked)
  <2>1. call \in Parked
    BY DEF Parked, Drain!Admits, DrainParameters
  <2> HIDE DEF call
  <2>2. parked \in Seq(Parked) /\ Len(parked) = Len(queue) + 1 /\ parked[Len(queue) + 1] = call
        /\ \A i \in 1..Len(queue) : parked[i] = queue[i]
    BY <1>1, <2>1
  <2> HIDE DEF parked
  <2>3. ~heavy => \A j \in 1..Len(ages) : ages[j] <= Typical
    BY <1>1 DEF DrainTyped
  <2>4. DrainTyped'
    BY <1>1, <1>3, <2>2, <2>3, DispatchTyped
  <2>5. ASSUME ~heavy, NEW i \in DOMAIN queue', queue'[i].promised,
               NEW U \in SUBSET DOMAIN ages', Cardinality(U) = slots
        PROVE  SumOf([j \in DOMAIN ages' |->
                        Begins(DrainMaxWait - queue'[i].waited, Typical - ages'[j], Typical)], U) >= i
    <3>1. i \in 1..Len(queue') /\ queue' # <<>>
      BY <2>4, <2>5 DEF DrainTyped
    <3>2. Len(ages) >= slots
      <4> SUFFICES ASSUME Len(ages) < slots PROVE FALSE
        BY <1>1
      <4>1. queue = <<>> /\ Len(parked) = 1
        BY <1>1, <2>2 DEF DrainTyped
      <4>2. LetIn(ages, parked) = 1
        BY <1>1, <4>1, LetInIs
      <4>3. Len(queue') = 0
        BY <1>1, <1>3, <2>2, <4>1, <4>2, DispatchIs
      <4> QED BY <3>1, <4>3
    <3>3. ages' = ages /\ queue' = parked
      <4>1. LetIn(ages, parked) = 0
        BY <1>1, <2>2, <3>2, LetInIs
      <4> QED BY <1>1, <1>3, <2>2, <4>1, DispatchIs
    <3>4. CASE i \in 1..Len(queue)
      <4>1. queue'[i] = queue[i] /\ i \in DOMAIN queue
        BY <1>1, <2>2, <3>3, <3>4
      <4>2. SumOf(BeginsBy(LeftOf(i)), U) >= i
        BY <2>5, <3>3, <4>1 DEF DrainInv, PromisesHold
      <4> QED BY <3>3, <4>1, <4>2 DEF BeginsBy, LeftOf
    <3>5. CASE i = Len(queue) + 1
      <4>1. queue'[i] = call
        BY <2>2, <3>3, <3>5
      <4>2. Drain!Admits(Len(queue)) /\ DrainMaxWait - queue'[i].waited = DrainMaxWait
        BY <2>5, <4>1 DEF call, DrainParameters
      <4>3. SumOf(BeginsBy(DrainMaxWait), U) >= Len(queue) + 1
        BY <1>1, <2>5, <3>2, <3>3, <4>2, AdmittedWithin
      <4> QED BY <3>3, <3>5, <4>2, <4>3 DEF BeginsBy
    <3> QED BY <1>1, <2>2, <3>1, <3>3, <3>4, <3>5
  <2>6. PromisesHold'
    BY <1>1, <2>5 DEF PromisesHold, BeginsBy, LeftOf
  <2> QED BY <2>4, <2>6 DEF DrainInv
<1> QED BY <1>2, <1>3 DEF Drain!Arrive

\* A tick brings the ends of the holds and the deadlines closer alike.
LEMMA TickHolds ==
  ASSUME DrainParameters, DrainInv, Drain!Tick PROVE DrainInv'
<1>1. DrainTyped /\ slots' = slots /\ slots \in Nat \ {0} /\ DOMAIN ages = 1..Len(ages) /\ Len(ages) \in Nat
      /\ DOMAIN queue = 1..Len(queue) /\ Len(queue) \in Nat
  BY DEF DrainInv, DrainTyped, Drain!Tick
<1>2. /\ ages' = [j \in DOMAIN ages |-> ages[j] + 1]
      /\ queue' = [i \in DOMAIN queue |-> [queue[i] EXCEPT !.waited = @ + 1]]
      /\ heavy' = (heavy \/ \E j \in DOMAIN ages : ages[j] >= Typical)
      /\ \A i \in DOMAIN queue : queue[i].waited < DrainMaxWait
  BY DEF Drain!Tick
<1>3. \A j \in DOMAIN ages : ages[j] \in Nat
  BY AgesAre DEF DrainInv
<1>4. \A i \in DOMAIN queue :
        /\ queue[i].waited \in Nat
        /\ queue'[i].waited = queue[i].waited + 1 /\ queue'[i].promised = queue[i].promised
        /\ queue'[i] \in Parked
  <2> TAKE i \in DOMAIN queue
  <2>1. queue[i] \in Parked /\ queue[i].waited \in Nat /\ queue[i].waited < DrainMaxWait
    BY <1>1, <1>2, QueueIs
  <2>2. queue'[i] = [queue[i] EXCEPT !.waited = @ + 1]
    BY <1>2
  <2>3. DrainMaxWait \in Nat
    BY DEF DrainParameters
  <2> QED BY <2>1, <2>2, <2>3, ParkedOn
<1>5. ages' \in Seq(Nat) /\ queue' \in Seq(Parked) /\ Len(ages') = Len(ages) /\ Len(queue') = Len(queue)
      /\ DOMAIN ages' = DOMAIN ages /\ DOMAIN queue' = DOMAIN queue
  <2>1. ages' \in [1..Len(ages) -> Nat]
    BY <1>1, <1>2, <1>3
  <2>2. queue' \in [1..Len(queue) -> Parked]
    <3>1. queue' = [i \in 1..Len(queue) |-> queue'[i]]
      BY <1>1, <1>2, Zenon
    <3> QED BY <1>1, <1>4, <3>1
  <2> QED BY <1>1, <2>1, <2>2
<1>6. DrainTyped'
  <2>1. heavy' \in BOOLEAN
    BY <1>2 DEF DrainInv, DrainTyped
  <2>2. ~heavy' => \A j \in DOMAIN ages' : ages'[j] <= Typical
    <3> SUFFICES ASSUME ~heavy', NEW j \in DOMAIN ages PROVE ages'[j] <= Typical
      BY <1>5
    <3>1. ages'[j] = ages[j] + 1 /\ ages[j] \in Nat /\ ~(ages[j] >= Typical)
      BY <1>2, <1>3
    <3> QED BY <3>1 DEF DrainParameters
  <2>3. queue' # <<>> => queue # <<>>
    BY <1>1, <1>5
  <2> QED BY <1>1, <1>5, <2>1, <2>2, <2>3 DEF DrainTyped
<1>7. ASSUME ~heavy', NEW i \in DOMAIN queue', queue'[i].promised,
             NEW U \in SUBSET DOMAIN ages', Cardinality(U) = slots
      PROVE  SumOf([j \in DOMAIN ages' |->
                      Begins(DrainMaxWait - queue'[i].waited, Typical - ages'[j], Typical)], U) >= i
  <2>1. SumOf(BeginsBy(LeftOf(i)), U) >= i
    BY <1>2, <1>4, <1>5, <1>7 DEF DrainInv, PromisesHold
  <2>2. \A j \in DOMAIN ages : Begins(DrainMaxWait - queue'[i].waited, Typical - ages'[j], Typical) =
                               Begins(LeftOf(i), Typical - ages[j], Typical)
    <3> TAKE j \in DOMAIN ages
    <3> DEFINE h == LeftOf(i)
               b == Typical - ages[j]
    <3>1. h \in Int /\ b \in Int
      BY <1>3, <1>4, <1>5, <1>7 DEF LeftOf, Parked, DrainParameters
    <3>2. DrainMaxWait - queue'[i].waited = h - 1 /\ Typical - ages'[j] = b - 1
      <4>1. ages'[j] = ages[j] + 1 /\ ages[j] \in Nat
        BY <1>2, <1>3
      <4>2. queue'[i].waited = queue[i].waited + 1 /\ queue[i].waited \in Nat
        BY <1>4, <1>5, <1>7
      <4> QED BY <4>1, <4>2 DEF LeftOf, DrainParameters
    <3> HIDE DEF h, b
    <3>3. (b - 1 <= h - 1 <=> b <= h) /\ (h - 1) - (b - 1) = h - b
      BY <3>1
    <3>4. Begins(h - 1, b - 1, Typical) = Begins(h, b, Typical)
      BY <3>3 DEF Begins
    <3> QED BY <3>2, <3>4 DEF h, b
  <2>3. [j \in DOMAIN ages' |-> Begins(DrainMaxWait - queue'[i].waited, Typical - ages'[j], Typical)]
        = BeginsBy(LeftOf(i))
    BY <1>5, <2>2 DEF BeginsBy
  <2> QED BY <2>1, <2>3
<1>8. PromisesHold'
  BY <1>1, <1>7 DEF PromisesHold, BeginsBy, LeftOf
<1> QED BY <1>6, <1>8 DEF DrainInv

\* Whoever gives up makes room for those behind it.
LEMMA GiveUpKeeps ==
  ASSUME DrainParameters, DrainInv, Drain!GiveUp PROVE DrainInv'
<1>1. /\ DrainTyped /\ slots' = slots /\ ages' = ages /\ heavy' = heavy
      /\ queue # <<>> /\ queue' = Tail(queue) /\ queue \in Seq(Parked)
  BY DEF DrainInv, DrainTyped, Drain!GiveUp
<1>2. queue' \in Seq(Parked) /\ Len(queue') = Len(queue) - 1 /\ Len(queue) \in Nat
      /\ \A i \in DOMAIN queue' : i \in Nat /\ i + 1 \in DOMAIN queue /\ queue'[i] = queue[i + 1]
  BY <1>1
<1>3. DrainTyped'
  BY <1>1, <1>2 DEF DrainTyped
<1>4. ASSUME ~heavy, NEW i \in DOMAIN queue', queue'[i].promised,
             NEW U \in SUBSET DOMAIN ages, Cardinality(U) = slots
      PROVE  SumOf(BeginsBy(DrainMaxWait - queue'[i].waited), U) >= i
  <2>1. SumOf(BeginsBy(LeftOf(i + 1)), U) >= i + 1
    BY <1>2, <1>4 DEF DrainInv, PromisesHold
  <2>2. DrainMaxWait - queue'[i].waited = LeftOf(i + 1) /\ i \in Nat
    BY <1>2, <1>4 DEF LeftOf
  <2>3. SumOf(BeginsBy(LeftOf(i + 1)), U) \in Int
    <3>1. IsFiniteSet(U)
      BY <1>1, AgesAre, FS_Subset
    <3>2. \A j \in U : BeginsBy(LeftOf(i + 1))[j] \in Int
      <4> TAKE j \in U
      <4>1. LeftOf(i + 1) \in Int /\ Typical - ages[j] \in Int /\ Typical \in Nat \ {0}
        <5>1. queue[i + 1].waited \in Nat
          BY <1>1, <1>2, <1>4, QueueIs
        <5>2. ages[j] \in Nat
          BY <1>1, AgesAre
        <5> QED BY <5>1, <5>2 DEF LeftOf, DrainParameters
      <4> QED BY <4>1, StartsTyped DEF BeginsBy
    <3> QED BY <3>1, <3>2, SumTake
  <2> QED BY <2>1, <2>2, <2>3
<1>5. PromisesHold'
  BY <1>1, <1>4 DEF PromisesHold, BeginsBy, LeftOf
<1> QED BY <1>3, <1>5 DEF DrainInv

\* A pushback voids the promises.
LEMMA ShrinkKeeps ==
  ASSUME DrainParameters, DrainInv, Drain!Shrink PROVE DrainInv'
<1>1. DrainTyped /\ slots > 1 /\ slots' = slots - 1 /\ ages' = ages /\ heavy' = heavy
      /\ queue' = [i \in DOMAIN queue |-> [queue[i] EXCEPT !.promised = FALSE]]
      /\ queue \in Seq(Parked) /\ slots \in Nat
  BY DEF DrainInv, DrainTyped, Drain!Shrink
<1>2. queue' \in Seq(Parked) /\ Len(queue') = Len(queue) /\ \A i \in DOMAIN queue' : ~queue'[i].promised
  <2>1. DOMAIN queue = 1..Len(queue) /\ Len(queue) \in Nat /\ \A i \in DOMAIN queue : queue[i] \in Parked
    BY <1>1
  <2>2. \A i \in DOMAIN queue : queue'[i] \in Parked /\ ~queue'[i].promised
    <3> TAKE i \in DOMAIN queue
    <3>1. queue'[i] = [queue[i] EXCEPT !.promised = FALSE]
      BY <1>1
    <3> QED BY <2>1, <3>1, ParkedOn
  <2>3. queue' \in [1..Len(queue) -> Parked]
    <3>1. queue' = [i \in 1..Len(queue) |-> queue'[i]]
      BY <1>1, <2>1, Zenon
    <3> QED BY <2>1, <2>2, <3>1
  <2>4. queue' \in Seq(Parked) /\ Len(queue') = Len(queue) /\ DOMAIN queue' = DOMAIN queue
    BY <2>1, <2>3
  <2> QED BY <2>2, <2>4
<1>3. queue' # <<>> => queue # <<>>
  BY <1>1, <1>2
<1>4. Len(ages) \in Nat
  BY <1>1, AgesAre
<1> QED BY <1>1, <1>2, <1>3, <1>4 DEF DrainInv, DrainTyped, PromisesHold

\* The names in "ages" of the calls that go on when call i ends.
Shift(i, j) == IF j < i THEN j ELSE j + 1
OldNames(i, U) == {Shift(i, j) : j \in U}
\* Call i over, the dispatches by h of the others.
GoesOn(g, U, i, h) == \A j \in U : g[j] = Begins(h, Typical - ages[Shift(i, j)], Typical)

\* The holds without one of them are the others, renumbered.
LEMMA RemovedAre ==
  ASSUME DrainTyped, NEW i \in DOMAIN ages
  PROVE  /\ Drain!AllBut(ages, i) \in Seq(Nat) /\ Len(Drain!AllBut(ages, i)) = Len(ages) - 1
         /\ \A j \in 1..(Len(ages) - 1) :
              Shift(i, j) \in DOMAIN ages /\ Drain!AllBut(ages, i)[j] = ages[Shift(i, j)]
<1> DEFINE a == SubSeq(ages, 1, i - 1)
           b == SubSeq(ages, i + 1, Len(ages))
           n == Len(ages)
<1>1. n \in Nat /\ i \in 1..n /\ ages \in Seq(Nat) /\ DOMAIN ages = 1..n
  BY AgesAre DEF DrainTyped
<1>2. a \in Seq(Nat) /\ Len(a) = i - 1 /\ \A j \in 1..(i - 1) : a[j] = ages[j]
  <2> HIDE DEF n
  <2> QED BY <1>1
<1>3. b \in Seq(Nat) /\ Len(b) = n - i /\ \A j \in 1..(n - i) : b[j] = ages[j + i]
  <2>1. \A j \in 1..(n - i) : b[j] = ages[i + 1 + j - 1]
    BY <1>1
  <2>2. \A j \in 1..(n - i) : i + 1 + j - 1 = j + i
    BY <1>1
  <2>3. b \in Seq(Nat) /\ Len(b) = n - i
    BY <1>1
  <2> QED BY <2>1, <2>2, <2>3
<1>4. Drain!AllBut(ages, i) = a \o b
  BY DEF Drain!AllBut
<1> HIDE DEF a, b, n
<1>5. a \o b \in Seq(Nat) /\ Len(a \o b) = n - 1
      /\ \A j \in 1..(n - 1) : (a \o b)[j] = IF j <= i - 1 THEN a[j] ELSE b[j - (i - 1)]
  <2>1. a \o b \in Seq(Nat) /\ Len(a \o b) = Len(a) + Len(b)
        /\ \A j \in 1..(Len(a) + Len(b)) : (a \o b)[j] = IF j <= Len(a) THEN a[j] ELSE b[j - Len(a)]
    <3>1. \A p, q \in Seq(Nat) : /\ p \o q \in Seq(Nat) /\ Len(p \o q) = Len(p) + Len(q)
            /\ \A j \in 1..(Len(p) + Len(q)) : (p \o q)[j] = IF j <= Len(p) THEN p[j] ELSE q[j - Len(p)]
      OBVIOUS
    <3> QED BY <1>2, <1>3, <3>1
  <2>2. Len(a) + Len(b) = n - 1
    BY <1>1, <1>2, <1>3
  <2> QED BY <1>2, <2>1, <2>2
<1>6. ASSUME NEW j \in 1..(n - 1)
      PROVE  Shift(i, j) \in 1..n /\ (a \o b)[j] = ages[Shift(i, j)]
  <2>1. CASE j < i
    <3>1. j \in 1..(i - 1) /\ j <= i - 1 /\ j \in 1..n
      BY <1>1, <2>1
    <3> QED BY <1>2, <1>5, <2>1, <3>1 DEF Shift
  <2>2. CASE ~(j < i)
    <3>1. j - (i - 1) \in 1..(n - i) /\ ~(j <= i - 1) /\ j - (i - 1) + i = j + 1 /\ j + 1 \in 1..n
      BY <1>1, <2>2
    <3> QED BY <1>3, <1>5, <2>2, <3>1 DEF Shift
  <2> QED BY <2>1, <2>2
<1>7. n = Len(ages)
  BY DEF n
<1> QED BY <1>1, <1>4, <1>5, <1>6, <1>7

\* What the calls that go on come to, by their old and by their new names.
LEMMA ShiftedSum ==
  ASSUME DrainTyped, DrainParameters, NEW i \in DOMAIN ages, NEW h \in Int,
         NEW U \in SUBSET (1..(Len(ages) - 1)), NEW g,
         GoesOn(g, U, i, h)
  PROVE  /\ OldNames(i, U) \in SUBSET (DOMAIN ages \ {i})
         /\ IsFiniteSet(U) /\ IsFiniteSet(OldNames(i, U))
         /\ Cardinality(OldNames(i, U)) = Cardinality(U)
         /\ SumOf(g, U) = SumOf(BeginsBy(h), OldNames(i, U))
<1> DEFINE f == BeginsBy(h)
           name == [j \in U |-> Shift(i, j)]
           N == OldNames(i, U)
<1>1. Len(ages) \in Nat /\ DOMAIN ages = 1..Len(ages) /\ i \in 1..Len(ages)
  BY AgesAre
<1>2. \A j \in U : Shift(i, j) \in DOMAIN ages /\ Shift(i, j) # i
  BY <1>1 DEF Shift
<1>3. \A j, k \in U : Shift(i, j) = Shift(i, k) => j = k
  BY <1>1 DEF Shift
<1>4. IsFiniteSet(U)
  <2>1. 1 \in Int /\ Len(ages) - 1 \in Int
    BY <1>1
  <2>2. IsFiniteSet(1..(Len(ages) - 1))
    BY <2>1, FS_Interval, Zenon
  <2> QED BY <2>2, FS_Subset
<1>5. name \in Surjection(U, N) /\ name \in Injection(U, N)
  BY <1>3 DEF Surjection, Injection, IsInjective, OldNames
<1>6. IsFiniteSet(N) /\ Cardinality(N) = Cardinality(U)
  <2> HIDE DEF name, N
  <2> QED BY <1>4, <1>5, FS_Surjection
<1>7. \A j \in U : f[name[j]] \in Int /\ g[j] = f[name[j]]
  <2> TAKE j \in U
  <2>1. f[name[j]] = Begins(h, Typical - ages[Shift(i, j)], Typical)
    BY <1>2 DEF BeginsBy
  <2>2. ages[Shift(i, j)] \in Nat
    BY <1>2, AgesAre
  <2>3. Typical - ages[Shift(i, j)] \in Int /\ Typical \in Nat \ {0}
    BY <2>2 DEF DrainParameters
  <2>4. Begins(h, Typical - ages[Shift(i, j)], Typical) \in Nat
    BY <2>3, StartsTyped
  <2>5. g[j] = Begins(h, Typical - ages[Shift(i, j)], Typical)
    BY DEF GoesOn
  <2> HIDE DEF f, name
  <2> QED BY <2>1, <2>4, <2>5
<1>8. SumOf(g, U) = SumOf(f, Renamed(name, U))
  <2>1. \A j, k \in U : name[j] = name[k] => j = k
    BY <1>3
  <2> HIDE DEF name, f
  <2>2. Renames(name, g, f, U)
    BY <1>4, <1>7, <2>1 DEF Renames
  <2> QED BY <2>2, SumRenamed
<1>9. Renamed(name, U) = N
  BY DEF Renamed, OldNames
<1>10. N \in SUBSET (DOMAIN ages \ {i})
  BY <1>2 DEF OldNames
<1> QED BY <1>4, <1>6, <1>8, <1>9, <1>10

\* A completion dispatches one call and uses up one dispatch, whichever hold it ends.
LEMMA CompleteKeeps ==
  ASSUME DrainParameters, DrainInv, Drain!Complete PROVE DrainInv'
<1>1. PICK i \in DOMAIN ages : Drain!Dispatch(Drain!AllBut(ages, i), queue)
  BY DEF Drain!Complete
<1> DEFINE holds == Drain!AllBut(ages, i)
           n == LetIn(holds, queue)
<1>2. DrainTyped /\ slots \in Nat \ {0} /\ slots' = slots /\ heavy' = heavy /\ queue \in Seq(Parked)
      /\ Len(queue) \in Nat /\ DOMAIN queue = 1..Len(queue)
  BY DEF DrainInv, DrainTyped, Drain!Complete
<1>3. Len(ages) \in Nat /\ DOMAIN ages = 1..Len(ages) /\ IsFiniteSet(DOMAIN ages)
      /\ Cardinality(DOMAIN ages) = Len(ages) /\ \A j \in DOMAIN ages : ages[j] \in Nat
  BY <1>2, AgesAre
<1>4. holds \in Seq(Nat) /\ Len(holds) = Len(ages) - 1 /\ Len(holds) \in Nat
      /\ \A j \in 1..Len(holds) : Shift(i, j) \in DOMAIN ages /\ holds[j] = ages[Shift(i, j)]
  <2>1. holds \in Seq(Nat) /\ Len(holds) = Len(ages) - 1
        /\ \A j \in 1..(Len(ages) - 1) : Shift(i, j) \in DOMAIN ages /\ holds[j] = ages[Shift(i, j)]
    BY <1>2, RemovedAre
  <2> HIDE DEF holds
  <2>2. Len(holds) \in Nat
    BY <2>1
  <2> QED BY <2>1, <2>2
<1> HIDE DEF holds
<1>5. Drain!Dispatch(holds, queue)
  BY <1>1 DEF holds
<1>6. DrainTyped'
  <2>1. ~heavy => \A j \in 1..Len(holds) : holds[j] <= Typical
    BY <1>2, <1>4 DEF DrainTyped
  <2> QED BY <1>2, <1>4, <1>5, <2>1, DispatchTyped
<1>7. /\ ages' \in Seq(Nat) /\ Len(ages') = Len(holds) + n
      /\ \A j \in 1..Len(ages') : ages'[j] = IF j <= Len(holds) THEN holds[j] ELSE 0
      /\ queue' \in Seq(Parked) /\ Len(queue') = Len(queue) - n
      /\ \A k \in 1..Len(queue') : queue'[k] = queue[k + n]
      /\ n \in 0..Len(queue)
      /\ Len(holds) >= slots => n = 0
      /\ Len(holds) + 1 = slots /\ Len(queue) >= 1 => n = 1
  BY <1>2, <1>4, <1>5, DispatchIs, LetInIs
<1> HIDE DEF n
<1>8. ASSUME ~heavy, NEW k \in DOMAIN queue', queue'[k].promised,
             NEW U \in SUBSET DOMAIN ages', Cardinality(U) = slots
      PROVE  SumOf([j \in DOMAIN ages' |->
                      Begins(DrainMaxWait - queue'[k].waited, Typical - ages'[j], Typical)], U) >= k
  <2> DEFINE h == DrainMaxWait - queue'[k].waited
             g == [j \in DOMAIN ages' |-> Begins(h, Typical - ages'[j], Typical)]
  <2>1. k \in 1..Len(queue') /\ k \in Nat /\ k + n \in DOMAIN queue /\ queue'[k] = queue[k + n]
        /\ DOMAIN ages' = 1..Len(ages')
    BY <1>2, <1>7, <1>8
  <2>2. Len(ages) >= slots /\ Len(queue) >= 1
    <3>1. queue # <<>> /\ Len(queue) >= 1
      BY <1>2, <2>1
    <3> QED BY <1>2, <3>1 DEF DrainTyped
  <2>3. queue[k + n].waited \in Nat /\ queue[k + n].waited <= DrainMaxWait /\ queue[k + n].promised
    BY <1>2, <1>8, <2>1, QueueIs
  <2>4. h \in Nat /\ h = LeftOf(k + n)
    BY <2>1, <2>3 DEF LeftOf, DrainParameters
  <2> HIDE DEF h
  <2>5. \A V \in SUBSET DOMAIN ages : Cardinality(V) = slots => SumOf(BeginsBy(h), V) >= k + n
    BY <1>8, <2>1, <2>3, <2>4 DEF DrainInv, PromisesHold
  <2>6. \A j \in 1..Len(holds) : j \in DOMAIN ages' => g[j] = Begins(h, Typical - ages[Shift(i, j)], Typical)
    <3> SUFFICES ASSUME NEW j \in 1..Len(holds), j \in DOMAIN ages'
                 PROVE  g[j] = Begins(h, Typical - ages[Shift(i, j)], Typical)
      OBVIOUS
    <3>1. j \in 1..Len(ages') /\ j <= Len(holds)
      BY <1>4, <2>1
    <3>2. ages'[j] = holds[j] /\ holds[j] = ages[Shift(i, j)]
      BY <1>4, <1>7, <3>1
    <3> QED BY <3>2
  <2>7. CASE Len(ages) > slots
    <3>1. n = 0 /\ DOMAIN ages' = 1..(Len(ages) - 1)
      <4>1. Len(holds) >= slots
        BY <1>2, <1>3, <1>4, <2>7
      <4>2. n = 0 /\ Len(ages') = Len(holds) + n
        BY <1>7, <4>1
      <4>3. Len(ages') = Len(ages) - 1
        BY <1>3, <1>4, <4>2
      <4> QED BY <2>1, <4>2, <4>3
    <3>2. GoesOn(g, U, i, h)
      BY <1>4, <2>6, <3>1 DEF GoesOn
    <3> DEFINE V == OldNames(i, U)
    <3>3. V \in SUBSET DOMAIN ages /\ Cardinality(V) = slots /\ SumOf(g, U) = SumOf(BeginsBy(h), V)
      <4>1. U \in SUBSET (1..(Len(ages) - 1)) /\ h \in Int
        BY <2>4, <3>1
      <4>2. \A A \in SUBSET (DOMAIN ages \ {i}) : A \in SUBSET DOMAIN ages
        OBVIOUS
      <4> HIDE DEF g
      <4> QED BY <1>2, <1>8, <3>2, <4>1, <4>2, ShiftedSum
    <3> HIDE DEF V, g
    <3>4. SumOf(g, U) >= k
      BY <2>1, <2>5, <3>1, <3>3
    <3> QED BY <3>4 DEF g, h
  <2>8. CASE Len(ages) = slots
    <3>1. n = 1 /\ Len(ages') = Len(ages) /\ DOMAIN ages' = DOMAIN ages
      BY <1>2, <1>3, <1>4, <1>7, <2>1, <2>2, <2>8
    <3>2. U = DOMAIN ages
      BY <1>3, <1>8, <2>8, <3>1, FS_Subset
    <3> DEFINE L == Len(ages)
               W == 1..(L - 1)
               V == OldNames(i, W)
    <3>3. L \in DOMAIN ages /\ DOMAIN ages \ {L} = W
      BY <1>2, <1>3, <2>8
    <3>4. GoesOn(g, W, i, h)
      BY <1>3, <1>4, <2>6, <3>1 DEF GoesOn
    <3>5. V \in SUBSET (DOMAIN ages \ {i}) /\ IsFiniteSet(V) /\ Cardinality(V) = Cardinality(W)
          /\ IsFiniteSet(W) /\ SumOf(g, W) = SumOf(BeginsBy(h), V)
      <4>1. W \in SUBSET (1..(Len(ages) - 1)) /\ h \in Int
        BY <2>4
      <4> HIDE DEF g, W
      <4> QED BY <1>2, <3>4, <4>1, ShiftedSum
    <3>6. V = DOMAIN ages \ {i}
      <4>1. Cardinality(W) = Cardinality(DOMAIN ages) - 1
        BY <1>3, <3>3, FS_RemoveElement
      <4>2. Cardinality(DOMAIN ages \ {i}) = Cardinality(DOMAIN ages) - 1 /\ IsFiniteSet(DOMAIN ages \ {i})
        BY <1>3, FS_RemoveElement
      <4> HIDE DEF V, W
      <4> QED BY <3>5, <4>1, <4>2, FS_Subset
    <3>7. g[L] = Begins(h, Typical, Typical)
      <4>1. L \in 1..Len(ages') /\ ~(L <= Len(holds))
        BY <1>2, <1>3, <1>4, <2>8, <3>1
      <4>2. ages'[L] = 0
        BY <1>7, <4>1
      <4>3. Typical - 0 = Typical
        BY DEF DrainParameters
      <4> QED BY <2>1, <4>1, <4>2, <4>3
    <3>8. \A j \in DOMAIN ages : BeginsBy(h)[j] \in Int /\ g[j] \in Int
      <4> TAKE j \in DOMAIN ages
      <4>1. Typical - ages[j] \in Int /\ h \in Int /\ Typical \in Nat \ {0}
        BY <1>3, <2>4 DEF DrainParameters
      <4>2. ages'[j] \in Nat
        <5>1. j \in 1..Len(ages')
          BY <3>1, <2>1
        <5> QED BY <1>7, <5>1
      <4>3. Typical - ages'[j] \in Int
        BY <4>2 DEF DrainParameters
      <4>4. Begins(h, Typical - ages[j], Typical) \in Nat /\ Begins(h, Typical - ages'[j], Typical) \in Nat
        BY <4>1, <4>3, StartsTyped
      <4>5. BeginsBy(h)[j] = Begins(h, Typical - ages[j], Typical)
        BY DEF BeginsBy
      <4>6. g[j] = Begins(h, Typical - ages'[j], Typical)
        BY <3>1
      <4> QED BY <4>4, <4>5, <4>6
    <3>9. BeginsBy(h)[i] <= g[L] + 1
      <4> DEFINE a == Typical - ages[i]
      <4>1. a \in Nat /\ h \in Nat /\ Typical \in Nat \ {0}
        BY <1>2, <1>3, <1>8, <2>4 DEF DrainTyped, DrainParameters
      <4>2. BeginsBy(h)[i] = Begins(h, a, Typical)
        BY DEF BeginsBy
      <4> HIDE DEF a
      <4>3. Begins(h, a, Typical) <= Begins(h, 0, Typical)
        BY <4>1, StartsFall
      <4>4. Begins(h, 0, Typical) = Begins(h, 0 + Typical, Typical) + 1
        <5>1. h \in Int /\ 0 \in Int /\ 0 <= h
          BY <4>1
        <5> QED BY <4>1, <5>1, StartsNext
      <4>5. 0 + Typical = Typical
        BY <4>1
      <4> HIDE DEF g
      <4> QED BY <3>7, <4>2, <4>3, <4>4, <4>5
    <3> HIDE DEF g, W, V
    <3>10. SumOf(g, U) = g[L] + SumOf(g, W) /\ SumOf(g, W) \in Int
      <4>1. \A j \in W : g[j] \in Int
        BY <3>3, <3>8
      <4>2. SumOf(g, DOMAIN ages) = g[L] + SumOf(g, DOMAIN ages \ {L})
        <5>1. \A j \in DOMAIN ages : g[j] \in Int
          BY <3>8
        <5>2. \A x \in DOMAIN ages : SumOf(g, DOMAIN ages) = g[x] + SumOf(g, DOMAIN ages \ {x})
          BY <1>3, <5>1, SumTake
        <5> QED BY <3>3, <5>2
      <4>3. SumOf(g, W) \in Int
        BY <3>5, <4>1, SumTake
      <4> QED BY <3>2, <3>3, <4>2, <4>3
    <3>11. SumOf(BeginsBy(h), DOMAIN ages) = BeginsBy(h)[i] + SumOf(BeginsBy(h), V)
      <4>1. SumOf(BeginsBy(h), DOMAIN ages) = BeginsBy(h)[i] + SumOf(BeginsBy(h), DOMAIN ages \ {i})
        <5>1. \A j \in DOMAIN ages : BeginsBy(h)[j] \in Int
          BY <3>8
        <5> DEFINE f == BeginsBy(h)
        <5> HIDE DEF f
        <5>2. SumOf(f, DOMAIN ages) = f[i] + SumOf(f, DOMAIN ages \ {i})
          BY <1>3, <5>1, SumTake DEF f
        <5> QED BY <5>2 DEF f
      <4> QED BY <3>6, <4>1
    <3>12. SumOf(BeginsBy(h), DOMAIN ages) >= k + 1
      BY <1>3, <2>5, <2>8, <3>1
    <3>13. g[L] \in Int /\ BeginsBy(h)[i] \in Int
      BY <3>3, <3>8
    <3> HIDE DEF L
    <3>14. SumOf(g, U) >= k
      BY <2>1, <3>5, <3>9, <3>10, <3>11, <3>12, <3>13
    <3> QED BY <3>14 DEF g, h
  <2> QED BY <1>2, <1>3, <2>2, <2>7, <2>8
<1>9. PromisesHold'
  BY <1>2, <1>8 DEF PromisesHold, BeginsBy, LeftOf
<1> QED BY <1>6, <1>9 DEF DrainInv

\* Every step of the lane keeps the invariant.
LEMMA DrainStep == DrainParameters /\ DrainInv /\ [Drain!DrainNext]_(Drain!drainVars) => DrainInv'
<1> SUFFICES ASSUME DrainParameters, DrainInv, [Drain!DrainNext]_(Drain!drainVars) PROVE DrainInv'
  OBVIOUS
<1>1. CASE UNCHANGED Drain!drainVars
  BY <1>1 DEF Drain!drainVars, DrainInv, DrainTyped, PromisesHold, BeginsBy, LeftOf
<1> QED BY <1>1, ArriveKeeps, CompleteKeeps, TickHolds, GiveUpKeeps, ShrinkKeeps DEF Drain!DrainNext

(* The greedy schedule. *)

\* The earliest free server, when, and what is free after it has taken a call.
AtOf(F) == Drain!Min(Drain!Range(F))
ServerOf(F) == Drain!Min({i \in DOMAIN F : F[i] = AtOf(F)})
Served(F, s) == [F EXCEPT ![ServerOf(F)] = AtOf(F) + s]
\* All dispatches by h.
Comes(F, h, s) == SumOf(BeginsOf(h, F, s), DOMAIN F)

\* After n dispatches, the latest of them at "last", servers A come free as in F: by any
\* later time A comes to n more than F, and never to more than that.
After(A, F, s, n, last, most) ==
  /\ F \in [DOMAIN A -> Nat]
  /\ \A i \in DOMAIN A : last <= F[i] /\ F[i] <= most + n * s
  /\ \A h \in Nat : Comes(A, h, s) <= Comes(F, h, s) + n
  /\ \A h \in Nat : last <= h => Comes(A, h, s) = Comes(F, h, s) + n

\* Min of a set of numbers is its least.
LEMMA DrainLeast ==
  ASSUME NEW T, T \subseteq Nat, T # {}
  PROVE  Drain!Min(T) \in T /\ \A y \in T : Drain!Min(T) <= y
<1>1. \E x \in T : \A y \in T : x <= y
  BY LeastIsThere
<1> QED BY <1>1 DEF Drain!Min

\* Some server is free first.
LEMMA EarliestIs ==
  ASSUME NEW D, D \subseteq Nat, D # {}, NEW F \in [D -> Nat]
  PROVE  /\ AtOf(F) \in Nat /\ ServerOf(F) \in D /\ F[ServerOf(F)] = AtOf(F)
         /\ \A i \in D : AtOf(F) <= F[i]
<1>1. Drain!Range(F) = {F[i] : i \in D}
  BY DEF Drain!Range
<1>2. Drain!Range(F) \subseteq Nat /\ Drain!Range(F) # {} /\ \A i \in D : F[i] \in Drain!Range(F)
  BY <1>1
<1>3. AtOf(F) \in Drain!Range(F) /\ \A y \in Drain!Range(F) : AtOf(F) <= y
  BY <1>2, DrainLeast DEF AtOf
<1> DEFINE T == {i \in DOMAIN F : F[i] = AtOf(F)}
<1>4. T \subseteq Nat /\ T # {}
  BY <1>1, <1>3
<1>5. ServerOf(F) \in T
  <2> HIDE DEF T
  <2>1. Drain!Min(T) \in T
    BY <1>4, DrainLeast
  <2> QED BY <2>1 DEF T, ServerOf
<1> QED BY <1>2, <1>3, <1>5

LEMMA StartsAre ==
  ASSUME NEW D, NEW F \in [D -> Nat], NEW s \in Nat \ {0}, NEW h \in Nat, NEW i \in D
  PROVE  BeginsOf(h, F, s)[i] \in Nat
<1>1. h \in Int /\ F[i] \in Int
  OBVIOUS
<1>2. Begins(h, F[i], s) \in Nat
  BY <1>1, StartsTyped
<1> QED BY <1>2 DEF BeginsOf

LEMMA ComesTyped ==
  ASSUME NEW D, IsFiniteSet(D), NEW F \in [D -> Nat], NEW s \in Nat \ {0}, NEW h \in Nat
  PROVE  Comes(F, h, s) \in Nat
<1> DEFINE f == BeginsOf(h, F, s)
<1>1. \A i \in D : f[i] \in Nat
  BY StartsAre
<1>2. SumOf(f, D) \in Nat
  <2> HIDE DEF f
  <2> QED BY <1>1, SumOfNats
<1> QED BY <1>2 DEF Comes

\* Before the first of them is free, none starts; from then on, one does at least.
LEMMA ComesFrom ==
  ASSUME NEW D, IsFiniteSet(D), D \subseteq Nat, D # {}, NEW F \in [D -> Nat], NEW s \in Nat \ {0}, NEW h \in Nat
  PROVE  /\ h < AtOf(F) => Comes(F, h, s) = 0
         /\ AtOf(F) <= h => Comes(F, h, s) >= 1
<1> DEFINE f == BeginsOf(h, F, s)
           x == ServerOf(F)
<1>1. AtOf(F) \in Nat /\ x \in D /\ F[x] = AtOf(F) /\ \A i \in D : AtOf(F) <= F[i]
  BY EarliestIs
<1>2. \A i \in D : f[i] \in Nat /\ f[i] = Begins(h, F[i], s)
  <2> TAKE i \in D
  <2>1. BeginsOf(h, F, s)[i] \in Nat
    BY StartsAre
  <2>2. BeginsOf(h, F, s)[i] = Begins(h, F[i], s)
    BY DEF BeginsOf
  <2> QED BY <2>1, <2>2
<1>3. Comes(F, h, s) = SumOf(f, D)
  BY DEF Comes
<1>4. ASSUME h < AtOf(F) PROVE Comes(F, h, s) = 0
  <2>1. \A i \in D : f[i] = 0
    <3> TAKE i \in D
    <3>1. ~(F[i] <= h)
      BY <1>1, <1>4
    <3> QED BY <1>2, <3>1 DEF Begins
  <2> HIDE DEF f
  <2> QED BY <1>3, <2>1, SumOfNone
<1>5. ASSUME AtOf(F) <= h PROVE Comes(F, h, s) >= 1
  <2>1. f[x] >= 1
    <3>1. f[x] = (h - F[x]) \div s + 1
      BY <1>1, <1>2, <1>5 DEF Begins
    <3>2. h - F[x] \in Nat
      BY <1>1, <1>5
    <3>3. (h - F[x]) \div s \in Nat
      BY <3>2
    <3> HIDE DEF f
    <3> QED BY <3>1, <3>3
  <2> HIDE DEF f, x
  <2>2. SumOf(f, D) = f[x] + SumOf(f, D \ {x})
    <3>1. \A i \in D : f[i] \in Int
      BY <1>2
    <3>2. \A y \in D : SumOf(f, D) = f[y] + SumOf(f, D \ {y})
      BY <3>1, SumTake
    <3> QED BY <1>1, <3>2
  <2>3. SumOf(f, D \ {x}) \in Nat
    <3>1. IsFiniteSet(D \ {x}) /\ \A i \in D \ {x} : f[i] \in Nat
      BY <1>2, FS_Subset
    <3> QED BY <3>1, SumOfNats
  <2>4. f[x] \in Nat
    BY <1>1, <1>2
  <2> QED BY <1>3, <2>1, <2>2, <2>3, <2>4
<1> QED BY <1>4, <1>5

\* The server that takes the next call makes one dispatch less from then on.
LEMMA ServedComes ==
  ASSUME NEW D, IsFiniteSet(D), D \subseteq Nat, D # {}, NEW F \in [D -> Nat], NEW s \in Nat \ {0}, NEW h \in Nat,
         AtOf(F) <= h
  PROVE  Comes(F, h, s) = Comes(Served(F, s), h, s) + 1
<1> DEFINE G == Served(F, s)
           f == BeginsOf(h, F, s)
           g == BeginsOf(h, G, s)
           x == ServerOf(F)
<1>1. AtOf(F) \in Nat /\ x \in D /\ F[x] = AtOf(F)
  BY EarliestIs
<1>2. G \in [D -> Nat] /\ G[x] = AtOf(F) + s /\ \A i \in D \ {x} : G[i] = F[i]
  BY <1>1 DEF Served
<1>3. /\ \A i \in D : f[i] \in Nat /\ f[i] = Begins(h, F[i], s)
      /\ \A i \in D : g[i] \in Nat /\ g[i] = Begins(h, G[i], s)
  <2> HIDE DEF G
  <2>1. G \in [D -> Nat]
    BY <1>2
  <2>2. ASSUME NEW i \in D
        PROVE  /\ BeginsOf(h, F, s)[i] \in Nat /\ BeginsOf(h, F, s)[i] = Begins(h, F[i], s)
               /\ BeginsOf(h, G, s)[i] \in Nat /\ BeginsOf(h, G, s)[i] = Begins(h, G[i], s)
    <3>1. BeginsOf(h, F, s)[i] \in Nat
      BY StartsAre
    <3>2. BeginsOf(h, G, s)[i] \in Nat
      BY <2>1, StartsAre
    <3>3. BeginsOf(h, F, s)[i] = Begins(h, F[i], s) /\ BeginsOf(h, G, s)[i] = Begins(h, G[i], s)
      BY <2>1 DEF BeginsOf
    <3> QED BY <3>1, <3>2, <3>3
  <2> QED BY <2>2
<1>4. f[x] = g[x] + 1
  <2>1. Begins(h, AtOf(F), s) = Begins(h, AtOf(F) + s, s) + 1
    <3>1. h \in Int /\ AtOf(F) \in Int
      BY <1>1
    <3> QED BY <3>1, StartsNext
  <2> QED BY <1>1, <1>2, <1>3, <2>1
<1>5. \A i \in D \ {x} : f[i] = g[i]
  BY <1>2, <1>3
<1>6. Comes(F, h, s) = SumOf(f, D) /\ Comes(G, h, s) = SumOf(g, D)
  BY <1>2 DEF Comes
<1>7. x \in D /\ f[x] \in Int /\ g[x] \in Int
  <2> HIDE DEF f, g, x
  <2> QED BY <1>1, <1>3
<1>8. (\A i \in D : f[i] \in Int) /\ (\A i \in D : g[i] \in Int)
  <2> HIDE DEF f, g
  <2> QED BY <1>3
<1> HIDE DEF f, g, x, G
<1>9. SumOf(f, D) = f[x] + SumOf(f, D \ {x}) /\ SumOf(g, D) = g[x] + SumOf(g, D \ {x})
  <2>1. \A y \in D : SumOf(f, D) = f[y] + SumOf(f, D \ {y})
    BY <1>8, SumTake
  <2>2. \A y \in D : SumOf(g, D) = g[y] + SumOf(g, D \ {y})
    BY <1>8, SumTake
  <2> QED BY <1>7, <2>1, <2>2
<1>10. SumOf(f, D \ {x}) = SumOf(g, D \ {x}) /\ SumOf(f, D \ {x}) \in Int
  <2>1. IsFiniteSet(D \ {x}) /\ \A i \in D \ {x} : f[i] \in Int /\ f[i] = g[i]
    BY <1>5, <1>8, FS_Subset
  <2>2. \A i \in D \ {x} : f[i] \in Int
    BY <2>1
  <2>3. SumOf(f, D \ {x}) \in Int
    BY <2>1, <2>2, SumTake
  <2> QED BY <2>1, <2>3, SumSame
<1>11. Comes(F, h, s) = Comes(G, h, s) + 1
  BY <1>4, <1>6, <1>7, <1>9, <1>10
<1> QED BY <1>11 DEF G

\* Before the first dispatch.
LEMMA AfterNone ==
  ASSUME NEW D, IsFiniteSet(D), NEW A \in [D -> Nat], NEW s \in Nat \ {0}, NEW most \in Nat,
         \A i \in D : A[i] <= most
  PROVE  After(A, A, s, 0, 0, most)
<1>1. DOMAIN A = D /\ \A h \in Nat : Comes(A, h, s) \in Nat
  BY ComesTyped
<1>2. most + 0 * s = most
  OBVIOUS
<1>3. \A h \in Nat : Comes(A, h, s) + 0 = Comes(A, h, s)
  BY <1>1
<1>4. \A i \in D : 0 <= A[i] /\ A[i] <= most + 0 * s
  BY <1>2
<1> QED BY <1>1, <1>3, <1>4 DEF After

\* Each dispatch starts no earlier than the one before, and counts for one.
LEMMA AfterNext ==
  ASSUME NEW D, IsFiniteSet(D), D \subseteq Nat, D # {}, NEW A \in [D -> Nat], NEW s \in Nat \ {0},
         NEW most \in Nat, NEW n \in Nat, NEW last \in Nat, NEW F, After(A, F, s, n, last, most)
  PROVE  After(A, Served(F, s), s, n + 1, AtOf(F), most) /\ last <= AtOf(F)
<1> DEFINE G == Served(F, s)
           x == ServerOf(F)
<1>1. DOMAIN A = D /\ F \in [D -> Nat]
  BY DEF After
<1>2. AtOf(F) \in Nat /\ x \in D /\ F[x] = AtOf(F) /\ \A i \in D : AtOf(F) <= F[i]
  BY <1>1, EarliestIs
<1>3. G \in [D -> Nat] /\ G[x] = AtOf(F) + s /\ \A i \in D \ {x} : G[i] = F[i]
  BY <1>1, <1>2 DEF Served
<1>4. last <= AtOf(F) /\ \A i \in D : F[i] <= most + n * s
  BY <1>1, <1>2 DEF After
<1>5. (n + 1) * s = n * s + s /\ n * s \in Nat
  OBVIOUS
<1>6. \A i \in D : AtOf(F) <= G[i] /\ G[i] <= most + (n + 1) * s
  <2> TAKE i \in D
  <2>1. G[i] \in Nat /\ F[i] \in Nat /\ AtOf(F) <= F[i] /\ F[i] <= most + n * s /\ F[x] <= most + n * s
    BY <1>1, <1>2, <1>3, <1>4
  <2>2. CASE i = x
    BY <1>2, <1>3, <1>5, <2>1, <2>2
  <2>3. CASE i # x
    BY <1>2, <1>3, <1>5, <2>1, <2>3
  <2> QED BY <2>2, <2>3
<1> HIDE DEF G
<1>7. ASSUME NEW h \in Nat, AtOf(F) <= h PROVE Comes(A, h, s) = Comes(G, h, s) + (n + 1)
  <2>1. Comes(A, h, s) = Comes(F, h, s) + n
    <3>1. last <= h
      BY <1>2, <1>4, <1>7
    <3> QED BY <3>1 DEF After
  <2>2. Comes(F, h, s) = Comes(G, h, s) + 1
    BY <1>1, <1>7, ServedComes DEF G
  <2>3. Comes(G, h, s) \in Nat
    BY <1>3, ComesTyped
  <2> QED BY <2>1, <2>2, <2>3
<1>8. ASSUME NEW h \in Nat PROVE Comes(A, h, s) <= Comes(G, h, s) + (n + 1)
  <2>1. CASE AtOf(F) <= h
    <3>1. Comes(G, h, s) \in Nat
      BY <1>3, ComesTyped
    <3> QED BY <1>7, <2>1, <3>1
  <2>2. CASE ~(AtOf(F) <= h)
    <3>1. Comes(F, h, s) = 0
      <4>1. h < AtOf(F) => Comes(F, h, s) = 0
        BY <1>1, ComesFrom
      <4> QED BY <1>2, <2>2, <4>1
    <3>2. Comes(A, h, s) <= Comes(F, h, s) + n
      BY DEF After
    <3>3. Comes(G, h, s) \in Nat /\ Comes(A, h, s) \in Nat
      BY <1>3, ComesTyped
    <3> QED BY <3>1, <3>2, <3>3
  <2> QED BY <2>1, <2>2
<1>9. After(A, G, s, n + 1, AtOf(F), most)
  BY <1>1, <1>3, <1>6, <1>7, <1>8 DEF After
<1> QED BY <1>4, <1>9 DEF G

\* One dispatch of the schedule, the schedule up to k, and what is free before each dispatch.
Turn(F) == [at |-> AtOf(F), free |-> Served(F, Drain!Service)]
Schedule(g, k) ==
  g = [n \in 0..k |-> Turn(IF n = 0 THEN Drain!Available ELSE g[n - 1].free)]
Greedy == CHOOSE g : Schedule(g, MaxQueue)
FreeAt(n) == IF n = 0 THEN Drain!Available ELSE Greedy[n - 1].free

\* GreedyStart is when the dispatches of that schedule begin.
LEMMA GreedyStartIs == Drain!GreedyStart = [n \in 0..MaxQueue |-> Greedy[n].at]
BY DEF Drain!GreedyStart, Greedy, Schedule, Turn, AtOf, ServerOf, Served

\* A schedule exists for any number of dispatches.
LEMMA ScheduleExists == ASSUME NEW m \in Nat PROVE \E g : Schedule(g, m)
<1> DEFINE Bad == {k \in Nat : \A g : ~Schedule(g, k)}
<1>1. Bad = {}
  <2> SUFFICES ASSUME Bad # {} PROVE FALSE
    OBVIOUS
  <2>1. PICK k \in Bad : \A j \in Bad : k <= j
    BY LeastIsThere
  <2>2. CASE k = 0
    <3> DEFINE g == [n \in 0..0 |-> Turn(Drain!Available)]
    <3>1. g = [n \in 0..0 |-> Turn(IF n = 0 THEN Drain!Available ELSE g[n - 1].free)]
      OBVIOUS
    <3>2. Schedule(g, 0)
      BY <3>1 DEF Schedule
    <3> QED BY <2>1, <2>2, <3>2
  <2>3. CASE k # 0
    <3>1. k - 1 \in Nat /\ k - 1 \notin Bad
      <4>1. k \in Nat /\ ~(k <= k - 1)
        BY <2>1
      <4> HIDE DEF Bad
      <4> QED BY <2>1, <2>3, <4>1
    <3>2. PICK h : Schedule(h, k - 1)
      BY <3>1
    <3> DEFINE g == [n \in 0..k |-> Turn(IF n = 0 THEN Drain!Available ELSE h[n - 1].free)]
    <3>3. \A n \in 0..(k - 1) : g[n] = h[n]
      <4>1. \A n \in 0..(k - 1) : h[n] = Turn(IF n = 0 THEN Drain!Available ELSE h[n - 1].free)
        BY <3>2 DEF Schedule
      <4>2. \A n \in 0..(k - 1) : n \in 0..k
        BY <3>1
      <4> QED BY <4>1, <4>2
    <3>4. \A n \in 0..k : n # 0 => g[n - 1] = h[n - 1]
      <4>1. \A n \in 0..k : n # 0 => n - 1 \in 0..(k - 1)
        BY <3>1
      <4> HIDE DEF g
      <4> QED BY <3>3, <4>1
    <3>5. g = [n \in 0..k |-> Turn(IF n = 0 THEN Drain!Available ELSE g[n - 1].free)]
      <4>1. \A n \in 0..k : (IF n = 0 THEN Drain!Available ELSE h[n - 1].free) =
                            (IF n = 0 THEN Drain!Available ELSE g[n - 1].free)
        <5> HIDE DEF g
        <5> QED BY <3>4
      <4>2. \A n \in 0..k : Turn(IF n = 0 THEN Drain!Available ELSE h[n - 1].free) =
                            Turn(IF n = 0 THEN Drain!Available ELSE g[n - 1].free)
        <5> HIDE DEF g
        <5> QED BY <4>1, Zenon
      <4> QED BY <4>2, Zenon
    <3>6. Schedule(g, k)
      <4> HIDE DEF g
      <4> QED BY <3>5 DEF Schedule
    <3> QED BY <2>1, <3>6
  <2> QED BY <2>2, <2>3
<1> QED BY <1>1

\* The schedule after n dispatches.
LEMMA GreedyIs ==
  ASSUME DrainTyped, DrainParameters, NEW most \in Nat,
         \A i \in DOMAIN Drain!Available : Drain!Available[i] <= most
  PROVE  \A n \in 0..MaxQueue :
           /\ Greedy[n].at = AtOf(FreeAt(n))
           /\ \E last \in Nat : After(Drain!Available, FreeAt(n), Drain!Service, n, last, most)
<1> DEFINE A == Drain!Available
           D == DOMAIN Drain!Available
           s == Drain!Service
           Fine(n) == \E last \in Nat : After(A, FreeAt(n), s, n, last, most)
           B == {n \in 0..MaxQueue : ~Fine(n)}
<1>1. MaxQueue \in Nat /\ s \in Nat \ {0} /\ IsFiniteSet(D) /\ D \subseteq Nat /\ D # {} /\ A \in [D -> Nat]
  <2>1. \A i \in D : A[i] \in Nat
    BY AvailableIs
  <2>2. A = [i \in D |-> A[i]]
    BY DEF Drain!Available
  <2> QED BY <2>1, <2>2, AvailableIs, ServiceIs DEF DrainParameters
<1>2. Schedule(Greedy, MaxQueue)
  BY <1>1, ScheduleExists DEF Greedy
<1>3. \A n \in 0..MaxQueue : Greedy[n] = Turn(FreeAt(n))
  BY <1>2 DEF Schedule, FreeAt
<1>4. \A n \in 0..MaxQueue : Greedy[n].at = AtOf(FreeAt(n)) /\ Greedy[n].free = Served(FreeAt(n), s)
  <2> TAKE n \in 0..MaxQueue
  <2>1. Greedy[n] = [at |-> AtOf(FreeAt(n)), free |-> Served(FreeAt(n), s)]
    BY <1>3 DEF Turn
  <2> HIDE DEF s
  <2> QED BY <2>1
<1>5. B = {}
  <2> SUFFICES ASSUME B # {} PROVE FALSE
    OBVIOUS
  <2>1. PICK n \in B : \A j \in B : n <= j
    <3>1. B \subseteq Nat
      OBVIOUS
    <3> HIDE DEF B
    <3> QED BY <3>1, LeastIsThere
  <2>2. n \in 0..MaxQueue /\ ~Fine(n) /\ n \in Nat
    BY <2>1
  <2>3. n # 0
    <3> SUFFICES ASSUME n = 0 PROVE FALSE
      OBVIOUS
    <3>1. FreeAt(n) = A
      BY DEF FreeAt
    <3>2. After(A, A, s, 0, 0, most)
      <4> HIDE DEF A, s, D, Fine, B
      <4>1. \A i \in D : A[i] <= most
        BY DEF A, D
      <4> QED BY <1>1, <4>1, AfterNone
    <3> QED BY <2>2, <3>1, <3>2
  <2>4. n - 1 \in 0..MaxQueue /\ n - 1 \in Nat /\ ~(n <= n - 1) /\ n - 1 + 1 = n
    BY <1>1, <2>2, <2>3
  <2>5. Fine(n - 1)
    <3>1. n - 1 \notin B
      BY <2>1, <2>4
    <3> HIDE DEF Fine
    <3> QED BY <2>4, <3>1
  <2>6. PICK last \in Nat : After(A, FreeAt(n - 1), s, n - 1, last, most)
    BY <2>5
  <2>7. FreeAt(n) = Served(FreeAt(n - 1), s)
    BY <1>4, <2>2, <2>3, <2>4 DEF FreeAt
  <2>8. After(A, FreeAt(n), s, n, AtOf(FreeAt(n - 1)), most)
    <3> DEFINE G == FreeAt(n - 1)
               m == n - 1
    <3>1. After(A, G, s, m, last, most) /\ m \in Nat
      BY <2>4, <2>6
    <3> HIDE DEF A, D, s, G, m, Fine, B
    <3>2. After(A, Served(G, s), s, m + 1, AtOf(G), most)
      BY <1>1, <3>1, AfterNext
    <3> QED BY <2>4, <2>7, <3>2 DEF G, m
  <2>9. AtOf(FreeAt(n - 1)) \in Nat
    <3> DEFINE G == FreeAt(n - 1)
    <3>1. G \in [D -> Nat]
      BY <1>1, <2>6 DEF After
    <3> HIDE DEF G, D
    <3>2. AtOf(G) \in Nat
      BY <1>1, <3>1, EarliestIs
    <3> QED BY <3>2 DEF G
  <2> QED BY <2>2, <2>8, <2>9
<1>6. \A n \in 0..MaxQueue : Fine(n)
  BY <1>5
<1> QED BY <1>4, <1>6

\* The wait told is the start in the schedule, and the admission and the depth agree with it.
LEMMA GreedyAre == ASSUME DrainTyped, DrainParameters PROVE Drain!StartsAreGreedy
<1> DEFINE A == Drain!Available
           D == DOMAIN Drain!Available
           s == Drain!Service
           most == Drain!Max(Drain!Range(A))
<1>1. MaxQueue \in Nat /\ DrainMaxWait \in Nat /\ s \in Nat \ {0} /\ IsFiniteSet(D) /\ D \subseteq Nat
      /\ D # {} /\ A \in [D -> Nat]
  <2>1. \A i \in D : A[i] \in Nat
    BY AvailableIs
  <2>2. A = [i \in D |-> A[i]]
    BY DEF Drain!Available
  <2> QED BY <2>1, <2>2, AvailableIs, ServiceIs DEF DrainParameters
<1>2. most \in Nat /\ \A i \in D : A[i] <= most
  <2> DEFINE R == Drain!Range(A)
  <2>1. R = {A[i] : i \in D}
    BY DEF Drain!Range
  <2>2. A \in Surjection(D, R)
    BY <1>1, <2>1 DEF Surjection
  <2>3. R \subseteq Nat /\ R # {} /\ \A i \in D : A[i] \in R
    BY <1>1, <2>1
  <2> HIDE DEF R, A, D
  <2>4. IsFiniteSet(R)
    BY <1>1, <2>2, FS_Surjection
  <2>5. \E x \in R : \A y \in R : x >= y
    BY <2>3, <2>4, GreatestIsThere
  <2>6. Drain!Max(R) \in R /\ \A y \in R : Drain!Max(R) >= y
    BY <2>5 DEF Drain!Max
  <2>7. \A i \in D : A[i] \in Nat /\ A[i] <= Drain!Max(R)
    BY <1>1, <2>3, <2>6
  <2> QED BY <2>3, <2>6, <2>7 DEF R
<1>3. \A h \in Nat : Drain!StartsWithin(A, s, h) = Comes(A, h, s) /\ Comes(A, h, s) \in Nat
  <2> TAKE h \in Nat
  <2>1. \A i \in D : A[i] \in Int
    BY <1>1
  <2> HIDE DEF A, s
  <2>2. DOMAIN A = D /\ h \in Int
    BY <1>1
  <2>3. Drain!StartsWithin(A, s, h) = SumOf(BeginsOf(h, A, s), DOMAIN A)
    BY <1>1, <2>1, <2>2, StartsWithinIs
  <2>4. Comes(A, h, s) \in Nat
    BY <1>1, ComesTyped
  <2> QED BY <2>3, <2>4 DEF Comes
<1> SUFFICES ASSUME NEW n \in 0..MaxQueue
             PROVE  /\ Drain!WaitForPosition(A, s, n) = Drain!GreedyStart[n]
                    /\ Drain!Admits(n) <=> Drain!GreedyStart[n] <= DrainMaxWait
                    /\ n > 0 => (Drain!Admits(n) <=> n <= Drain!MaxDepth)
  BY DEF Drain!StartsAreGreedy
<1> DEFINE F == FreeAt(n)
           at == AtOf(F)
<1>4. Greedy[n].at = at /\ \E last \in Nat : After(A, F, s, n, last, most)
  <2> HIDE DEF most
  <2> QED BY <1>1, <1>2, GreedyIs
<1>5. PICK last \in Nat : After(A, F, s, n, last, most)
  BY <1>4
<1>6. Drain!GreedyStart[n] = at
  BY <1>4, GreedyStartIs
<1> HIDE DEF A, s, most, F, at, D
<1>7. n \in Nat /\ DOMAIN A = D /\ F \in [D -> Nat]
  BY <1>1, <1>5 DEF After
<1>8. at \in Nat /\ last <= at /\ at <= most + n * s
  <2>1. AtOf(F) \in Nat /\ ServerOf(F) \in D /\ F[ServerOf(F)] = AtOf(F)
    BY <1>1, <1>7, EarliestIs
  <2>2. last <= F[ServerOf(F)] /\ F[ServerOf(F)] <= most + n * s
    BY <1>5, <1>7, <2>1 DEF After
  <2> QED BY <2>1, <2>2 DEF at
<1>9. \A h \in Nat : Comes(A, h, s) >= n + 1 <=> at <= h
  <2> TAKE h \in Nat
  <2>1. Comes(F, h, s) \in Nat /\ Comes(A, h, s) \in Nat
    BY <1>1, <1>7, ComesTyped
  <2>2. (h < AtOf(F) => Comes(F, h, s) = 0) /\ (AtOf(F) <= h => Comes(F, h, s) >= 1)
    BY <1>1, <1>7, ComesFrom
  <2>3. CASE at <= h
    <3>1. last <= h
      BY <1>8, <2>3
    <3>2. Comes(A, h, s) = Comes(F, h, s) + n
      BY <1>5, <3>1 DEF After
    <3> QED BY <1>7, <2>1, <2>2, <2>3, <3>2 DEF at
  <2>4. CASE ~(at <= h)
    <3>1. Comes(A, h, s) <= Comes(F, h, s) + n
      BY <1>5 DEF After
    <3>2. Comes(F, h, s) = 0
      BY <1>8, <2>2, <2>4 DEF at
    <3> QED BY <1>7, <2>1, <2>4, <3>1, <3>2
  <2> QED BY <2>3, <2>4
<1>10. Drain!WaitForPosition(A, s, n) = at
  <2> DEFINE T == {h \in 0..(most + (n + 1) * s) : Drain!StartsWithin(A, s, h) >= n + 1}
  <2>1. (n + 1) * s = n * s + s /\ n * s \in Nat /\ (n + 1) * s \in Nat
    BY <1>1, <1>7
  <2>2. at \in 0..(most + (n + 1) * s)
    BY <1>1, <1>2, <1>8, <2>1
  <2>3. T = {h \in 0..(most + (n + 1) * s) : at <= h}
    <3>1. \A h \in 0..(most + (n + 1) * s) : h \in Nat
      OBVIOUS
    <3>2. \A h \in 0..(most + (n + 1) * s) : Drain!StartsWithin(A, s, h) >= n + 1 <=> at <= h
      BY <1>3, <1>9, <3>1
    <3> QED BY <3>2
  <2>4. at \in T /\ \A h \in T : at <= h /\ h \in Nat
    BY <1>8, <2>2, <2>3
  <2>5. T \subseteq Nat /\ T # {}
    BY <2>4
  <2>6. Drain!WaitForPosition(A, s, n) = Drain!Min(T)
    BY DEF Drain!WaitForPosition, Drain!Least, most
  <2> HIDE DEF T
  <2>7. Drain!Min(T) \in T /\ Drain!Min(T) <= at
    BY <2>4, <2>5, DrainLeast
  <2> DEFINE least == Drain!Min(T)
  <2>8. least \in Nat /\ at <= least /\ least <= at
    BY <2>4, <2>7
  <2> HIDE DEF least
  <2>9. least = at
    BY <1>8, <2>8
  <2> QED BY <2>6, <2>9 DEF least
<1>11. Drain!Admits(n) <=> at <= DrainMaxWait
  <2>1. Drain!Admits(n) <=> n <= Comes(A, DrainMaxWait, s) - 1
    BY <1>1, <1>3 DEF Drain!Admits, Drain!AdmissibleAhead, A, s
  <2>2. Comes(A, DrainMaxWait, s) \in Nat
    BY <1>1, <1>3
  <2>3. Comes(A, DrainMaxWait, s) >= n + 1 <=> at <= DrainMaxWait
    BY <1>1, <1>9
  <2> QED BY <1>7, <2>1, <2>2, <2>3
<1>12. n > 0 => (Drain!Admits(n) <=> n <= Drain!MaxDepth)
  <2> DEFINE c == Drain!AdmissibleAhead(DrainMaxWait)
  <2>1. c \in Int
    BY <1>1, <1>3 DEF Drain!AdmissibleAhead, A, s
  <2> HIDE DEF c
  <2>2. Drain!MaxDepth = IF 0 <= c THEN c ELSE 0
    <3>1. Drain!Max({0, c}) = IF 0 <= c THEN c ELSE 0
      BY <2>1, LeastOfTwo
    <3> QED BY <3>1 DEF Drain!MaxDepth, c
  <2>3. Drain!Admits(n) <=> n <= c
    BY DEF Drain!Admits, c
  <2> QED BY <1>7, <2>1, <2>2, <2>3
<1> QED BY <1>6, <1>10, <1>11, <1>12

\* What a limiter tells of the queue holds: a call it lets in on the estimate is dispatched
\* within its budget while none runs longer than measured and no slot is taken away, and the
\* closed form of its wait, its admission and the published depth are those of the schedule
\* they stand for (_compute_drain, _starts_within, limiter.py).
THEOREM DrainEstimatesAreKept == DrainParameters => (DrainSpec => []Drain!EstimatesAreKept)
<1> SUFFICES ASSUME DrainParameters PROVE DrainSpec => []Drain!EstimatesAreKept
  OBVIOUS
<1>1. DrainInv => Drain!EstimatesAreKept
  BY AdmittedAre, GreedyAre DEF Drain!EstimatesAreKept, DrainInv
<1>2. Drain!DrainInit => DrainInv
  BY DrainStart
<1>3. DrainInv /\ [Drain!DrainNext]_(Drain!drainVars) => DrainInv'
  BY DrainStep
<1>4. QED BY <1>1, <1>2, <1>3, PTL DEF DrainSpec
-----------------------------------------------------------------------------
(* Rules: all of them side by side. *)

LEMMA ClientInRules == RulesSpec => Client!Spec
<1>1. RulesInit => Client!Init
  BY DEF RulesInit
<1>2. [RulesNext]_rulesVars => [Client!Next]_(Client!vars)
  BY DEF RulesNext, rulesVars, clientVars, Client!vars, Client!attempt, Client!books
<1>3. QED BY <1>1, <1>2, PTL DEF RulesSpec, Client!Spec

LEMMA BodyInRules == RulesSpec => BodySpec
<1>1. RulesInit => Body!BodyInit
  BY DEF RulesInit
<1>2. [RulesNext]_rulesVars => [Body!BodyNext]_(Body!bodyVars)
  BY DEF RulesNext, rulesVars, bodyVars, Body!bodyVars
<1>3. QED BY <1>1, <1>2, PTL DEF RulesSpec, BodySpec

LEMMA WatchInRules == RulesSpec => WatchSpec
<1>1. RulesInit => Watch!WatchInit
  BY DEF RulesInit
<1>2. [RulesNext]_rulesVars => [Watch!WatchNext]_(Watch!watchVars)
  BY DEF RulesNext, rulesVars, watchVars, Watch!watchVars
<1>3. QED BY <1>1, <1>2, PTL DEF RulesSpec, WatchSpec

LEMMA DrainInRules == RulesSpec => DrainSpec
<1>1. RulesInit => Drain!DrainInit
  BY DEF RulesInit
<1>2. [RulesNext]_rulesVars => [Drain!DrainNext]_(Drain!drainVars)
  BY DEF RulesNext, rulesVars, drainVars, Drain!drainVars
<1>3. QED BY <1>1, <1>2, PTL DEF RulesSpec, DrainSpec

LEMMA LaneInRules == RulesSpec => LaneSpec
<1>1. RulesInit => Lane!FeedbackInit
  BY DEF RulesInit
<1>2. [RulesNext]_rulesVars => [Lane!FeedbackNext]_(Lane!feedbackVars)
  BY DEF RulesNext, rulesVars, laneVars, Lane!feedbackVars
<1>3. QED BY <1>1, <1>2, PTL DEF RulesSpec, LaneSpec

LEMMA PaceInRules == RulesSpec => PaceSpec
<1>1. RulesInit => Pace!PaceInit
  BY DEF RulesInit
<1>2. [RulesNext]_rulesVars => [Pace!PaceNext]_(Pace!paceVars)
  BY DEF RulesNext, rulesVars, paceVars, Pace!paceVars
<1>3. QED BY <1>1, <1>2, PTL DEF RulesSpec, PaceSpec

LEMMA DoorInRules == RulesSpec => DoorSpec
<1>1. RulesInit => Door!HealthInit
  BY DEF RulesInit
<1>2. [RulesNext]_rulesVars => [Door!HealthNext]_(Door!healthVars)
  BY DEF RulesNext, rulesVars, doorVars, Door!healthVars
<1>3. QED BY <1>1, <1>2, PTL DEF RulesSpec, DoorSpec

LEMMA GuardInRules == RulesSpec => Guard!IdentitySpec
<1>1. RulesInit => Guard!IdentityInit
  BY DEF RulesInit
<1>2. [RulesNext]_rulesVars => [Guard!IdentityNext]_(Guard!identityVars)
  BY DEF RulesNext, rulesVars, guardVars, Guard!identityVars, Guard!storeVars
<1>3. QED BY <1>1, <1>2, PTL DEF RulesSpec, Guard!IdentitySpec

\* A call through the queue-wait client ends once, with every rejection by the queue waited
\* for or ended on (queue-wait.mjs).
THEOREM CallsEndAccountedHolds == RulesSpec => []CallsEndAccounted
<1>1. Client!Spec => [](Client!EndsOnce /\ Client!RejectionsAreCounted)
  BY ClientEndsAccounted, RulesAssumption
<1>2. Client!EndsOnce /\ Client!RejectionsAreCounted => CallsEndAccounted
  BY DEF CallsEndAccounted
<1>3. QED BY <1>1, <1>2, ClientInRules, PTL

\* Nothing is sent again but what the queue rejected and the caller has seen nothing of
\* (queue-wait.mjs).
THEOREM RetryIsProvenHolds == RulesSpec => RetryIsProven
<1>1. Client!Spec => Client!RetryIsProven
  BY ClientRetryIsProven, RulesAssumption
<1>2. QED BY <1>1, ClientInRules, PTL DEF RetryIsProven

\* No more is left out of a request than its lane's limit asks for (body_shape.py, routing.py).
THEOREM BodiesAreCutLeastHolds == RulesSpec => []BodiesAreCutLeast
<1>1. BodySpec => []Body!BodiesAreCutLeast
  BY BodyIsCutLeast, RulesAssumption
<1>2. Body!BodiesAreCutLeast => BodiesAreCutLeast
  BY DEF BodiesAreCutLeast
<1>3. QED BY <1>1, <1>2, BodyInRules, PTL

\* A spike the watchdog alerts for a bearer of one gate stands for shrinks that happened, and
\* the pinned ceilings it alerts are those its scrapes show (free_gate_watchdog.py); a collision
\* of stores the identity guard has seen is warned of or, unless its task broke off, being
\* verified (proxy.py, the FR-005 guard).
THEOREM AlertsAreTrueHolds == RulesSpec => []AlertsAreTrue
<1>1. WatchSpec => []Watch!AlertsAreTrue
  BY WatchAlertsAreTrue, RulesAssumption
<1>2. Watch!AlertsAreTrue /\ Guard!CollisionsAreFollowedUp => AlertsAreTrue
  BY DEF AlertsAreTrue
<1>3. QED BY <1>1, <1>2, WatchInRules, GuardInRules, CollisionsAreFollowedUpHolds, PTL

\* Who is let into a lane on the estimate of its queue is dispatched in time, and what the
\* lane tells of the queue is what its schedule comes to (limiter.py).
THEOREM EstimatesAreKeptHolds == RulesSpec => []EstimatesAreKept
<1>1. DrainSpec => []Drain!EstimatesAreKept
  BY DrainEstimatesAreKept, RulesAssumption
<1>2. Drain!EstimatesAreKept => EstimatesAreKept
  BY DEF EstimatesAreKept
<1>3. QED BY <1>1, <1>2, DrainInRules, PTL

\* An answer that throttles never leaves a lane wider than it found it, unless it had been
\* left below its floor (limiter.py, proxy.py).
THEOREM PushbackNarrowsHolds == RulesSpec => PushbackNarrows
<1>1. LaneSpec => Lane!PushbackNarrows
  BY LanePushbackNarrows, RulesAssumption
<1>2. QED BY <1>1, LaneInRules, PTL DEF PushbackNarrows

\* What a call that is turned away is told of the week and of its project's share is so, as is
\* what a lane says of its credentials, its reset and its load (usage_allocator.py, proxy.py,
\* ingress.py).
THEOREM RefusalsAreHonestHolds == RulesSpec => []RefusalsAreHonest
<1>1. PaceSpec => []Pace!RefusalsAreHonest
  BY PaceRefusalsAreHonest, RulesAssumption
<1>2. DoorSpec => []Door!VerdictsAreHonest
  BY VerdictsAreHonestHolds, RulesAssumption
<1>3. Pace!RefusalsAreHonest /\ Door!VerdictsAreHonest => RefusalsAreHonest
  BY DEF RefusalsAreHonest
<1>4. QED BY <1>1, <1>2, <1>3, PaceInRules, DoorInRules, PTL
=============================================================================
