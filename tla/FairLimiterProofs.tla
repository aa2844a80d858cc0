-------------------------- MODULE FairLimiterProofs --------------------------
(***************************************************************************)
(* Theorems about FairLimiter for every number of calls and clients, every *)
(* queue mode and every value the operator may give the knobs.             *)
(*                                                                         *)
(* SlotAccounting is not inductive alone: a release must know that the     *)
(* call it returns is among the calls counted, which needs the types of    *)
(* status and lane; and a dispatch must know that the futures it resolves  *)
(* hold no slot yet, which the loop guarantees by resolving pending        *)
(* futures only.  SlotInv adds the types.                                  *)
(*                                                                         *)
(* The lanes need their own invariant.  Booked says that both lanes are in *)
(* order (a rotation lists exactly the clients with work, once each, and a *)
(* queue holds calls of its own client, once each), that only parked calls *)
(* are queued and that every live one is.  A dispatch keeps it because the *)
(* turns it takes are, client by client, a prefix of the queue             *)
(* (TurnsServe), and it fills the pools exactly because the turns that     *)
(* resolve a live future can be counted in their order (Ranks,             *)
(* FirstRanked, LaneBounds).  DispatchStep puts the two together for every *)
(* action that dispatches; from it follow that no waiter is lost, that     *)
(* none waits beside a free slot, and that FairLimiter implements SlotPool.*)
(*                                                                         *)
(* RoundRobin rests on the order of the turns: those of a client that waits*)
(* bound those taken by any other (LaneIsFair).  A step may first add to   *)
(* the lane (a call parks, the other lane closes), hence Longer.           *)
(*                                                                         *)
(* LoopIsKept is about the loop DispatchLoop writes round by round.  What  *)
(* a round keeps is Reached: the turns taken so far are the first in       *)
(* order, and the rotation lists the clients with work left by their next  *)
(* turns, so that its head is the earliest turn not taken (HeadIsNext) and *)
(* moving it to the tail keeps the list (RotationServes).  The loop stops  *)
(* where Popped does (LoopPops), so both leave the same lane (LoopIs); a   *)
(* closed lane moved client by client is the one moved at once             *)
(* (MigrationIs).  The rank _ahead_of computes counts, client by client,   *)
(* the turns before the arrival's (AheadCounts), which are those the loop  *)
(* takes before it (LoopAheadIs).                                          *)
(***************************************************************************)
EXTENDS DispatchLoop, FiniteSetTheorems, NaturalsInduction, WellFoundedInduction, TLAPS

(* Counting in an order. *)

\* The pairs of B order S.
Orders(B, S) ==
  /\ \A t \in S : <<t, t>> \notin B
  /\ \A t, u, v \in S : <<t, u>> \in B /\ <<u, v>> \in B => <<t, v>> \in B
  /\ \A t, u \in S : t = u \/ <<t, u>> \in B \/ <<u, t>> \in B

\* The number of members of S before each.
RankIn(B, S) == [t \in S |-> Cardinality({u \in S : <<u, t>> \in B})]

\* Counting the members before each one numbers a finite ordered set from 0, in
\* its order.
LEMMA Ranks ==
  ASSUME NEW S, IsFiniteSet(S), NEW B, Orders(B, S)
  PROVE  /\ RankIn(B, S) \in Bijection(S, 0..(Cardinality(S) - 1))
         /\ \A t, u \in S : <<t, u>> \in B => RankIn(B, S)[t] < RankIn(B, S)[u]
<1> DEFINE Below(t) == {u \in S : <<u, t>> \in B}
           rank == RankIn(B, S)
<1>1. ASSUME NEW t \in S
      PROVE  IsFiniteSet(Below(t)) /\ Cardinality(Below(t)) \in Nat /\ Cardinality(S) \in Nat
  <2>1. Below(t) \subseteq S
    OBVIOUS
  <2>2. IsFiniteSet(Below(t))
    BY <2>1, FS_Subset
  <2> QED BY <2>2, FS_CardinalityType
<1>2. ASSUME NEW t \in S, NEW u \in S, <<t, u>> \in B
      PROVE  rank[t] < rank[u]
  <2>1. Below(t) \subseteq Below(u) /\ t \in Below(u) /\ t \notin Below(t)
    BY <1>2 DEF Orders
  <2>2. Cardinality(Below(t)) <= Cardinality(Below(u))
    BY <1>1, <2>1, FS_Subset
  <2>3. Cardinality(Below(t)) # Cardinality(Below(u))
    BY <1>1, <2>1, FS_Subset
  <2>4. rank[t] = Cardinality(Below(t)) /\ rank[u] = Cardinality(Below(u))
    BY DEF RankIn
  <2> HIDE DEF rank, Below
  <2> QED BY <1>1, <2>2, <2>3, <2>4
<1>3. ASSUME NEW t \in S
      PROVE  rank[t] \in 0..(Cardinality(S) - 1)
  <2>1. Below(t) \subseteq S /\ t \notin Below(t)
    BY DEF Orders
  <2>2. Cardinality(Below(t)) <= Cardinality(S) /\ Cardinality(Below(t)) # Cardinality(S)
    BY <2>1, FS_Subset
  <2>3. rank[t] = Cardinality(Below(t))
    BY DEF RankIn
  <2> HIDE DEF rank, Below
  <2> QED BY <1>1, <2>2, <2>3
<1> HIDE DEF Below
<1>4. rank \in Injection(S, 0..(Cardinality(S) - 1))
  <2>1. ASSUME NEW t \in S, NEW u \in S, rank[t] = rank[u]
        PROVE  t = u
    <3>1. ~(rank[t] < rank[u]) /\ ~(rank[u] < rank[t])
      BY <1>3, <2>1
    <3>2. <<t, u>> \notin B /\ <<u, t>> \notin B
      BY <1>2, <3>1
    <3> QED BY <3>2 DEF Orders
  <2>2. rank \in [S -> 0..(Cardinality(S) - 1)]
    <3>1. rank = [t \in S |-> rank[t]]
      BY DEF RankIn
    <3> HIDE DEF rank
    <3> QED BY <1>3, <3>1
  <2> HIDE DEF rank
  <2> QED BY <2>1, <2>2 DEF Injection, IsInjective
<1>5. /\ IsFiniteSet(0..(Cardinality(S) - 1))
      /\ Cardinality(0..(Cardinality(S) - 1)) = Cardinality(S)
  <2>1. Cardinality(S) \in Nat
    BY FS_CardinalityType
  <2> QED BY <2>1, FS_Interval
<1>6. rank \in Surjection(S, 0..(Cardinality(S) - 1))
  <2> HIDE DEF rank
  <2> QED BY <1>4, <1>5, FS_Injection
<1> HIDE DEF rank
<1>7. rank \in Bijection(S, 0..(Cardinality(S) - 1))
  BY <1>4, <1>6 DEF Bijection
<1> QED BY <1>2, <1>7 DEF rank

\* The first k of them are k, or all when there are fewer.
LEMMA FirstRanked ==
  ASSUME NEW S, IsFiniteSet(S), NEW B, NEW k \in Int, Orders(B, S),
         NEW F, F = {t \in S : RankIn(B, S)[t] < k}
  PROVE  /\ IsFiniteSet(F) /\ Cardinality(F) \in Nat
         /\ F # {} => Cardinality(F) <= k
         /\ F # S => Cardinality(F) >= k
<1> DEFINE rank == RankIn(B, S)
           size == Cardinality(S)
           m == IF k <= 0 THEN 0 ELSE IF k <= size THEN k ELSE size
           g == [t \in F |-> rank[t]]
<1>1. rank \in Bijection(S, 0..(size - 1))
  BY Ranks
<1>2. size \in Nat /\ m \in Nat
  BY FS_CardinalityType
<1>3. F = {t \in S : rank[t] < k}
  OBVIOUS
<1> HIDE DEF rank
<1>4. /\ \A t \in S : rank[t] \in 0..(size - 1)
      /\ \A t, u \in S : rank[t] = rank[u] => t = u
      /\ \A i \in 0..(size - 1) : \E t \in S : rank[t] = i
  <2>1. rank \in [S -> 0..(size - 1)]
    BY <1>1 DEF Bijection, Injection
  <2>2. \A t, u \in S : rank[t] = rank[u] => t = u
    BY <1>1 DEF Bijection, Injection, IsInjective
  <2>3. \A i \in 0..(size - 1) : \E t \in S : rank[t] = i
    BY <1>1 DEF Bijection, Surjection
  <2> QED BY <2>1, <2>2, <2>3
<1> HIDE DEF size
<1>5. g \in Bijection(F, 0..(m - 1))
  <2>1. \A t \in F : g[t] \in 0..(m - 1)
    BY <1>2, <1>3, <1>4
  <2>2. \A t, u \in F : g[t] = g[u] => t = u
    BY <1>3, <1>4
  <2>3. ASSUME NEW i \in 0..(m - 1)
        PROVE  \E t \in F : g[t] = i
    <3>1. i \in 0..(size - 1) /\ i < k
      BY <1>2
    <3>2. PICK t \in S : rank[t] = i
      BY <1>4, <3>1
    <3> QED BY <1>3, <3>1, <3>2
  <2>4. g \in [F -> 0..(m - 1)]
    <3>1. g = [t \in F |-> g[t]]
      OBVIOUS
    <3> HIDE DEF g, m
    <3> QED BY <2>1, <3>1
  <2> HIDE DEF g, m
  <2> QED BY <2>1, <2>2, <2>3, <2>4 DEF Bijection, Injection, Surjection, IsInjective
<1>6. IsFiniteSet(F)
  BY <1>3, FS_Subset
<1>7. Cardinality(F) = m
  <2>1. ExistsBijection(F, 0..(m - 1))
    BY <1>5 DEF ExistsBijection
  <2>2. Cardinality(0..(m - 1)) = Cardinality(F)
    BY <1>6, <2>1, FS_Bijection
  <2>3. Cardinality(0..(m - 1)) = IF 0 > m - 1 THEN 0 ELSE (m - 1) - 0 + 1
    <3> HIDE DEF m
    <3> QED BY <1>2, FS_Interval
  <2> HIDE DEF m
  <2> QED BY <1>2, <2>2, <2>3
<1>8. F # {} => k > 0
  <2>1. ASSUME NEW t \in F PROVE k > 0
    BY <1>2, <1>3, <1>4
  <2> QED BY <2>1
<1>9. F # S => k <= size
  <2>1. ASSUME NEW t \in S, t \notin F PROVE k <= size
    BY <1>2, <1>3, <1>4, <2>1
  <2> QED BY <1>3, <2>1
<1> QED BY <1>2, <1>6, <1>7, <1>8, <1>9

-----------------------------------------------------------------------------
(* Sequences. *)

\* The members of a sequence, and a sequence without repetition.
Elements(s) == {s[i] : i \in DOMAIN s}
Once(s) == \A i, j \in DOMAIN s : s[i] = s[j] => i = j

\* Keep drops what is not in S, and nothing else, and keeps the order of the rest.
LEMMA KeepKeeps ==
  ASSUME NEW T, NEW s \in Seq(T), NEW S
  PROVE  /\ Keep(s, S) \in Seq(T)
         /\ Elements(Keep(s, S)) = Elements(s) \cap S
         /\ Once(s) => Once(Keep(s, S))
         /\ \A c, e \in S : Before(Keep(s, S), c, e) <=> Before(s, c, e)
<1> DEFINE kept == {n \in DOMAIN s : s[n] \in S}
           B == {e \in kept \X kept : e[1] < e[2]}
           rank == RankIn(B, kept)
           size == Cardinality(kept)
           At(i) == CHOOSE n \in kept : Cardinality({m \in kept : m < n}) = i - 1
<1>1. DOMAIN s = 1..Len(s) /\ Len(s) \in Nat /\ \A i \in DOMAIN s : s[i] \in T
  OBVIOUS
<1>2. IsFiniteSet(kept) /\ size \in Nat
  <2>1. kept \subseteq 1..Len(s) /\ IsFiniteSet(1..Len(s))
    BY <1>1, FS_Interval
  <2>2. IsFiniteSet(kept)
    BY <2>1, FS_Subset
  <2> HIDE DEF kept
  <2> QED BY <2>2, FS_CardinalityType
<1>3. Orders(B, kept)
  <2>1. kept \subseteq Nat
    BY <1>1
  <2> HIDE DEF kept
  <2> QED BY <2>1 DEF Orders
<1>4. rank \in Bijection(kept, 0..(size - 1))
  <2> HIDE DEF kept, B
  <2> QED BY <1>2, <1>3, Ranks
<1>r. \A m, n \in kept : m < n => rank[m] < rank[n]
  <2>1. \A m, n \in kept : m < n => <<m, n>> \in B
    <3> HIDE DEF kept
    <3> QED OBVIOUS
  <2> HIDE DEF kept, B
  <2> QED BY <1>2, <1>3, <2>1, Ranks
<1>5. ASSUME NEW n \in kept PROVE rank[n] = Cardinality({m \in kept : m < n})
  <2>1. {m \in kept : <<m, n>> \in B} = {m \in kept : m < n}
    <3> HIDE DEF kept
    <3> QED OBVIOUS
  <2>2. rank[n] = Cardinality({m \in kept : <<m, n>> \in B})
    <3> HIDE DEF kept, B
    <3> QED BY DEF RankIn
  <2> HIDE DEF rank, kept, B
  <2> QED BY <2>1, <2>2
<1>6. /\ \A n \in kept : rank[n] \in 0..(size - 1)
      /\ \A m, n \in kept : rank[m] = rank[n] => m = n
      /\ \A i \in 0..(size - 1) : \E n \in kept : rank[n] = i
  <2> HIDE DEF rank, kept, size
  <2>1. rank \in [kept -> 0..(size - 1)]
    BY <1>4 DEF Bijection, Injection
  <2>2. \A m, n \in kept : rank[m] = rank[n] => m = n
    BY <1>4 DEF Bijection, Injection, IsInjective
  <2>3. \A i \in 0..(size - 1) : \E n \in kept : rank[n] = i
    BY <1>4 DEF Bijection, Surjection
  <2> QED BY <2>1, <2>2, <2>3
<1>7. Keep(s, S) = [i \in 1..size |-> s[At(i)]]
  <2>1. kept \in SUBSET DOMAIN s
    OBVIOUS
  <2> QED BY <2>1 DEF Keep
<1> HIDE DEF rank, B
<1>8. ASSUME NEW i \in 1..size PROVE At(i) \in kept /\ rank[At(i)] = i - 1
  <2>1. i - 1 \in 0..(size - 1)
    <3> HIDE DEF size
    <3> QED BY <1>2
  <2>2. \E n \in kept : Cardinality({m \in kept : m < n}) = i - 1
    <3> HIDE DEF size, kept
    <3> QED BY <1>5, <1>6, <2>1
  <2>3. At(i) \in kept /\ Cardinality({m \in kept : m < At(i)}) = i - 1
    <3> HIDE DEF kept
    <3> QED BY <2>2
  <2> HIDE DEF At, kept
  <2> QED BY <1>5, <2>3
<1> HIDE DEF At
<1>9. ASSUME NEW n \in kept PROVE \E i \in 1..size : At(i) = n
  <2>1. rank[n] + 1 \in 1..size /\ rank[n] \in Int
    <3> HIDE DEF size, kept
    <3> QED BY <1>2, <1>6
  <2>2. rank[At(rank[n] + 1)] = rank[n]
    <3> HIDE DEF size, kept
    <3> QED BY <1>8, <2>1
  <2> HIDE DEF kept, size
  <2> QED BY <1>6, <1>8, <2>1, <2>2
<1>10. Keep(s, S) \in Seq(T)
  <2>1. \A i \in 1..size : s[At(i)] \in T
    BY <1>1, <1>8
  <2> HIDE DEF size
  <2> QED BY <1>2, <1>7, <2>1
<1>11. DOMAIN Keep(s, S) = 1..size /\ \A i \in 1..size : Keep(s, S)[i] = s[At(i)]
  BY <1>7
<1>12. Elements(Keep(s, S)) = {s[n] : n \in kept}
  <2> HIDE DEF size, kept
  <2> QED BY <1>8, <1>9, <1>11 DEF Elements
<1>13. {s[n] : n \in kept} = Elements(s) \cap S
  BY DEF Elements
<1>14. Once(s) => Once(Keep(s, S))
  <2> SUFFICES ASSUME Once(s), NEW i \in 1..size, NEW j \in 1..size,
                      Keep(s, S)[i] = Keep(s, S)[j]
               PROVE  i = j
    BY <1>11 DEF Once
  <2>1. At(i) \in DOMAIN s /\ At(j) \in DOMAIN s /\ s[At(i)] = s[At(j)]
    BY <1>8, <1>11
  <2>2. At(i) = At(j)
    BY <2>1 DEF Once
  <2> HIDE DEF size, kept
  <2>3. i - 1 = j - 1 /\ i \in Int /\ j \in Int
    BY <1>2, <1>8, <2>2
  <2> QED BY <2>3
<1>15. \A i, j \in 1..size : At(i) < At(j) <=> i < j
  <2> SUFFICES ASSUME NEW i \in 1..size, NEW j \in 1..size PROVE At(i) < At(j) <=> i < j
    OBVIOUS
  <2>1. /\ At(i) \in kept /\ rank[At(i)] = i - 1 /\ At(j) \in kept /\ rank[At(j)] = j - 1
        /\ At(i) \in Nat /\ At(j) \in Nat /\ i \in Nat /\ j \in Nat
    <3>1. kept \subseteq Nat
      BY <1>1
    <3>2. i \in Nat /\ j \in Nat
      <4> HIDE DEF kept, size
      <4> QED BY <1>2
    <3>3. At(i) \in kept /\ rank[At(i)] = i - 1 /\ At(j) \in kept /\ rank[At(j)] = j - 1
      <4> HIDE DEF kept, size
      <4> QED BY <1>8
    <3> HIDE DEF kept, size
    <3> QED BY <3>1, <3>2, <3>3
  <2> HIDE DEF kept, size
  <2>2. At(i) < At(j) => i - 1 < j - 1
    BY <1>r, <2>1
  <2>3. At(j) < At(i) => j - 1 < i - 1
    BY <1>r, <2>1
  <2>4. At(i) = At(j) => i - 1 = j - 1
    BY <2>1
  <2> QED BY ONLY <2>1, <2>2, <2>3, <2>4
<1>16. ASSUME NEW c \in S, NEW e \in S
       PROVE  Before(Keep(s, S), c, e) <=> Before(s, c, e)
  <2>1. ASSUME Before(s, c, e), NEW i \in 1..size, NEW j \in 1..size,
               Keep(s, S)[i] = c, Keep(s, S)[j] = e
        PROVE  i < j
    <3>1. At(i) \in DOMAIN s /\ At(j) \in DOMAIN s /\ s[At(i)] = c /\ s[At(j)] = e
      BY <1>8, <1>11, <2>1
    <3>2. At(i) < At(j)
      BY <2>1, <3>1 DEF Before
    <3> HIDE DEF size
    <3> QED BY <1>15, <3>2
  <2>2. ASSUME Before(Keep(s, S), c, e), NEW m \in DOMAIN s, NEW n \in DOMAIN s, s[m] = c, s[n] = e
        PROVE  m < n
    <3>1. m \in kept /\ n \in kept
      BY <1>16, <2>2
    <3>2. PICK i \in 1..size : At(i) = m
      BY <1>9, <3>1
    <3>3. PICK j \in 1..size : At(j) = n
      BY <1>9, <3>1
    <3>4. Keep(s, S)[i] = c /\ Keep(s, S)[j] = e
      BY <1>11, <2>2, <3>2, <3>3
    <3> HIDE DEF size
    <3>5. i < j
      BY <1>11, <2>2, <3>4 DEF Before
    <3> QED BY <1>15, <3>2, <3>3, <3>5
  <2> HIDE DEF size
  <2> QED BY <1>11, <2>1, <2>2 DEF Before
<1> HIDE DEF kept, size
<1> QED BY <1>10, <1>12, <1>13, <1>14, <1>16

\* Joining two sequences, dropping the head of one and adding to the tail.
LEMMA ConcatKeeps ==
  ASSUME NEW T, NEW s \in Seq(T), NEW t \in Seq(T)
  PROVE  /\ s \o t \in Seq(T)
         /\ Elements(s \o t) = Elements(s) \cup Elements(t)
         /\ Once(s) /\ Once(t) /\ Elements(s) \cap Elements(t) = {} => Once(s \o t)
<1> DEFINE j == s \o t
<1>1. /\ j \in Seq(T) /\ DOMAIN j = 1..(Len(s) + Len(t))
      /\ DOMAIN s = 1..Len(s) /\ DOMAIN t = 1..Len(t) /\ Len(s) \in Nat /\ Len(t) \in Nat
      /\ \A i \in 1..Len(s) : j[i] = s[i]
      /\ \A i \in 1..Len(t) : j[Len(s) + i] = t[i]
  OBVIOUS
<1> HIDE DEF j
<1>2. ASSUME NEW i \in DOMAIN j
      PROVE  (i \in DOMAIN s /\ j[i] = s[i])
               \/ (i - Len(s) \in DOMAIN t /\ j[i] = t[i - Len(s)] /\ i \notin DOMAIN s)
  <2>1. CASE i <= Len(s)
    BY <1>1, <2>1
  <2>2. CASE ~(i <= Len(s))
    <3>1. i - Len(s) \in 1..Len(t) /\ Len(s) + (i - Len(s)) = i
      BY <1>1, <2>2
    <3> QED BY <1>1, <2>2, <3>1
  <2> QED BY <2>1, <2>2
<1>3. \A x \in Elements(s) \cup Elements(t) : x \in Elements(j)
  <2>1. ASSUME NEW i \in DOMAIN s PROVE s[i] \in Elements(j)
    <3>1. i \in DOMAIN j
      BY <1>1
    <3> QED BY <1>1, <3>1 DEF Elements
  <2>2. ASSUME NEW i \in DOMAIN t PROVE t[i] \in Elements(j)
    <3>1. Len(s) + i \in DOMAIN j
      BY <1>1
    <3> QED BY <1>1, <3>1 DEF Elements
  <2> QED BY <2>1, <2>2 DEF Elements
<1>4. Elements(j) \subseteq Elements(s) \cup Elements(t)
  BY <1>2 DEF Elements
<1>5. ASSUME Once(s), Once(t), Elements(s) \cap Elements(t) = {}
      PROVE  Once(j)
  <2>1. \A i \in DOMAIN s : s[i] \in Elements(s)
    BY DEF Elements
  <2>2. \A i \in DOMAIN t : t[i] \in Elements(t)
    BY DEF Elements
  <2> SUFFICES ASSUME NEW a \in DOMAIN j, NEW b \in DOMAIN j, j[a] = j[b]
               PROVE  a = b
    BY DEF Once
  <2>3. a \in DOMAIN s <=> b \in DOMAIN s
    BY <1>2, <1>5, <2>1, <2>2
  <2>4. CASE a \in DOMAIN s
    BY <1>2, <1>5, <2>3, <2>4 DEF Once
  <2>5. CASE a \notin DOMAIN s
    <3>1. a - Len(s) = b - Len(s)
      BY <1>2, <1>5, <2>3, <2>5 DEF Once
    <3>2. a \in Int /\ b \in Int
      BY <1>1
    <3> QED BY <1>1, <3>1, <3>2
  <2> QED BY <2>4, <2>5
<1>6. /\ j \in Seq(T)
      /\ Elements(j) = Elements(s) \cup Elements(t)
      /\ Once(s) /\ Once(t) /\ Elements(s) \cap Elements(t) = {} => Once(j)
  BY <1>1, <1>3, <1>4, <1>5
<1> QED BY <1>6 DEF j

\* A new member at the end keeps a sequence without repetition.
LEMMA AppendKeeps ==
  ASSUME NEW T, NEW s \in Seq(T), NEW x \in T
  PROVE  /\ Append(s, x) \in Seq(T)
         /\ Elements(Append(s, x)) = Elements(s) \cup {x}
         /\ Once(s) /\ x \notin Elements(s) => Once(Append(s, x))
<1>1. Append(s, x) = s \o <<x>> /\ <<x>> \in Seq(T)
  OBVIOUS
<1>2. Elements(<<x>>) = {x} /\ Once(<<x>>)
  BY DEF Elements, Once
<1>3. x \notin Elements(s) => Elements(s) \cap Elements(<<x>>) = {}
  BY <1>2
<1> DEFINE o == <<x>>
<1> HIDE DEF o
<1>4. o \in Seq(T) /\ Append(s, x) = s \o o /\ Elements(o) = {x} /\ Once(o)
      /\ (x \notin Elements(s) => Elements(s) \cap Elements(o) = {})
  BY <1>1, <1>2, <1>3 DEF o
<1> QED BY <1>4, ConcatKeeps

\* What is left behind a prefix keeps its order and loses the prefix only.
LEMMA TailKeeps ==
  ASSUME NEW T, NEW s \in Seq(T), NEW m \in 0..Len(s), NEW t, t = SubSeq(s, m + 1, Len(s))
  PROVE  /\ t \in Seq(T)
         /\ Elements(t) = {s[i] : i \in (m + 1)..Len(s)}
         /\ t # <<>> <=> m < Len(s)
         /\ Once(s) => Once(t)
<1>1. /\ t \in Seq(T) /\ Len(t) = Len(s) - m /\ DOMAIN t = 1..(Len(s) - m)
      /\ \A i \in 1..(Len(s) - m) : t[i] = s[m + i]
      /\ Len(s) \in Nat /\ m \in Nat /\ DOMAIN s = 1..Len(s)
  OBVIOUS
<1>2. Elements(t) = {s[i] : i \in (m + 1)..Len(s)}
  <2>1. ASSUME NEW i \in DOMAIN t PROVE t[i] \in {s[a] : a \in (m + 1)..Len(s)}
    <3>1. m + i \in (m + 1)..Len(s)
      BY ONLY <1>1
    <3> QED BY <1>1, <3>1
  <2>2. ASSUME NEW i \in (m + 1)..Len(s) PROVE s[i] \in Elements(t)
    <3>1. i - m \in DOMAIN t /\ m + (i - m) = i
      BY ONLY <1>1
    <3>2. t[i - m] = s[i]
      BY <1>1, <3>1
    <3> QED BY <3>1, <3>2 DEF Elements
  <2> QED BY <2>1, <2>2 DEF Elements
<1>3. t # <<>> <=> m < Len(s)
  BY ONLY <1>1
<1>4. Once(s) => Once(t)
  <2> SUFFICES ASSUME Once(s), NEW i \in DOMAIN t, NEW j \in DOMAIN t, t[i] = t[j]
               PROVE  i = j
    BY DEF Once
  <2>0. i \in DOMAIN t /\ j \in DOMAIN t /\ t[i] = t[j]
    OBVIOUS
  <2>1. s[m + i] = s[m + j] /\ m + i \in DOMAIN s /\ m + j \in DOMAIN s
    BY ONLY <1>1, <2>0
  <2>2. m + i = m + j
    BY <2>1 DEF Once
  <2> QED BY ONLY <1>1, <2>2
<1> QED BY <1>1, <1>2, <1>3, <1>4

\* In a joined sequence the members of the first come before those of the second,
\* and each keep their order.
LEMMA ConcatBefore ==
  ASSUME NEW T, NEW s \in Seq(T), NEW t \in Seq(T), NEW c, NEW e
  PROVE  /\ c \notin Elements(t) /\ e \notin Elements(s) => Before(s \o t, c, e)
         /\ c \notin Elements(s) /\ e \notin Elements(s) => (Before(s \o t, c, e) <=> Before(t, c, e))
         /\ c \notin Elements(t) /\ e \notin Elements(t) => (Before(s \o t, c, e) <=> Before(s, c, e))
<1> DEFINE j == s \o t
<1>1. /\ DOMAIN j = 1..(Len(s) + Len(t))
      /\ DOMAIN s = 1..Len(s) /\ DOMAIN t = 1..Len(t) /\ Len(s) \in Nat /\ Len(t) \in Nat
      /\ \A i \in 1..Len(s) : j[i] = s[i]
      /\ \A i \in 1..Len(t) : j[Len(s) + i] = t[i]
  OBVIOUS
<1> HIDE DEF j
<1>2. ASSUME NEW i \in DOMAIN j
      PROVE  /\ i \in Nat
             /\ \/ i \in DOMAIN s /\ i <= Len(s) /\ j[i] = s[i]
                \/ i - Len(s) \in DOMAIN t /\ Len(s) < i /\ j[i] = t[i - Len(s)]
  <2>1. CASE i <= Len(s)
    BY <1>1, <2>1
  <2>2. CASE ~(i <= Len(s))
    <3>1. i - Len(s) \in 1..Len(t) /\ Len(s) + (i - Len(s)) = i
      BY <1>1, <2>2
    <3> QED BY <1>1, <2>2, <3>1
  <2> QED BY <2>1, <2>2
<1>3. /\ \A i \in DOMAIN s : s[i] \in Elements(s)
      /\ \A i \in DOMAIN t : t[i] \in Elements(t)
  BY DEF Elements
<1>4. ASSUME c \notin Elements(t), e \notin Elements(s) PROVE Before(j, c, e)
  <2> SUFFICES ASSUME NEW m \in DOMAIN j, NEW n \in DOMAIN j, j[m] = c, j[n] = e PROVE m < n
    BY DEF Before
  <2>1. m <= Len(s) /\ m \in Nat
    BY <1>2, <1>3, <1>4
  <2>2. Len(s) < n /\ n \in Nat
    BY <1>2, <1>3, <1>4
  <2> QED BY <1>1, <2>1, <2>2
<1>5. ASSUME c \notin Elements(s), e \notin Elements(s) PROVE Before(j, c, e) <=> Before(t, c, e)
  <2>1. ASSUME Before(j, c, e), NEW m \in DOMAIN t, NEW n \in DOMAIN t, t[m] = c, t[n] = e
        PROVE  m < n
    <3>1. /\ Len(s) + m \in DOMAIN j /\ Len(s) + n \in DOMAIN j /\ m \in Nat /\ n \in Nat
          /\ j[Len(s) + m] = c /\ j[Len(s) + n] = e
      BY <1>1, <2>1
    <3>2. Len(s) + m < Len(s) + n
      BY <2>1, <3>1 DEF Before
    <3> QED BY <1>1, <3>1, <3>2
  <2>2. ASSUME Before(t, c, e), NEW m \in DOMAIN j, NEW n \in DOMAIN j, j[m] = c, j[n] = e
        PROVE  m < n
    <3>1. m - Len(s) \in DOMAIN t /\ n - Len(s) \in DOMAIN t /\ t[m - Len(s)] = c /\ t[n - Len(s)] = e
      BY <1>2, <1>3, <1>5, <2>2
    <3>2. m - Len(s) < n - Len(s)
      BY <2>2, <3>1 DEF Before
    <3>3. m \in Nat /\ n \in Nat
      BY <1>2
    <3> QED BY <1>1, <3>2, <3>3
  <2> QED BY <2>1, <2>2 DEF Before
<1>6. ASSUME c \notin Elements(t), e \notin Elements(t) PROVE Before(j, c, e) <=> Before(s, c, e)
  <2>1. ASSUME Before(j, c, e), NEW m \in DOMAIN s, NEW n \in DOMAIN s, s[m] = c, s[n] = e
        PROVE  m < n
    <3>1. m \in DOMAIN j /\ n \in DOMAIN j /\ j[m] = c /\ j[n] = e
      BY <1>1, <2>1
    <3> QED BY <2>1, <3>1 DEF Before
  <2>2. ASSUME Before(s, c, e), NEW m \in DOMAIN j, NEW n \in DOMAIN j, j[m] = c, j[n] = e
        PROVE  m < n
    <3>1. m \in DOMAIN s /\ n \in DOMAIN s /\ s[m] = c /\ s[n] = e
      BY <1>2, <1>3, <1>6, <2>2
    <3> QED BY <2>2, <3>1 DEF Before
  <2> QED BY <2>1, <2>2 DEF Before
<1> QED BY <1>4, <1>5, <1>6 DEF j

-----------------------------------------------------------------------------
(* One lane of the dispatcher. *)

\* One lane is in order: its rotation lists exactly the clients with work, once
\* each, and a queue holds calls of its own client, once each.
LaneOK(qs, order) ==
  /\ qs \in [Clients -> Seq(Requests)] /\ order \in Seq(Clients)
  /\ Once(order)
  /\ Elements(order) = {c \in Clients : qs[c] # <<>>}
  /\ \A c \in Clients : Once(qs[c]) /\ \A r \in Elements(qs[c]) : ClientOf[r] = c

\* The calls queued in a lane.
Queued(qs) == {r \in Requests : r \in Elements(qs[ClientOf[r]])}

\* A set of numbers that misses none below its members is an interval.
LEMMA PrefixIsInterval ==
  ASSUME NEW L \in Nat, NEW D \in SUBSET (1..L),
         \A i \in D, j \in 1..L : j < i => j \in D
  PROVE  Cardinality(D) \in 0..L /\ D = 1..Cardinality(D)
<1> DEFINE M == {i \in 1..(L + 1) : i \notin D}
           R == {p \in Nat \X Nat : p[1] < p[2]}
<1>1. M \subseteq Nat /\ L + 1 \in M
  OBVIOUS
<1>2. IsWellFoundedOn(R, Nat)
  BY NatLessThanWellFounded, Zenon DEF OpToRel
<1>3. PICK m \in M : \A y \in M : ~(<<y, m>> \in R)
  <2> HIDE DEF R, M
  <2> QED BY <1>1, <1>2, WFMin
<1>4. \A y \in M : m <= y
  <2> SUFFICES ASSUME NEW y \in M PROVE m <= y
    OBVIOUS
  <2>1. y \in Nat /\ m \in Nat /\ ~(<<y, m>> \in R)
    <3> HIDE DEF R, M
    <3> QED BY <1>1, <1>3
  <2>2. ~(y < m)
    BY <2>1
  <2> QED BY <2>1, <2>2
<1>5. m \in 1..(L + 1) /\ m \notin D
  OBVIOUS
<1>6. D = 1..(m - 1)
  <2>1. ASSUME NEW i \in 1..(m - 1) PROVE i \in D
    <3>1. i \in 1..(L + 1) /\ ~(m <= i)
      BY <1>5
    <3> QED BY <1>4, <3>1
  <2>2. ASSUME NEW i \in D PROVE i \in 1..(m - 1)
    <3>1. i \in 1..L
      OBVIOUS
    <3>2. ~(m < i)
      <4>1. m < i => m \in 1..L
        BY <1>5, <3>1
      <4> HIDE DEF M
      <4> QED BY <1>5, <4>1
    <3>3. m # i
      BY <1>5
    <3> QED BY <1>5, <3>1, <3>2, <3>3
  <2> HIDE DEF M
  <2> QED BY <2>1, <2>2
<1>7. Cardinality(1..(m - 1)) = m - 1
  <2> HIDE DEF M
  <2>1. Cardinality(1..(m - 1)) = IF 1 > m - 1 THEN 0 ELSE (m - 1) - 1 + 1
    BY <1>5, FS_Interval
  <2> QED BY <1>5, <2>1
<1> HIDE DEF M
<1> QED BY <1>5, <1>6, <1>7

\* The turns of a lane in order, and the calls they serve.
LEMMA TurnsServe ==
  ASSUME LimiterAssumption, NEW qs, NEW order, LaneOK(qs, order)
  PROVE  /\ \A t \in Turns(qs, order) :
              /\ t = <<t[1], t[2]>> /\ t[1] \in Nat /\ t[2] \in Nat
              /\ t[2] \in DOMAIN order /\ order[t[2]] \in Clients
              /\ t[1] \in 1..Len(qs[order[t[2]]])
              /\ Future(qs, order, t) \in Requests
              /\ Future(qs, order, t) \in Elements(qs[order[t[2]]])
              /\ ClientOf[Future(qs, order, t)] = order[t[2]]
         /\ \A n \in DOMAIN order : \A i \in 1..Len(qs[order[n]]) :
              <<i, n>> \in Turns(qs, order) /\ Future(qs, order, <<i, n>>) = qs[order[n]][i]
         /\ \A t, u \in Turns(qs, order) : Future(qs, order, t) = Future(qs, order, u) => t = u
         /\ \A r \in Queued(qs) : \E t \in Turns(qs, order) : Future(qs, order, t) = r
         /\ IsFiniteSet(Turns(qs, order))
<1>1. /\ \A n \in DOMAIN order : order[n] \in Clients /\ n \in Nat
      /\ \A c \in Clients : /\ DOMAIN qs[c] = 1..Len(qs[c]) /\ Len(qs[c]) \in Nat
                            /\ \A i \in DOMAIN qs[c] : qs[c][i] \in Requests
  <2>1. order \in Seq(Clients) /\ qs \in [Clients -> Seq(Requests)]
    BY DEF LaneOK
  <2>2. \A c \in Clients : qs[c] \in Seq(Requests)
    BY <2>1
  <2> QED BY <2>1, <2>2
<1>2. ASSUME NEW t \in Turns(qs, order)
      PROVE  /\ t = <<t[1], t[2]>> /\ t[2] \in DOMAIN order
             /\ t[1] \in DOMAIN qs[order[t[2]]]
  BY DEF Turns
<1>3. ASSUME NEW t \in Turns(qs, order)
      PROVE  /\ t = <<t[1], t[2]>> /\ t[1] \in Nat /\ t[2] \in Nat
             /\ t[2] \in DOMAIN order /\ order[t[2]] \in Clients
             /\ t[1] \in 1..Len(qs[order[t[2]]])
             /\ Future(qs, order, t) \in Requests
             /\ Future(qs, order, t) \in Elements(qs[order[t[2]]])
             /\ ClientOf[Future(qs, order, t)] = order[t[2]]
  <2>1. t[2] \in DOMAIN order /\ order[t[2]] \in Clients /\ t[2] \in Nat
    BY <1>1, <1>2
  <2>2. t[1] \in DOMAIN qs[order[t[2]]] /\ t[1] \in 1..Len(qs[order[t[2]]]) /\ t[1] \in Nat
    BY <1>1, <1>2, <2>1
  <2>3. Future(qs, order, t) \in Requests /\ Future(qs, order, t) \in Elements(qs[order[t[2]]])
    BY <1>1, <2>1, <2>2 DEF Future, Elements
  <2>4. ClientOf[Future(qs, order, t)] = order[t[2]]
    BY <2>1, <2>3 DEF LaneOK
  <2> QED BY <1>2, <2>1, <2>2, <2>3, <2>4
<1>4. ASSUME NEW n \in DOMAIN order, NEW i \in 1..Len(qs[order[n]])
      PROVE  <<i, n>> \in Turns(qs, order) /\ Future(qs, order, <<i, n>>) = qs[order[n]][i]
  <2>1. i \in DOMAIN qs[order[n]]
    BY <1>1
  <2> QED BY <2>1 DEF Turns, Future
<1>5. ASSUME NEW t \in Turns(qs, order), NEW u \in Turns(qs, order),
             Future(qs, order, t) = Future(qs, order, u)
      PROVE  t = u
  <2>1. order[t[2]] = order[u[2]] /\ t[2] \in DOMAIN order /\ u[2] \in DOMAIN order
    BY <1>3, <1>5
  <2>2. t[2] = u[2]
    BY <2>1 DEF LaneOK, Once
  <2>3. qs[order[t[2]]][t[1]] = qs[order[t[2]]][u[1]]
    BY <1>5, <2>2 DEF Future
  <2>4. Once(qs[order[t[2]]])
    BY <1>3 DEF LaneOK
  <2>5. t[1] \in DOMAIN qs[order[t[2]]] /\ u[1] \in DOMAIN qs[order[t[2]]]
    BY <1>2, <2>2
  <2>6. t[1] = u[1]
    BY <2>3, <2>4, <2>5 DEF Once
  <2> QED BY <1>3, <2>2, <2>6
<1>6. IsFiniteSet(Turns(qs, order))
  <2> DEFINE f == [t \in Turns(qs, order) |-> Future(qs, order, t)]
  <2>1. f \in [Turns(qs, order) -> Requests]
    BY <1>3
  <2>2. \A t, u \in Turns(qs, order) : f[t] = f[u] => t = u
    BY <1>5
  <2>3. f \in Injection(Turns(qs, order), Requests)
    <3> HIDE DEF f
    <3> QED BY <2>1, <2>2 DEF Injection, IsInjective
  <2> HIDE DEF f
  <2> QED BY <2>3, FS_Injection DEF LimiterAssumption
<1>7. \A r \in Queued(qs) : \E t \in Turns(qs, order) : Future(qs, order, t) = r
  <2> SUFFICES ASSUME NEW r \in Queued(qs) PROVE \E t \in Turns(qs, order) : Future(qs, order, t) = r
    OBVIOUS
  <2> DEFINE c == ClientOf[r]
  <2>1. c \in Clients /\ r \in Requests /\ r \in Elements(qs[c])
    BY DEF Queued, LimiterAssumption
  <2>2. PICK i \in DOMAIN qs[c] : qs[c][i] = r
    BY <2>1 DEF Elements
  <2>3. c \in Elements(order)
    <3>1. qs[c] # <<>>
      BY <1>1, <2>1, <2>2
    <3> QED BY <2>1, <3>1 DEF LaneOK
  <2>4. PICK n \in DOMAIN order : order[n] = c
    BY <2>3 DEF Elements
  <2>5. i \in 1..Len(qs[order[n]])
    BY <1>1, <2>1, <2>2, <2>4
  <2>6. <<i, n>> \in Turns(qs, order) /\ Future(qs, order, <<i, n>>) = qs[order[n]][i]
    BY <1>4, <2>5
  <2> QED BY <2>2, <2>4, <2>6
<1> QED BY <1>3, <1>4, <1>5, <1>6, <1>7

\* The lane a dispatch of k slots leaves, and what it has resolved.
LaneAfter(qs, order, live, k) ==
  LET pop == Popped(qs, order, live, k)
  IN  [queues |-> QueuesAfter(qs, order, pop), rotation |-> RotationAfter(qs, order, pop)]

\* Turns are taken in order: those before a taken one are taken.
LEMMA PoppedInOrder ==
  ASSUME LimiterAssumption, NEW qs, NEW order, LaneOK(qs, order), NEW live, NEW k \in Int,
         NEW t \in Popped(qs, order, live, k), NEW u \in Turns(qs, order), Earlier(u, t)
  PROVE  u \in Popped(qs, order, live, k)
<1> DEFINE L == LiveTurns(qs, order, live)
           Bt == {v \in L : Earlier(v, t)}
           Bu == {v \in L : Earlier(v, u)}
<1>1. IsFiniteSet(L) /\ L \subseteq Turns(qs, order)
  <2>1. L \subseteq Turns(qs, order) /\ IsFiniteSet(Turns(qs, order))
    BY TurnsServe DEF LiveTurns
  <2> HIDE DEF L
  <2> QED BY <2>1, FS_Subset
<1>2. t \in Turns(qs, order) /\ Cardinality(Bt) < k
  BY DEF Popped
<1> HIDE DEF L
<1>3. Bu \subseteq Bt
  <2> SUFFICES ASSUME NEW v \in L, Earlier(v, u) PROVE Earlier(v, t)
    OBVIOUS
  <2>1. /\ v[1] \in Nat /\ v[2] \in Nat /\ u[1] \in Nat /\ u[2] \in Nat
        /\ t[1] \in Nat /\ t[2] \in Nat
    BY <1>1, <1>2, TurnsServe
  <2> QED BY <2>1 DEF Earlier
<1>4. IsFiniteSet(Bt) /\ IsFiniteSet(Bu)
  <2>1. Bt \subseteq L /\ Bu \subseteq L
    OBVIOUS
  <2> HIDE DEF Bt, Bu
  <2> QED BY <1>1, <2>1, FS_Subset
<1>5. Cardinality(Bu) <= Cardinality(Bt) /\ Cardinality(Bu) \in Nat /\ Cardinality(Bt) \in Nat
  <2> HIDE DEF Bt, Bu
  <2> QED BY <1>3, <1>4, FS_Subset, FS_CardinalityType
<1>6. Cardinality(Bu) < k
  <2> HIDE DEF Bt, Bu
  <2> QED BY <1>2, <1>5
<1> QED BY <1>6 DEF Popped, L

\* The turns of pop are, client by client, the first ones of its queue.
Taken(qs, order, pop) ==
  /\ pop \subseteq Turns(qs, order)
  /\ \A n \in DOMAIN order : \A i \in 1..Len(qs[order[n]]) :
       <<i, n>> \in pop <=> i <= TurnsOf(pop, order, order[n])
  /\ \A c \in Clients : TurnsOf(pop, order, c) \in 0..Len(qs[c])

\* Turns taken in order: with one, all those before it.
InOrder(qs, order, pop) ==
  /\ pop \subseteq Turns(qs, order)
  /\ \A t \in pop, u \in Turns(qs, order) : Earlier(u, t) => u \in pop

LEMMA TakenInOrder ==
  ASSUME LimiterAssumption, NEW qs, NEW order, LaneOK(qs, order), NEW pop, InOrder(qs, order, pop)
  PROVE  Taken(qs, order, pop)
<1> DEFINE T == Turns(qs, order)
           used(c) == TurnsOf(pop, order, c)
<1>1. /\ qs \in [Clients -> Seq(Requests)] /\ order \in Seq(Clients)
      /\ \A c \in Clients : DOMAIN qs[c] = 1..Len(qs[c]) /\ Len(qs[c]) \in Nat
      /\ \A n \in DOMAIN order : order[n] \in Clients
      /\ \A m, n \in DOMAIN order : order[m] = order[n] => m = n
  <2>1. qs \in [Clients -> Seq(Requests)] /\ order \in Seq(Clients) /\ Once(order)
    BY DEF LaneOK
  <2>2. \A c \in Clients : qs[c] \in Seq(Requests)
    BY <2>1
  <2> QED BY <2>1, <2>2 DEF Once
<1>2. pop \subseteq T
  BY DEF InOrder
<1>3. ASSUME NEW n \in DOMAIN order
      PROVE  /\ used(order[n]) \in 0..Len(qs[order[n]])
             /\ \A i \in 1..Len(qs[order[n]]) : <<i, n>> \in pop <=> i <= used(order[n])
  <2> DEFINE c == order[n]
             D == {i \in 1..Len(qs[c]) : <<i, n>> \in pop}
             C == {t \in pop : order[t[2]] = c}
             g == [i \in D |-> <<i, n>>]
  <2>1. c \in Clients /\ Len(qs[c]) \in Nat
    BY <1>1
  <2>2. ASSUME NEW i \in D, NEW j \in 1..Len(qs[c]), j < i PROVE j \in D
    <3>1. <<j, n>> \in T /\ <<i, n>> \in pop
      BY TurnsServe
    <3>2. Earlier(<<j, n>>, <<i, n>>)
      BY <2>2 DEF Earlier
    <3>3. <<j, n>> \in pop
      BY <3>1, <3>2 DEF InOrder
    <3> QED BY <3>3
  <2>3. Cardinality(D) \in 0..Len(qs[c]) /\ D = 1..Cardinality(D)
    <3>1. D \in SUBSET (1..Len(qs[c]))
      OBVIOUS
    <3> HIDE DEF D, c
    <3> QED BY <2>1, <2>2, <3>1, PrefixIsInterval
  <2>4. g \in Bijection(D, C)
    <3>1. ASSUME NEW i \in D PROVE g[i] \in C
      OBVIOUS
    <3>2. ASSUME NEW t \in C PROVE \E i \in D : g[i] = t
      <4>1. t \in T /\ t[2] \in DOMAIN order /\ t = <<t[1], t[2]>> /\ t[1] \in 1..Len(qs[order[t[2]]])
        BY <1>2, TurnsServe
      <4>2. t[2] = n
        BY <1>1, <4>1
      <4>3. t[1] \in D
        BY <4>1, <4>2
      <4> QED BY <4>1, <4>2, <4>3
    <3>3. \A i, j \in D : g[i] = g[j] => i = j
      OBVIOUS
    <3>4. g \in [D -> C]
      <4>1. g = [i \in D |-> g[i]]
        OBVIOUS
      <4> HIDE DEF g, D, C
      <4> QED BY <3>1, <4>1
    <3> HIDE DEF g, D, C
    <3> QED BY <3>2, <3>3, <3>4 DEF Bijection, Injection, Surjection, IsInjective
  <2>5. Cardinality(C) = Cardinality(D)
    <3>1. IsFiniteSet(D)
      <4>1. D \subseteq 1..Len(qs[c])
        OBVIOUS
      <4>2. IsFiniteSet(1..Len(qs[c]))
        <5> HIDE DEF c
        <5> QED BY ONLY <2>1, FS_Interval
      <4> HIDE DEF D, c
      <4> QED BY <4>1, <4>2, FS_Subset
    <3>2. ExistsBijection(D, C)
      BY <2>4 DEF ExistsBijection
    <3> HIDE DEF D, C
    <3> QED BY <3>1, <3>2, FS_Bijection
  <2>6. used(c) = Cardinality(D)
    BY <2>5 DEF TurnsOf
  <2>7. \A i \in 1..Len(qs[c]) : i \in D <=> i <= Cardinality(D)
    <3> HIDE DEF D, c
    <3> QED BY <2>1, <2>3
  <2> QED BY <2>3, <2>6, <2>7
<1>4. ASSUME NEW c \in Clients, qs[c] = <<>>
      PROVE  used(c) = 0
  <2>1. {t \in pop : order[t[2]] = c} = {}
    <3> SUFFICES ASSUME NEW t \in pop, order[t[2]] = c PROVE FALSE
      OBVIOUS
    <3>1. t[1] \in 1..Len(qs[c])
      BY <1>2, TurnsServe
    <3> QED BY <1>4, <3>1
  <2> QED BY <2>1, FS_EmptySet DEF TurnsOf
<1> HIDE DEF used
<1>5. \A c \in Clients : used(c) \in 0..Len(qs[c])
  <2> SUFFICES ASSUME NEW c \in Clients PROVE used(c) \in 0..Len(qs[c])
    OBVIOUS
  <2>1. CASE qs[c] = <<>>
    BY <1>1, <1>4, <2>1
  <2>2. CASE qs[c] # <<>>
    <3>1. c \in Elements(order)
      BY <2>2 DEF LaneOK
    <3>2. PICK n \in DOMAIN order : order[n] = c
      BY <3>1 DEF Elements
    <3> QED BY <1>3, <3>2
  <2> QED BY <2>1, <2>2
<1> QED BY <1>2, <1>3, <1>5 DEF Taken, used

\* The turns a dispatch takes are.
LEMMA TurnsTaken ==
  ASSUME LimiterAssumption, NEW qs, NEW order, LaneOK(qs, order), NEW live, NEW k \in Int,
         NEW pop, pop = Popped(qs, order, live, k)
  PROVE  InOrder(qs, order, pop) /\ Taken(qs, order, pop)
<1>1. InOrder(qs, order, pop)
  BY PoppedInOrder DEF InOrder, Popped
<1> QED BY <1>1, TakenInOrder

\* The last step of a dispatch in one lane: from a lane in order it leaves a
\* lane in order, without the calls it resolved and without cancelled ones it
\* met, and with every live call it did not reach.
LEMMA LaneStaysOK ==
  ASSUME LimiterAssumption, NEW qs, NEW order, LaneOK(qs, order), NEW live, NEW k \in Int
  PROVE  LET a == LaneAfter(qs, order, live, k)
             gr == Granted(qs, order, live, k)
         IN  /\ LaneOK(a.queues, a.rotation)
             /\ gr \subseteq live \cap Queued(qs)
             /\ Queued(a.queues) \subseteq Queued(qs) \ gr
             /\ live \cap Queued(qs) \subseteq gr \cup Queued(a.queues)
<1> DEFINE T == Turns(qs, order)
           pop == Popped(qs, order, live, k)
           gr == Granted(qs, order, live, k)
           after == QueuesAfter(qs, order, pop)
           rot == RotationAfter(qs, order, pop)
           F(t) == Future(qs, order, t)
           used(c) == TurnsOf(pop, order, c)
<1>1. /\ qs \in [Clients -> Seq(Requests)] /\ order \in Seq(Clients)
      /\ \A c \in Clients : DOMAIN qs[c] = 1..Len(qs[c]) /\ Len(qs[c]) \in Nat
      /\ \A n \in DOMAIN order : order[n] \in Clients
      /\ \A m, n \in DOMAIN order : order[m] = order[n] => m = n
  <2>1. qs \in [Clients -> Seq(Requests)] /\ order \in Seq(Clients) /\ Once(order)
    BY DEF LaneOK
  <2>2. \A c \in Clients : qs[c] \in Seq(Requests)
    BY <2>1
  <2> QED BY <2>1, <2>2 DEF Once
<1>2. pop \subseteq T /\ gr = {F(t) : t \in pop \cap LiveTurns(qs, order, live)}
  BY DEF Popped, Granted
<1> HIDE DEF pop, gr, used, F, T
<1>3. ASSUME NEW n \in DOMAIN order
      PROVE  \A i \in 1..Len(qs[order[n]]) : <<i, n>> \in pop <=> i <= used(order[n])
  BY TurnsTaken DEF Taken, used, pop
<1>5. \A c \in Clients : used(c) \in 0..Len(qs[c])
  BY TurnsTaken DEF Taken, used, pop
<1>6. ASSUME NEW c \in Clients
      PROVE  /\ after[c] \in Seq(Requests)
             /\ Elements(after[c]) = {qs[c][i] : i \in (used(c) + 1)..Len(qs[c])}
             /\ after[c] # <<>> <=> used(c) < Len(qs[c])
             /\ Once(after[c])
  <2>1. after[c] = SubSeq(qs[c], used(c) + 1, Len(qs[c]))
    BY DEF QueuesAfter, used
  <2>2. Once(qs[c]) /\ qs[c] \in Seq(Requests)
    BY <1>1 DEF LaneOK
  <2> HIDE DEF after
  <2> QED BY <1>5, <2>1, <2>2, TailKeeps
<1>7. after \in [Clients -> Seq(Requests)]
  <2>1. after = [c \in Clients |-> after[c]]
    BY DEF QueuesAfter
  <2> HIDE DEF after
  <2> QED BY <1>6, <2>1
<1>8. \A c \in Clients : Elements(after[c]) \subseteq Elements(qs[c])
  <2> SUFFICES ASSUME NEW c \in Clients PROVE Elements(after[c]) \subseteq Elements(qs[c])
    OBVIOUS
  <2>1. \A i \in (used(c) + 1)..Len(qs[c]) : i \in DOMAIN qs[c]
    BY <1>1, <1>5
  <2>2. \A i \in (used(c) + 1)..Len(qs[c]) : qs[c][i] \in Elements(qs[c])
    BY <2>1 DEF Elements
  <2>3. Elements(after[c]) = {qs[c][i] : i \in (used(c) + 1)..Len(qs[c])}
    BY <1>6
  <2> HIDE DEF after
  <2> QED BY <2>2, <2>3
<1>9. /\ rot \in Seq(Clients) /\ Once(rot)
      /\ Elements(rot) = {c \in Clients : after[c] # <<>>}
  <2> DEFINE left == {c \in Clients : after[c] # <<>>}
             last == {c \in left : \A t \in pop : t[1] <= TurnsOf(pop, order, c)}
  <2>1. rot = Keep(order, left \ last) \o Keep(order, last)
    BY DEF RotationAfter
  <2>2. left \subseteq Elements(order)
    <3> SUFFICES ASSUME NEW c \in left PROVE c \in Elements(order)
      OBVIOUS
    <3>1. qs[c] # <<>>
      BY <1>1, <1>5, <1>6
    <3> QED BY <3>1 DEF LaneOK
  <2>3. last \subseteq left
    OBVIOUS
  <2> DEFINE s == Keep(order, left \ last)
             u == Keep(order, last)
  <2> HIDE DEF left, last
  <2>4. /\ s \in Seq(Clients) /\ Elements(s) = Elements(order) \cap (left \ last) /\ Once(s)
        /\ u \in Seq(Clients) /\ Elements(u) = Elements(order) \cap last /\ Once(u)
    BY <1>1, KeepKeeps DEF LaneOK
  <2> HIDE DEF s, u
  <2>5. Elements(s) \cap Elements(u) = {} /\ Elements(s) \cup Elements(u) = left
    BY <2>2, <2>3, <2>4
  <2>6. s \o u \in Seq(Clients) /\ Elements(s \o u) = left /\ Once(s \o u)
    <3>0. s \in Seq(Clients) /\ u \in Seq(Clients)
      BY <2>4
    <3>1. /\ s \o u \in Seq(Clients)
          /\ Elements(s \o u) = Elements(s) \cup Elements(u)
          /\ Once(s) /\ Once(u) /\ Elements(s) \cap Elements(u) = {} => Once(s \o u)
      BY ONLY <3>0, ConcatKeeps
    <3> QED BY <2>4, <2>5, <3>1
  <2>7. rot = s \o u
    BY <2>1 DEF s, u
  <2> QED BY <2>6, <2>7 DEF left
<1>10. LaneOK(after, rot)
  <2> HIDE DEF after, rot
  <2>1. \A c \in Clients : Once(after[c]) /\ \A r \in Elements(after[c]) : ClientOf[r] = c
    BY <1>6, <1>8 DEF LaneOK
  <2> QED BY <1>7, <1>9, <2>1 DEF LaneOK
<1>11. ASSUME NEW t \in T
       PROVE  F(t) \in Queued(after) <=> t \notin pop
  <2> DEFINE c == order[t[2]]
  <2>1. /\ t = <<t[1], t[2]>> /\ t[2] \in DOMAIN order /\ c \in Clients
        /\ t[1] \in 1..Len(qs[c]) /\ F(t) \in Requests /\ ClientOf[F(t)] = c
        /\ F(t) = qs[c][t[1]]
    <3>1. F(t) = qs[c][t[1]]
      BY DEF F, Future
    <3> QED BY <3>1, TurnsServe DEF F, T
  <2>2. t \in pop <=> t[1] <= used(c)
    BY <1>3, <2>1
  <2>3. F(t) \in Queued(after) <=> \E i \in (used(c) + 1)..Len(qs[c]) : qs[c][i] = qs[c][t[1]]
    <3>1. F(t) \in Queued(after) <=> F(t) \in Elements(after[c])
      BY <2>1 DEF Queued
    <3>2. Elements(after[c]) = {qs[c][i] : i \in (used(c) + 1)..Len(qs[c])}
      BY <1>6, <2>1
    <3> HIDE DEF after, c
    <3> QED BY <2>1, <3>1, <3>2
  <2>4. Once(qs[c])
    BY <2>1 DEF LaneOK
  <2>5. Len(qs[c]) \in Nat /\ used(c) \in Nat /\ DOMAIN qs[c] = 1..Len(qs[c]) /\ t[1] \in Nat
    BY <1>1, <1>5, <2>1
  <2> HIDE DEF after, c
  <2>6. CASE t[1] <= used(c)
    <3>1. ASSUME NEW i \in (used(c) + 1)..Len(qs[c]), qs[c][i] = qs[c][t[1]] PROVE FALSE
      <4>1. i \in DOMAIN qs[c] /\ t[1] \in DOMAIN qs[c]
        BY <2>1, <2>5
      <4>2. i = t[1]
        BY <2>4, <3>1, <4>1 DEF Once
      <4> QED BY <2>5, <2>6, <4>2
    <3> QED BY <2>2, <2>3, <2>6, <3>1
  <2>7. CASE ~(t[1] <= used(c))
    <3>1. t[1] \in (used(c) + 1)..Len(qs[c])
      BY <2>1, <2>5, <2>7
    <3> QED BY <2>2, <2>3, <2>7, <3>1
  <2> QED BY <2>6, <2>7
<1>12. \A r \in Queued(qs) : \E t \in T : F(t) = r
  BY TurnsServe DEF T, F
<1>13. \A t \in T : F(t) \in Queued(qs)
  <2> SUFFICES ASSUME NEW t \in T PROVE F(t) \in Queued(qs)
    OBVIOUS
  <2>1. F(t) \in Requests /\ F(t) \in Elements(qs[order[t[2]]]) /\ ClientOf[F(t)] = order[t[2]]
    BY TurnsServe DEF T, F
  <2> QED BY <2>1 DEF Queued
<1>14. Queued(after) \subseteq Queued(qs)
  <2> SUFFICES ASSUME NEW r \in Queued(after) PROVE r \in Queued(qs)
    OBVIOUS
  <2>1. ClientOf[r] \in Clients
    BY DEF Queued, LimiterAssumption
  <2> HIDE DEF after
  <2> QED BY <1>8, <2>1 DEF Queued
<1>15. \A t \in T : t \in LiveTurns(qs, order, live) <=> F(t) \in live
  BY DEF LiveTurns, T, F
<1> HIDE DEF after, rot
<1>16. gr \subseteq live \cap Queued(qs)
  BY <1>2, <1>13, <1>15
<1>17. \A r \in gr : r \notin Queued(after)
  BY <1>2, <1>11, <1>15
<1>18. live \cap Queued(qs) \subseteq gr \cup Queued(after)
  <2> SUFFICES ASSUME NEW r \in live \cap Queued(qs), r \notin Queued(after) PROVE r \in gr
    OBVIOUS
  <2>1. PICK t \in T : F(t) = r
    BY <1>12
  <2>2. t \in pop /\ t \in LiveTurns(qs, order, live)
    BY <1>11, <1>15, <2>1
  <2> QED BY <1>2, <2>1, <2>2
<1>19. LaneAfter(qs, order, live, k) = [queues |-> after, rotation |-> rot]
  BY DEF LaneAfter, after, rot, pop
<1> QED BY <1>10, <1>14, <1>16, <1>17, <1>18, <1>19 DEF gr

\* A dispatch resolves at most the k futures it has slots for, and all k of
\* them when it leaves a live call behind.
LEMMA LaneBounds ==
  ASSUME LimiterAssumption, NEW qs, NEW order, LaneOK(qs, order), NEW live, NEW k \in Int,
         NEW gr, gr = Granted(qs, order, live, k)
  PROVE  /\ IsFiniteSet(gr) /\ Cardinality(gr) \in Nat
         /\ gr # {} => Cardinality(gr) <= k
         /\ live \cap Queued(LaneAfter(qs, order, live, k).queues) # {} => Cardinality(gr) >= k
<1> DEFINE T == Turns(qs, order)
           L == LiveTurns(qs, order, live)
           B == {e \in T \X T : Earlier(e[1], e[2])}
           F == {t \in L : RankIn(B, L)[t] < k}
           f == [t \in F |-> Future(qs, order, t)]
<1>1. /\ \A t \in T : t = <<t[1], t[2]>> /\ t[1] \in Nat /\ t[2] \in Nat
      /\ \A t, u \in T : Future(qs, order, t) = Future(qs, order, u) => t = u
      /\ \A r \in Queued(qs) : \E t \in T : Future(qs, order, t) = r
      /\ IsFiniteSet(T)
  <2> HIDE DEF T
  <2> QED BY TurnsServe DEF T
<1>2. L \subseteq T /\ \A t \in T : t \in L <=> Future(qs, order, t) \in live
  BY DEF LiveTurns
<1> HIDE DEF T
<1>3. IsFiniteSet(L)
  <2> HIDE DEF L
  <2> QED BY <1>1, <1>2, FS_Subset
<1>4. \A t, u \in T : <<t, u>> \in B <=> Earlier(t, u)
  OBVIOUS
<1> HIDE DEF L, B
<1>5. Orders(B, L)
  <2>1. \A t \in L : <<t, t>> \notin B
    <3> SUFFICES ASSUME NEW t \in L PROVE ~Earlier(t, t)
      BY <1>2, <1>4
    <3>1. t[1] \in Nat /\ t[2] \in Nat
      BY <1>1, <1>2
    <3> QED BY <3>1 DEF Earlier
  <2>2. \A t, u, v \in L : <<t, u>> \in B /\ <<u, v>> \in B => <<t, v>> \in B
    <3> SUFFICES ASSUME NEW t \in L, NEW u \in L, NEW v \in L, Earlier(t, u), Earlier(u, v)
                 PROVE  Earlier(t, v)
      BY <1>2, <1>4
    <3>1. /\ t[1] \in Nat /\ t[2] \in Nat /\ u[1] \in Nat /\ u[2] \in Nat
          /\ v[1] \in Nat /\ v[2] \in Nat
      BY <1>1, <1>2
    <3> QED BY <3>1 DEF Earlier
  <2>3. \A t, u \in L : t = u \/ <<t, u>> \in B \/ <<u, t>> \in B
    <3> SUFFICES ASSUME NEW t \in L, NEW u \in L, ~Earlier(t, u), ~Earlier(u, t)
                 PROVE  t = u
      BY <1>2, <1>4
    <3>1. /\ t[1] \in Nat /\ t[2] \in Nat /\ u[1] \in Nat /\ u[2] \in Nat
          /\ t = <<t[1], t[2]>> /\ u = <<u[1], u[2]>>
      BY <1>1, <1>2
    <3>2. t[1] = u[1] /\ t[2] = u[2]
      BY <3>1 DEF Earlier
    <3> QED BY <3>1, <3>2
  <2> QED BY <2>1, <2>2, <2>3 DEF Orders
<1>6. /\ IsFiniteSet(F) /\ Cardinality(F) \in Nat
      /\ F # {} => Cardinality(F) <= k
      /\ F # L => Cardinality(F) >= k
  <2> DEFINE G == F
  <2>1. G = {t \in L : RankIn(B, L)[t] < k}
    OBVIOUS
  <2> HIDE DEF G
  <2>2. /\ IsFiniteSet(G) /\ Cardinality(G) \in Nat
        /\ G # {} => Cardinality(G) <= k
        /\ G # L => Cardinality(G) >= k
    BY <1>3, <1>5, <2>1, FirstRanked
  <2> QED BY <2>2 DEF G
<1>7. F = Popped(qs, order, live, k) \cap L
  <2>1. ASSUME NEW t \in L
        PROVE  RankIn(B, L)[t] = Cardinality({u \in L : Earlier(u, t)})
    <3>1. {u \in L : <<u, t>> \in B} = {u \in L : Earlier(u, t)}
      BY <1>2, <1>4
    <3>2. RankIn(B, L)[t] = Cardinality({u \in L : <<u, t>> \in B})
      BY DEF RankIn
    <3> QED BY <3>1, <3>2
  <2>2. \A t \in L : t \in Popped(qs, order, live, k)
                       <=> Cardinality({u \in L : Earlier(u, t)}) < k
    BY <1>2 DEF Popped, L, T
  <2> QED BY <2>1, <2>2
<1>8. gr = {Future(qs, order, t) : t \in F}
  <2>1. gr = {Future(qs, order, t) : t \in Popped(qs, order, live, k) \cap L}
    BY DEF Granted, L
  <2> QED BY <1>7, <2>1
<1>9. F \subseteq L
  OBVIOUS
<1> HIDE DEF F
<1>10. f \in Bijection(F, gr)
  <2>1. f \in [F -> gr]
    BY <1>8
  <2>2. \A t, u \in F : f[t] = f[u] => t = u
    BY <1>1, <1>2, <1>9
  <2>3. \A r \in gr : \E t \in F : f[t] = r
    BY <1>8
  <2> HIDE DEF f
  <2> QED BY <2>1, <2>2, <2>3 DEF Bijection, Injection, Surjection, IsInjective
<1>11. IsFiniteSet(gr) /\ Cardinality(gr) = Cardinality(F)
  <2>1. ExistsBijection(F, gr)
    BY <1>10 DEF ExistsBijection
  <2> QED BY <1>6, <2>1, FS_Bijection
<1>12. gr # {} => F # {}
  BY <1>8
<1>13. ASSUME live \cap Queued(LaneAfter(qs, order, live, k).queues) # {}
       PROVE  F # L
  <2>1. PICK r \in live : r \in Queued(LaneAfter(qs, order, live, k).queues)
    BY <1>13
  <2>2. r \in Queued(qs) /\ r \notin gr
    BY <2>1, LaneStaysOK
  <2>3. PICK t \in T : Future(qs, order, t) = r
    BY <1>1, <2>2
  <2>4. t \in L
    BY <1>2, <2>3
  <2> QED BY <1>8, <2>2, <2>3, <2>4
<1> QED BY <1>6, <1>11, <1>12, <1>13

-----------------------------------------------------------------------------
(* Turns between the clients of one lane. *)

\* Queues j with rotation oj have grown from q and o: a queue at its end only, the
\* rotation without changing the order of the clients that had work.
Longer(q, o, j, oj) ==
  /\ \A c \in Clients : q[c] \in Seq(Requests) /\ Len(q[c]) <= Len(j[c])
                        /\ \A i \in 1..Len(q[c]) : q[c][i] = j[c][i]
  /\ \A c, e \in Clients :
       q[c] # <<>> /\ q[e] # <<>> => (Before(o, c, e) <=> Before(oj, c, e))

\* Round-robin from lane q, o to lane q2, o2 when calls g are resolved: RoundRobin
\* of one step, for every client that keeps one of its calls in the lane.
Stays(q, q2, c) == Elements(q[c]) \cap Elements(q2[c]) # {}
Spent(q, q2, c) == Elements(q[c]) \ Elements(q2[c])
Ahead(q, q2, g, c, e) == Cardinality({r \in g : ClientOf[r] = e}) - Cardinality(Spent(q, q2, c))
Fair(q, o, q2, o2, g) ==
  \A c, e \in Clients : c # e /\ Stays(q, q2, c) =>
    /\ Ahead(q, q2, g, c, e) <= 1
    /\ Ahead(q, q2, g, c, e) = 1 => Before(o2, c, e)
    /\ Stays(q, q2, e) /\ Spent(q, q2, c) \cup Spent(q, q2, e) = {} =>
         (Before(o, c, e) <=> Before(o2, c, e))

\* A client that keeps a call of q has used up as many calls of q as it has had turns.
LEMMA SpentIsTurns ==
  ASSUME LimiterAssumption, NEW qs, NEW order, LaneOK(qs, order), NEW q, NEW o, Longer(q, o, qs, order),
         NEW pop, Taken(qs, order, pop), NEW q2, q2 = QueuesAfter(qs, order, pop),
         NEW c \in Clients, Stays(q, q2, c), NEW m, m = TurnsOf(pop, order, c)
  PROVE  /\ m \in Nat /\ m < Len(q[c]) /\ m < Len(qs[c]) /\ q[c] # <<>> /\ q2[c] # <<>>
         /\ Cardinality(Spent(q, q2, c)) = m
<1> DEFINE s == q[c]
           j == qs[c]
           a == q2[c]
<1>1. /\ s \in Seq(Requests) /\ Len(s) <= Len(j) /\ \A i \in 1..Len(s) : s[i] = j[i]
      /\ j \in Seq(Requests) /\ Once(j) /\ m \in 0..Len(j)
      /\ a = SubSeq(j, m + 1, Len(j))
      /\ Elements(s) \cap Elements(a) # {}
  BY DEF Longer, LaneOK, Taken, QueuesAfter, Stays
<1> HIDE DEF s, j, a
<1>2. /\ Len(s) \in Nat /\ Len(j) \in Nat /\ m \in Nat /\ DOMAIN s = 1..Len(s) /\ DOMAIN j = 1..Len(j)
  BY <1>1
<1>3. Elements(a) = {j[i] : i \in (m + 1)..Len(j)} /\ (a # <<>> <=> m < Len(j))
  <2>1. j \in Seq(Requests) /\ m \in 0..Len(j) /\ a = SubSeq(j, m + 1, Len(j))
    BY <1>1
  <2> QED BY ONLY <2>1, TailKeeps
<1>4. ASSUME NEW b \in 1..Len(s), NEW i \in (m + 1)..Len(j), s[b] = j[i]
      PROVE  b = i /\ m < b
  <2>1. b \in DOMAIN j /\ i \in DOMAIN j /\ j[b] = j[i]
    BY <1>1, <1>2, <1>4
  <2>2. b = i
    BY <1>1, <2>1 DEF Once
  <2> QED BY <1>2, <2>2
<1>5. m < Len(s)
  <2>1. PICK x : x \in Elements(s) /\ x \in Elements(a)
    BY <1>1
  <2>2. PICK b \in 1..Len(s) : s[b] = x
    BY <1>2, <2>1 DEF Elements
  <2>3. PICK i \in (m + 1)..Len(j) : j[i] = x
    BY <1>3, <2>1
  <2>4. m < b
    BY <1>4, <2>2, <2>3
  <2> QED BY <1>2, <2>4
<1>6. Elements(s) \ Elements(a) = {j[i] : i \in 1..m}
  <2>1. ASSUME NEW i \in 1..m PROVE j[i] \in Elements(s) /\ j[i] \notin Elements(a)
    <3>1. i \in 1..Len(s) /\ s[i] = j[i] /\ ~(m < i)
      BY <1>1, <1>2, <1>5
    <3>2. j[i] \in Elements(s)
      BY <1>2, <3>1 DEF Elements
    <3>3. ASSUME NEW h \in (m + 1)..Len(j), j[i] = j[h] PROVE FALSE
      BY <1>4, <3>1, <3>3
    <3> QED BY <1>3, <3>2, <3>3
  <2>2. ASSUME NEW x \in Elements(s), x \notin Elements(a) PROVE x \in {j[i] : i \in 1..m}
    <3>1. PICK b \in 1..Len(s) : s[b] = x
      BY <1>2 DEF Elements
    <3>2. b \in 1..Len(j) /\ j[b] = x
      BY <1>1, <1>2, <3>1
    <3>3. b \notin (m + 1)..Len(j)
      BY <1>3, <2>2, <3>2
    <3>4. b \in 1..m
      BY <1>2, <3>2, <3>3
    <3> QED BY <3>2, <3>4
  <2> QED BY <2>1, <2>2
<1>7. Cardinality({j[i] : i \in 1..m}) = m
  <2> DEFINE f == [i \in 1..m |-> j[i]]
             E == {j[i] : i \in 1..m}
  <2>1. \A h, i \in 1..m : f[h] = f[i] => h = i
    <3>1. \A i \in 1..m : i \in DOMAIN j
      BY <1>1, <1>2
    <3> QED BY <1>1, <3>1 DEF Once
  <2>2. f \in [1..m -> E] /\ \A x \in E : \E i \in 1..m : f[i] = x
    OBVIOUS
  <2> HIDE DEF f, E
  <2>3. f \in Bijection(1..m, E)
    BY <2>1, <2>2 DEF Bijection, Injection, Surjection, IsInjective
  <2>4. IsFiniteSet(1..m) /\ Cardinality(1..m) = m
    <3>1. m \in Nat
      BY <1>2
    <3>2. IsFiniteSet(1..m) /\ Cardinality(1..m) = IF 1 > m THEN 0 ELSE m - 1 + 1
      BY ONLY <3>1, FS_Interval
    <3> QED BY ONLY <3>1, <3>2
  <2>5. ExistsBijection(1..m, E)
    BY <2>3 DEF ExistsBijection
  <2>6. Cardinality(E) = m
    BY <2>4, <2>5, FS_Bijection
  <2> QED BY <2>6 DEF E
<1>8. s # <<>> /\ m < Len(j)
  BY <1>1, <1>2, <1>5
<1> QED BY <1>2, <1>3, <1>5, <1>6, <1>7, <1>8 DEF Spent, s, j, a

\* A client gets no more slots than it has turns.
LEMMA GrantsWithinTurns ==
  ASSUME LimiterAssumption, NEW qs, NEW order, LaneOK(qs, order), NEW live, NEW k \in Int,
         NEW g, g = Granted(qs, order, live, k),
         NEW pop, pop = Popped(qs, order, live, k), NEW c \in Clients
  PROVE  /\ Cardinality({r \in g : ClientOf[r] = c}) \in Nat
         /\ TurnsOf(pop, order, c) \in Nat
         /\ Cardinality({r \in g : ClientOf[r] = c}) <= TurnsOf(pop, order, c)
<1> DEFINE L == LiveTurns(qs, order, live)
           C == {t \in pop : order[t[2]] = c}
           D == {t \in pop \cap L : order[t[2]] = c}
           E == {r \in g : ClientOf[r] = c}
           f == [t \in D |-> Future(qs, order, t)]
<1>1. g = {Future(qs, order, t) : t \in pop \cap L} /\ pop \subseteq Turns(qs, order)
  BY DEF Granted, Popped
<1> HIDE DEF L
<1>2. \A t \in pop : ClientOf[Future(qs, order, t)] = order[t[2]]
  BY <1>1, TurnsServe
<1>3. f \in [D -> E] /\ \A r \in E : \E t \in D : f[t] = r
  BY <1>1, <1>2
<1>4. IsFiniteSet(C) /\ IsFiniteSet(D)
  <2>1. IsFiniteSet(Turns(qs, order))
    BY TurnsServe
  <2>2. C \subseteq Turns(qs, order) /\ D \subseteq Turns(qs, order)
    BY <1>1
  <2> HIDE DEF C, D
  <2> QED BY <2>1, <2>2, FS_Subset
<1>5. D \subseteq C /\ TurnsOf(pop, order, c) = Cardinality(C)
  BY DEF TurnsOf
<1> HIDE DEF C, D, E, f
<1>6. f \in Surjection(D, E)
  BY <1>3 DEF Surjection
<1>7. IsFiniteSet(E) /\ Cardinality(E) <= Cardinality(D)
  BY <1>4, <1>6, FS_Surjection
<1>8. Cardinality(D) <= Cardinality(C)
  BY <1>4, <1>5, FS_Subset
<1>9. Cardinality(C) \in Nat /\ Cardinality(D) \in Nat /\ Cardinality(E) \in Nat
  BY <1>4, <1>7, FS_CardinalityType
<1> QED BY <1>5, <1>7, <1>8, <1>9 DEF E

\* A dispatch of one lane is round-robin: while a client's next turn is not taken no
\* later one is, so no client has had more than one turn more; and the rotation is
\* kept but that those with that one turn more go behind.
LEMMA LaneIsFair ==
  ASSUME LimiterAssumption, NEW qs, NEW order, LaneOK(qs, order), NEW live, NEW k \in Int,
         NEW q, NEW o, Longer(q, o, qs, order), NEW a, a = LaneAfter(qs, order, live, k),
         NEW g, g = Granted(qs, order, live, k)
  PROVE  Fair(q, o, a.queues, a.rotation, g)
<1> DEFINE pop == Popped(qs, order, live, k)
           q2 == a.queues
           o2 == a.rotation
           used(c) == TurnsOf(pop, order, c)
           left == {c \in Clients : q2[c] # <<>>}
           last == {c \in left : \A t \in pop : t[1] <= used(c)}
           s == Keep(order, left \ last)
           u == Keep(order, last)
<1>1. q2 = QueuesAfter(qs, order, pop) /\ o2 = s \o u
  BY DEF LaneAfter, RotationAfter
<1>2. Taken(qs, order, pop)
  BY TurnsTaken
<1>3. /\ order \in Seq(Clients) /\ Elements(order) = {c \in Clients : qs[c] # <<>>}
      /\ qs \in [Clients -> Seq(Requests)]
  BY DEF LaneOK
<1> HIDE DEF q2, o2
<1> HIDE DEF left, last
<1>4. /\ s \in Seq(Clients) /\ Elements(s) = Elements(order) \cap (left \ last)
      /\ u \in Seq(Clients) /\ Elements(u) = Elements(order) \cap last
      /\ \A c, e \in left \ last : Before(s, c, e) <=> Before(order, c, e)
      /\ \A c, e \in last : Before(u, c, e) <=> Before(order, c, e)
  BY <1>3, KeepKeeps
<1> HIDE DEF s, u
<1>5. ASSUME NEW c \in Clients, Stays(q, q2, c)
      PROVE  /\ used(c) \in Nat /\ used(c) < Len(qs[c]) /\ q[c] # <<>> /\ c \in left
             /\ Cardinality(Spent(q, q2, c)) = used(c)
  <2> DEFINE m == used(c)
  <2>1. m = TurnsOf(pop, order, c)
    OBVIOUS
  <2> HIDE DEF pop, m
  <2>2. /\ m \in Nat /\ m < Len(q[c]) /\ m < Len(qs[c]) /\ q[c] # <<>> /\ q2[c] # <<>>
        /\ Cardinality(Spent(q, q2, c)) = m
    BY <1>1, <1>2, <1>5, <2>1, SpentIsTurns
  <2> QED BY <2>2 DEF m, left
<1>6. \A t \in pop : /\ t = <<t[1], t[2]>> /\ t[1] \in Nat /\ t[2] \in DOMAIN order
                     /\ order[t[2]] \in Clients /\ t[1] \in 1..Len(qs[order[t[2]]])
  <2>1. pop \subseteq Turns(qs, order)
    BY <1>2 DEF Taken
  <2> HIDE DEF pop
  <2> QED BY <2>1, TurnsServe
<1>7. ASSUME NEW c \in Clients, Stays(q, q2, c), NEW t \in pop
      PROVE  t[1] <= used(c) + 1
  <2> DEFINE m == used(c)
  <2>1. m \in Nat /\ m + 1 \in 1..Len(qs[c])
    <3>1. qs[c] \in Seq(Requests)
      BY <1>3
    <3> QED BY <1>5, <1>7, <3>1
  <2>2. c \in Elements(order)
    <3>1. qs[c] # <<>>
      BY <1>3, <2>1
    <3> QED BY <1>3, <3>1
  <2>3. PICK n \in DOMAIN order : order[n] = c
    BY <2>2 DEF Elements
  <2>4. <<m + 1, n>> \in Turns(qs, order)
    BY <2>1, <2>3, TurnsServe
  <2>5. <<m + 1, n>> \notin pop
    <3>1. <<m + 1, n>> \in pop <=> m + 1 <= m
      BY <1>2, <2>1, <2>3 DEF Taken
    <3> QED BY <2>1, <3>1
  <2>6. ~Earlier(<<m + 1, n>>, t)
    BY <2>4, <2>5, PoppedInOrder
  <2>7. t[1] \in Nat
    BY <1>6
  <2> HIDE DEF m
  <2>8. ~(m + 1 < t[1])
    BY <2>6 DEF Earlier
  <2>9. t[1] <= m + 1
    BY <2>1, <2>7, <2>8
  <2> QED BY <2>9 DEF m
<1>8. ASSUME NEW c \in Clients, used(c) # 0
      PROVE  \E t \in pop : t[1] = used(c)
  <2> DEFINE m == used(c)
  <2>1. m \in 0..Len(qs[c])
    BY <1>2 DEF Taken
  <2>2. m \in 1..Len(qs[c])
    <3>1. qs[c] \in Seq(Requests)
      BY <1>3
    <3> QED BY <1>8, <2>1, <3>1
  <2>3. c \in Elements(order)
    <3>1. qs[c] # <<>>
      BY <1>3, <2>2
    <3> QED BY <1>3, <3>1
  <2>4. PICK n \in DOMAIN order : order[n] = c
    BY <2>3 DEF Elements
  <2>5. <<m, n>> \in pop <=> m <= m
    BY <1>2, <2>2, <2>4 DEF Taken
  <2>6. <<m, n>> \in pop
    BY <2>2, <2>5
  <2> QED BY <2>6
<1> SUFFICES ASSUME NEW c \in Clients, NEW e \in Clients, c # e, Stays(q, q2, c)
             PROVE  /\ Ahead(q, q2, g, c, e) <= 1
                    /\ Ahead(q, q2, g, c, e) = 1 => Before(o2, c, e)
                    /\ Stays(q, q2, e) /\ Spent(q, q2, c) \cup Spent(q, q2, e) = {} =>
                         (Before(o, c, e) <=> Before(o2, c, e))
  BY DEF Fair, q2, o2
<1> DEFINE mine == used(c)
           theirs == used(e)
           got == Cardinality({r \in g : ClientOf[r] = e})
<1>9. got \in Nat /\ theirs \in Nat /\ got <= theirs
  <2>1. /\ Cardinality({r \in g : ClientOf[r] = e}) \in Nat
        /\ TurnsOf(pop, order, e) \in Nat
        /\ Cardinality({r \in g : ClientOf[r] = e}) <= TurnsOf(pop, order, e)
    BY GrantsWithinTurns
  <2> QED BY <2>1
<1>10. mine \in Nat /\ Ahead(q, q2, g, c, e) = got - mine
  BY <1>5 DEF Ahead
<1>11. theirs <= mine + 1
  <2>1. CASE theirs = 0
    BY <1>10, <2>1
  <2>2. CASE theirs # 0
    <3>1. PICK t \in pop : t[1] = theirs
      BY <1>8, <2>2
    <3> QED BY <1>7, <3>1
  <2> QED BY <2>1, <2>2
<1>12. ASSUME got - mine = 1
       PROVE  Before(o2, c, e)
  <2>1. theirs = mine + 1
    <3> HIDE DEF got, mine, theirs
    <3> QED BY <1>9, <1>10, <1>11, <1>12
  <2>2. c \notin last
    <3>1. PICK t \in pop : t[1] = theirs
      BY <1>8, <1>10, <2>1
    <3>2. ~(t[1] <= mine)
      BY <1>10, <2>1, <3>1
    <3> QED BY <3>2 DEF last
  <2>3. e \in left => e \in last
    <3>1. \A t \in pop : t[1] <= theirs
      BY <1>7, <2>1
    <3> QED BY <3>1 DEF last
  <2>4. c \notin Elements(u) /\ e \notin Elements(s)
    BY <1>4, <2>2, <2>3
  <2> QED BY <1>1, <1>4, <2>4, ConcatBefore
<1>13. ASSUME Stays(q, q2, e), Spent(q, q2, c) \cup Spent(q, q2, e) = {}
       PROVE  Before(o, c, e) <=> Before(o2, c, e)
  <2>1. mine = 0 /\ theirs = 0 /\ c \in left /\ e \in left /\ q[c] # <<>> /\ q[e] # <<>>
    <3>1. Cardinality(Spent(q, q2, c)) = 0 /\ Cardinality(Spent(q, q2, e)) = 0
      BY <1>13, FS_EmptySet
    <3> QED BY <1>5, <1>13, <3>1
  <2>2. c \in last <=> e \in last
    BY <2>1 DEF last
  <2>3. Before(o, c, e) <=> Before(order, c, e)
    BY <2>1 DEF Longer
  <2>4. CASE c \in last
    <3>1. c \notin Elements(s) /\ e \notin Elements(s)
      BY <1>4, <2>2, <2>4
    <3>2. Before(s \o u, c, e) <=> Before(u, c, e)
      BY <1>4, <3>1, ConcatBefore
    <3> QED BY <1>1, <1>4, <2>2, <2>3, <2>4, <3>2
  <2>5. CASE c \notin last
    <3>1. c \notin Elements(u) /\ e \notin Elements(u)
      BY <1>4, <2>2, <2>5
    <3>2. Before(s \o u, c, e) <=> Before(s, c, e)
      BY <1>4, <3>1, ConcatBefore
    <3> QED BY <1>1, <1>4, <2>1, <2>2, <2>3, <2>5, <3>2
  <2> QED BY <2>4, <2>5
<1>14. got - mine <= 1
  <2> HIDE DEF got, mine, theirs
  <2> QED BY <1>9, <1>10, <1>11
<1> QED BY <1>10, <1>12, <1>13, <1>14

-----------------------------------------------------------------------------
(* Both lanes. *)

\* Both lanes are in order, and no call is in both.
Placed(qs, rr) ==
  /\ qs \in [Lanes -> [Clients -> Seq(Requests)]] /\ rr \in [Lanes -> Seq(Clients)]
  /\ LaneOK(qs["main"], rr["main"]) /\ LaneOK(qs["priority"], rr["priority"])
  /\ Queued(qs["main"]) \cap Queued(qs["priority"]) = {}

\* The calls queued in either lane.
InQueues(qs) == Queued(qs["main"]) \cup Queued(qs["priority"])

\* A lane with nobody in it is in order.
LEMMA EmptyLane ==
  /\ LaneOK([c \in Clients |-> <<>>], <<>>)
  /\ Queued([c \in Clients |-> <<>>]) = {}
<1>1. /\ Elements(<<>>) = {} /\ Once(<<>>)
      /\ <<>> \in Seq(Clients) /\ <<>> \in Seq(Requests)
  BY DEF Elements, Once
<1> DEFINE q == [c \in Clients |-> <<>>]
<1>2. /\ q \in [Clients -> Seq(Requests)] /\ {c \in Clients : q[c] # <<>>} = {}
      /\ \A c \in Clients : q[c] = <<>>
  BY <1>1
<1> HIDE DEF q
<1>3. LaneOK(q, <<>>)
  BY <1>1, <1>2 DEF LaneOK
<1>4. \A r \in Requests : ClientOf[r] \in Clients
  BY LimiterAssumption DEF LimiterAssumption
<1>5. Queued(q) = {}
  BY <1>1, <1>2, <1>4 DEF Queued
<1> QED BY <1>3, <1>5 DEF q

\* Two lanes make one record of lanes.
LEMMA LanesPlaced ==
  ASSUME NEW qm, NEW om, NEW qp, NEW op, LaneOK(qm, om), LaneOK(qp, op),
         Queued(qm) \cap Queued(qp) = {},
         NEW qs, NEW rr, qs = [main |-> qm, priority |-> qp], rr = [main |-> om, priority |-> op]
  PROVE  Placed(qs, rr) /\ InQueues(qs) = Queued(qm) \cup Queued(qp)
<1>1. qs["main"] = qm /\ qs["priority"] = qp /\ rr["main"] = om /\ rr["priority"] = op
  OBVIOUS
<1>2. /\ qm \in [Clients -> Seq(Requests)] /\ qp \in [Clients -> Seq(Requests)]
      /\ om \in Seq(Clients) /\ op \in Seq(Clients)
  BY DEF LaneOK
<1>3. qs \in [Lanes -> [Clients -> Seq(Requests)]] /\ rr \in [Lanes -> Seq(Clients)]
  BY <1>2 DEF Lanes
<1> QED BY <1>1, <1>3 DEF Placed, InQueues

\* Closing the priority lane moves its calls behind the main ones and loses none.
LEMMA MigrationPlaces ==
  ASSUME LimiterAssumption, NEW qs, NEW rr, Placed(qs, rr), NEW m, m = Migrated(qs, rr)
  PROVE  /\ Placed(m.queues, m.rotation)
         /\ InQueues(m.queues) = InQueues(qs)
         /\ Queued(m.queues["priority"]) = {}
<1> DEFINE qm == qs["main"]
           qp == qs["priority"]
           j == [c \in Clients |-> qm[c] \o qp[c]]
           new == Keep(rr["priority"], {c \in Clients : qm[c] = <<>>})
           om == rr["main"] \o new
           e == [c \in Clients |-> <<>>]
<1>1. /\ m.queues = [main |-> j, priority |-> e]
      /\ m.rotation = [main |-> om, priority |-> <<>>]
  BY DEF Migrated
<1>2. LaneOK(qm, rr["main"]) /\ LaneOK(qp, rr["priority"]) /\ Queued(qm) \cap Queued(qp) = {}
  BY DEF Placed
<1> HIDE DEF qm, qp
<1>3. ASSUME NEW c \in Clients
      PROVE  /\ qm[c] \in Seq(Requests) /\ qp[c] \in Seq(Requests)
             /\ Once(qm[c]) /\ Once(qp[c])
             /\ Elements(qm[c]) \cap Elements(qp[c]) = {}
  <2>1. /\ qm[c] \in Seq(Requests) /\ qp[c] \in Seq(Requests) /\ Once(qm[c]) /\ Once(qp[c])
        /\ \A r \in Elements(qm[c]) : ClientOf[r] = c
        /\ \A r \in Elements(qp[c]) : ClientOf[r] = c
    BY <1>2 DEF LaneOK
  <2>2. Elements(qm[c]) \subseteq Requests
    BY <2>1 DEF Elements
  <2>3. \A r \in Elements(qm[c]) : r \notin Elements(qp[c])
    BY <1>2, <2>1, <2>2 DEF Queued
  <2> QED BY <2>1, <2>3
<1>4. ASSUME NEW c \in Clients
      PROVE  /\ j[c] \in Seq(Requests) /\ Once(j[c])
             /\ Elements(j[c]) = Elements(qm[c]) \cup Elements(qp[c])
             /\ j[c] # <<>> <=> qm[c] # <<>> \/ qp[c] # <<>>
  <2>1. j[c] = qm[c] \o qp[c]
    OBVIOUS
  <2>2. qm[c] \o qp[c] # <<>> <=> qm[c] # <<>> \/ qp[c] # <<>>
    BY <1>3
  <2>3. /\ qm[c] \in Seq(Requests) /\ qp[c] \in Seq(Requests) /\ Once(qm[c]) /\ Once(qp[c])
        /\ Elements(qm[c]) \cap Elements(qp[c]) = {}
    BY <1>3
  <2> DEFINE a == qm[c]
             b == qp[c]
  <2> HIDE DEF j, a, b
  <2>4. /\ a \o b \in Seq(Requests) /\ Once(a \o b)
        /\ Elements(a \o b) = Elements(a) \cup Elements(b)
    BY <2>3, ConcatKeeps DEF a, b
  <2> QED BY <2>1, <2>2, <2>4 DEF a, b
<1>5. j \in [Clients -> Seq(Requests)]
  <2>1. j = [c \in Clients |-> j[c]]
    OBVIOUS
  <2> HIDE DEF j
  <2> QED BY <1>4, <2>1
<1> HIDE DEF j
<1>6. /\ om \in Seq(Clients) /\ Once(om)
      /\ Elements(om) = {c \in Clients : j[c] # <<>>}
  <2>1. /\ rr["main"] \in Seq(Clients) /\ Once(rr["main"])
        /\ Elements(rr["main"]) = {c \in Clients : qm[c] # <<>>}
        /\ rr["priority"] \in Seq(Clients) /\ Once(rr["priority"])
        /\ Elements(rr["priority"]) = {c \in Clients : qp[c] # <<>>}
    BY <1>2 DEF LaneOK
  <2>2. /\ new \in Seq(Clients) /\ Once(new)
        /\ Elements(new) = Elements(rr["priority"]) \cap {c \in Clients : qm[c] = <<>>}
    BY <2>1, KeepKeeps
  <2> HIDE DEF new
  <2>3. Elements(rr["main"]) \cap Elements(new) = {}
    BY <2>1, <2>2
  <2>4. /\ om \in Seq(Clients) /\ Once(om)
        /\ Elements(om) = Elements(rr["main"]) \cup Elements(new)
    BY <2>1, <2>2, <2>3, ConcatKeeps
  <2>5. Elements(rr["main"]) \cup Elements(new) = {c \in Clients : j[c] # <<>>}
    BY <1>4, <2>1, <2>2
  <2> QED BY <2>4, <2>5
<1> HIDE DEF om
<1>7. LaneOK(j, om)
  <2>1. \A c \in Clients : Once(j[c]) /\ \A r \in Elements(j[c]) : ClientOf[r] = c
    BY <1>2, <1>4 DEF LaneOK
  <2> QED BY <1>5, <1>6, <2>1 DEF LaneOK
<1>8. Queued(j) = Queued(qm) \cup Queued(qp)
  <2>1. \A r \in Requests : ClientOf[r] \in Clients
    BY DEF LimiterAssumption
  <2> QED BY <1>4, <2>1 DEF Queued
<1>9. LaneOK(e, <<>>) /\ Queued(e) = {}
  BY EmptyLane
<1> HIDE DEF e
<1>10. Placed(m.queues, m.rotation) /\ InQueues(m.queues) = Queued(j) \cup Queued(e)
  BY <1>1, <1>7, <1>9, LanesPlaced
<1>11. m.queues["priority"] = e
  BY <1>1
<1> QED BY <1>8, <1>9, <1>10, <1>11 DEF InQueues, qm, qp

\* What a dispatch of d does to live calls: it resolves some of them, each from one
\* lane, within the limits in force, and leaves the others where the next dispatch
\* finds them, only while their pool is full.
Fits(d, qs, live, n, p, cap) ==
  /\ Placed(d.queues, d.rotation)
  /\ d.main \subseteq live /\ d.priority \subseteq live /\ d.main \cap d.priority = {}
  /\ InQueues(d.queues) \subseteq InQueues(qs) \ (d.main \cup d.priority)
  /\ live \ (d.main \cup d.priority) \subseteq InQueues(d.queues)
  /\ Cardinality(d.main) \in Nat /\ Cardinality(d.priority) \in Nat
  /\ d.priority # {} => p + Cardinality(d.priority) <= reserve
  /\ d.main # {} =>
       NormalBusy(n + Cardinality(d.main) + Cardinality(d.priority),
                  p + Cardinality(d.priority), reserve) <= cap
  /\ live \cap Queued(d.queues["priority"]) # {} =>
       reserve > 0 /\ p + Cardinality(d.priority) >= reserve
  /\ live \cap Queued(d.queues["main"]) # {} =>
       NormalBusy(n + Cardinality(d.main) + Cardinality(d.priority),
                  p + Cardinality(d.priority), reserve) >= cap

\* Every dispatch does: the lanes are served one after the other, the priority
\* lane closed first when the reserve is 0, and the main one from what is left.
LEMMA DispatchFits ==
  ASSUME LimiterAssumption, reserve \in Nat, NEW qs, NEW rr, Placed(qs, rr),
         NEW live, live \subseteq InQueues(qs), NEW n \in Int, NEW p \in Int, NEW cap \in Int,
         NEW d, d = Dispatched(qs, rr, live, n, p, cap)
  PROVE  Fits(d, qs, live, n, p, cap)
<1> DEFINE m  == IF reserve = 0 THEN Migrated(qs, rr) ELSE [queues |-> qs, rotation |-> rr]
           qp == m.queues["priority"]
           op == m.rotation["priority"]
           qm == m.queues["main"]
           om == m.rotation["main"]
           gp == Granted(qp, op, live, reserve - p)
           rest == live \ gp
           k  == cap - NormalBusy(n + Cardinality(gp), p + Cardinality(gp), reserve)
           gm == Granted(qm, om, rest, k)
           ap == LaneAfter(qp, op, live, reserve - p)
           am == LaneAfter(qm, om, rest, k)
<1>1. /\ Placed(m.queues, m.rotation) /\ InQueues(m.queues) = InQueues(qs)
      /\ reserve = 0 => Queued(qp) = {}
  <2>1. CASE reserve = 0
    <3> DEFINE g == Migrated(qs, rr)
    <3>1. Placed(g.queues, g.rotation) /\ InQueues(g.queues) = InQueues(qs)
          /\ Queued(g.queues["priority"]) = {}
      BY MigrationPlaces
    <3>2. m = g
      BY <2>1
    <3> HIDE DEF m, g
    <3> QED BY <2>1, <3>1, <3>2
  <2>2. CASE reserve # 0
    <3>1. m.queues = qs /\ m.rotation = rr
      BY <2>2
    <3> HIDE DEF m
    <3> QED BY <2>2, <3>1
  <2> QED BY <2>1, <2>2
<1>2. /\ d.main = gm /\ d.priority = gp
      /\ d.queues = [main |-> am.queues, priority |-> ap.queues]
      /\ d.rotation = [main |-> am.rotation, priority |-> ap.rotation]
  BY DEF Dispatched, LaneAfter
<1> HIDE DEF m
<1>3. LaneOK(qm, om) /\ LaneOK(qp, op) /\ Queued(qm) \cap Queued(qp) = {}
      /\ InQueues(qs) = Queued(qm) \cup Queued(qp)
  BY <1>1 DEF Placed, InQueues
<1> HIDE DEF qm, om, qp, op
<1>4. /\ LaneOK(ap.queues, ap.rotation)
      /\ gp \subseteq live \cap Queued(qp)
      /\ Queued(ap.queues) \subseteq Queued(qp) \ gp
      /\ live \cap Queued(qp) \subseteq gp \cup Queued(ap.queues)
  BY <1>3, LaneStaysOK
<1>5. /\ Cardinality(gp) \in Nat
      /\ gp # {} => Cardinality(gp) <= reserve - p
      /\ live \cap Queued(ap.queues) # {} => Cardinality(gp) >= reserve - p
  BY <1>3, LaneBounds
<1> DEFINE busy == NormalBusy(n + Cardinality(gp), p + Cardinality(gp), reserve)
<1> HIDE DEF gp, ap
<1>6. busy \in Int /\ k = cap - busy /\ k \in Int
  BY <1>5 DEF NormalBusy, Lesser
<1> HIDE DEF k, rest, busy
<1>7. /\ LaneOK(am.queues, am.rotation)
      /\ gm \subseteq rest \cap Queued(qm)
      /\ Queued(am.queues) \subseteq Queued(qm) \ gm
      /\ rest \cap Queued(qm) \subseteq gm \cup Queued(am.queues)
  BY <1>3, <1>6, LaneStaysOK
<1>8. /\ Cardinality(gm) \in Nat
      /\ gm # {} => Cardinality(gm) <= k
      /\ rest \cap Queued(am.queues) # {} => Cardinality(gm) >= k
  BY <1>3, <1>6, LaneBounds
<1> HIDE DEF gm, am
<1>9. rest = live \ gp
  BY DEF rest
<1>10. NormalBusy(n + Cardinality(gm) + Cardinality(gp), p + Cardinality(gp), reserve)
         = busy + Cardinality(gm)
  BY <1>5, <1>8 DEF busy, NormalBusy, Lesser
<1>11. Queued(am.queues) \cap Queued(ap.queues) = {}
  BY <1>3, <1>4, <1>7
<1>12. Placed(d.queues, d.rotation) /\ InQueues(d.queues) = Queued(am.queues) \cup Queued(ap.queues)
  BY <1>2, <1>4, <1>7, <1>11, LanesPlaced
<1>13. d.queues["priority"] = ap.queues /\ d.queues["main"] = am.queues
  BY <1>2
<1>14. gm \subseteq live /\ gp \subseteq live /\ gm \cap gp = {}
  BY <1>4, <1>7, <1>9
<1>15. InQueues(d.queues) \subseteq InQueues(qs) \ (gm \cup gp)
  BY <1>3, <1>4, <1>7, <1>12
<1>16. live \ (gm \cup gp) \subseteq InQueues(d.queues)
  BY <1>3, <1>4, <1>7, <1>9, <1>12
<1>17. gp # {} => p + Cardinality(gp) <= reserve
  BY <1>5
<1>18. gm # {} => busy + Cardinality(gm) <= cap
  BY <1>6, <1>8
<1>19. live \cap Queued(ap.queues) # {} => reserve > 0 /\ p + Cardinality(gp) >= reserve
  <2> SUFFICES ASSUME live \cap Queued(ap.queues) # {}
               PROVE  reserve > 0 /\ p + Cardinality(gp) >= reserve
    OBVIOUS
  <2>1. reserve # 0
    BY <1>1, <1>4 DEF qp
  <2>2. Cardinality(gp) >= reserve - p
    BY <1>5
  <2> QED BY <1>5, <2>1, <2>2
<1>20. live \cap Queued(am.queues) # {} => busy + Cardinality(gm) >= cap
  <2> SUFFICES ASSUME live \cap Queued(am.queues) # {}
               PROVE  busy + Cardinality(gm) >= cap
    OBVIOUS
  <2>1. rest \cap Queued(am.queues) # {}
    BY <1>3, <1>4, <1>7, <1>9
  <2> QED BY <1>6, <1>8, <2>1
<1> QED
  BY <1>2, <1>5, <1>8, <1>10, <1>12, <1>13, <1>14, <1>15, <1>16, <1>17, <1>18, <1>19, <1>20
  DEF Fits

-----------------------------------------------------------------------------
(* The counters. *)

\* The counters have their types and are the slots owned.
SlotInv == CountersOK /\ SlotAccounting

\* Where calls are, and who is inside a pool, with statuses st and lanes ln.
Statuses == {"idle", "parked", "granted", "holding"}
Inside(st) == {r \in Requests : st[r] \in {"granted", "holding"}}
InsideOf(st, ln) == {r \in Inside(st) : ln[r] = "priority"}
InsideMain(st, ln) == {r \in Inside(st) : ln[r] = "main"}

\* Whatever the queues hold, a dispatch resolves only live futures, and none
\* of them in both lanes.
LEMMA DispatchResolvesLive ==
  ASSUME NEW qs, NEW rr, NEW live, NEW n, NEW p, NEW cap
  PROVE  LET d == Dispatched(qs, rr, live, n, p, cap)
         IN  d.main \subseteq live /\ d.priority \subseteq live /\ d.main \cap d.priority = {}
<1>1. ASSUME NEW q, NEW o, NEW l, NEW k
      PROVE  Granted(q, o, l, k) \subseteq l
  BY DEF Granted, LiveTurns
<1> DEFINE m  == IF reserve = 0 THEN Migrated(qs, rr) ELSE [queues |-> qs, rotation |-> rr]
           gp == Granted(m.queues["priority"], m.rotation["priority"], live, reserve - p)
           k  == cap - NormalBusy(n + Cardinality(gp), p + Cardinality(gp), reserve)
           gm == Granted(m.queues["main"], m.rotation["main"], live \ gp, k)
<1>2. gp \subseteq live /\ gm \subseteq live \ gp
  <2>1. gp \subseteq live
    BY <1>1
  <2>2. gm \subseteq live \ gp
    BY <1>1
  <2> QED BY <2>1, <2>2
<1>3. Dispatched(qs, rr, live, n, p, cap).main = gm
  BY DEF Dispatched
<1>4. Dispatched(qs, rr, live, n, p, cap).priority = gp
  BY DEF Dispatched
<1> HIDE DEF gp, gm
<1> QED BY <1>2, <1>3, <1>4

\* Committing such a dispatch keeps the counters equal to the slots owned.
LEMMA DispatchAccounts ==
  ASSUME LimiterAssumption,
         NEW d, NEW run, NEW st \in [Requests -> Statuses], NEW ln \in [Requests -> Lanes],
         NEW n, NEW p, NEW live,
         live \subseteq {r \in Requests : st[r] = "parked"},
         d.main \subseteq live, d.priority \subseteq live, d.main \cap d.priority = {},
         n = Cardinality(Inside(st)), p = Cardinality(InsideOf(st, ln)),
         Commit(d, run, st, ln, n, p)
  PROVE  /\ status' \in [Requests -> Statuses] /\ lane' \in [Requests -> Lanes]
         /\ inflight' \in Nat /\ priorityInflight' \in Nat
         /\ SlotAccounting'
<1>1. status' \in [Requests -> Statuses] /\ lane' \in [Requests -> Lanes]
  BY DEF Commit, Statuses, Lanes
<1>2. /\ Holders' = Inside(st) \cup (d.main \cup d.priority)
      /\ Inside(st) \cap (d.main \cup d.priority) = {}
  BY DEF Commit, Holders, Inside
<1>3. /\ HoldersOf("priority")' = InsideOf(st, ln) \cup d.priority
      /\ InsideOf(st, ln) \cap d.priority = {}
  BY DEF Commit, Holders, HoldersOf, Inside, InsideOf
<1>4. /\ IsFiniteSet(d.main) /\ IsFiniteSet(d.priority)
      /\ IsFiniteSet(Inside(st)) /\ IsFiniteSet(InsideOf(st, ln))
  <2>1. IsFiniteSet(Requests)
    BY DEF LimiterAssumption
  <2>2. /\ d.main \subseteq Requests /\ d.priority \subseteq Requests
        /\ Inside(st) \subseteq Requests /\ InsideOf(st, ln) \subseteq Requests
    BY DEF Inside, InsideOf
  <2> QED BY <2>1, <2>2, FS_Subset
<1>5. /\ Cardinality(d.main) \in Nat /\ Cardinality(d.priority) \in Nat
      /\ n \in Nat /\ p \in Nat
  BY <1>4, FS_CardinalityType
<1>6. /\ IsFiniteSet(d.main \cup d.priority)
      /\ Cardinality(d.main \cup d.priority) = Cardinality(d.main) + Cardinality(d.priority)
  <2>1. Cardinality(d.main \cap d.priority) = 0
    BY FS_EmptySet
  <2>2. /\ IsFiniteSet(d.main \cup d.priority)
        /\ Cardinality(d.main \cup d.priority)
             = Cardinality(d.main) + Cardinality(d.priority) - Cardinality(d.main \cap d.priority)
    BY <1>4, FS_Union
  <2> QED BY <1>5, <2>1, <2>2
<1>7. Cardinality(Holders') = n + Cardinality(d.main) + Cardinality(d.priority)
  <2>1. Cardinality(Inside(st) \cap (d.main \cup d.priority)) = 0
    BY <1>2, FS_EmptySet
  <2>2. Cardinality(Inside(st) \cup (d.main \cup d.priority))
          = Cardinality(Inside(st)) + Cardinality(d.main \cup d.priority)
              - Cardinality(Inside(st) \cap (d.main \cup d.priority))
    BY <1>4, <1>6, FS_Union
  <2> QED BY <1>2, <1>5, <1>6, <2>1, <2>2
<1>8. Cardinality(HoldersOf("priority")') = p + Cardinality(d.priority)
  <2>1. Cardinality(InsideOf(st, ln) \cap d.priority) = 0
    BY <1>3, FS_EmptySet
  <2>2. Cardinality(InsideOf(st, ln) \cup d.priority)
          = Cardinality(InsideOf(st, ln)) + Cardinality(d.priority)
              - Cardinality(InsideOf(st, ln) \cap d.priority)
    BY <1>4, FS_Union
  <2>3. Cardinality(HoldersOf("priority")') = Cardinality(InsideOf(st, ln) \cup d.priority)
    BY <1>3
  <2> QED BY <1>5, <2>1, <2>2, <2>3
<1> QED BY <1>1, <1>5, <1>7, <1>8 DEF Commit, SlotAccounting

\* Initially nobody is inside and the counters are zero.
LEMMA InitSlotInv == ASSUME LimiterAssumption PROVE Init => SlotInv
<1> SUFFICES ASSUME Init PROVE SlotInv
  OBVIOUS
<1>1. InitialLiveCap(hardMax) \in Nat \ {0}
  BY DEF Init, InitialLiveCap, Lesser, Greater, LimiterAssumption
<1>2. CountersOK
  BY <1>1 DEF Init, CountersOK, Lanes
<1>3. Holders = {} /\ HoldersOf("priority") = {}
  BY DEF Init, Holders, HoldersOf
<1>4. SlotAccounting
  BY <1>3, FS_EmptySet DEF Init, SlotAccounting
<1> QED BY <1>2, <1>4 DEF SlotInv

\* The dispatch at the end of a retune, a grow or a kick: nobody arrives or
\* leaves before it, so the accounts it starts from are those of the state.
LEMMA RedispatchAccounts ==
  ASSUME LimiterAssumption, SlotInv, NEW cap,
         \E d \in {Dispatched(queues, rotation, Live, inflight, priorityInflight, cap)} :
           Commit(d, {}, status, lane, inflight, priorityInflight)
  PROVE  /\ status' \in [Requests -> Statuses] /\ lane' \in [Requests -> Lanes]
         /\ inflight' \in Nat /\ priorityInflight' \in Nat
         /\ SlotAccounting'
<1> DEFINE d == Dispatched(queues, rotation, Live, inflight, priorityInflight, cap)
<1>1. Commit(d, {}, status, lane, inflight, priorityInflight)
  OBVIOUS
<1>2. d.main \subseteq Live /\ d.priority \subseteq Live /\ d.main \cap d.priority = {}
  BY DispatchResolvesLive
<1>3. Live \subseteq {r \in Requests : status[r] = "parked"}
  BY DEF Live
<1>4. status \in [Requests -> Statuses] /\ lane \in [Requests -> Lanes]
  BY DEF SlotInv, CountersOK, Statuses
<1>5. inflight = Cardinality(Inside(status)) /\ priorityInflight = Cardinality(InsideOf(status, lane))
  BY DEF SlotInv, SlotAccounting, Inside, InsideOf, Holders, HoldersOf
<1> HIDE DEF d
<1> QED BY <1>1, <1>2, <1>3, <1>4, <1>5, DispatchAccounts

\* With statuses st and lanes ln, r's slot is back in the pool it was charged to.
Returned(r, st, ln) ==
  /\ st \in [Requests -> Statuses] /\ ln \in [Requests -> Lanes]
  /\ Live = {x \in Requests : st[x] = "parked" /\ x \notin cancelled}
  /\ Inside(st) = Holders \ {r}
  /\ InsideOf(st, ln) = HoldersOf("priority") \ {r}
  /\ InsideMain(st, ln) = HoldersOf("main") \ {r}
  /\ inflight - 1 = Cardinality(Inside(st))
  /\ priorityInflight - (IF lane[r] = "priority" THEN 1 ELSE 0) = Cardinality(InsideOf(st, ln))

\* Taking a holder out of the statuses lowers its pool, and no other, by one.
LEMMA GiveBackCounts ==
  ASSUME LimiterAssumption, SlotInv, NEW r \in Holders,
         NEW st, st = [status EXCEPT ![r] = "idle"],
         NEW ln, ln = [lane EXCEPT ![r] = "main"]
  PROVE  Returned(r, st, ln)
<1> DEFINE n == inflight - 1
           p == priorityInflight - (IF lane[r] = "priority" THEN 1 ELSE 0)
<1>1. st \in [Requests -> Statuses] /\ ln \in [Requests -> Lanes]
  BY DEF SlotInv, CountersOK, Statuses, Lanes
<1>2. Live = {x \in Requests : st[x] = "parked" /\ x \notin cancelled}
  BY <1>1 DEF Live, Holders, SlotInv, CountersOK
<1>3. Inside(st) = Holders \ {r}
  BY DEF Inside, Holders, SlotInv, CountersOK
<1>4. /\ InsideOf(st, ln) = HoldersOf("priority") \ {r}
      /\ InsideMain(st, ln) = HoldersOf("main") \ {r}
  BY <1>3 DEF InsideOf, InsideMain, HoldersOf, Holders, SlotInv, CountersOK
<1>5. IsFiniteSet(Holders) /\ IsFiniteSet(HoldersOf("priority"))
  <2>1. Holders \subseteq Requests /\ HoldersOf("priority") \subseteq Requests
    BY DEF Holders, HoldersOf
  <2> QED BY <2>1, FS_Subset DEF LimiterAssumption
<1>6. n = Cardinality(Inside(st))
  <2>1. Cardinality(Holders \ {r}) = Cardinality(Holders) - 1
    BY <1>5, FS_RemoveElement
  <2> QED BY <1>3, <2>1 DEF SlotInv, SlotAccounting
<1>7. p = Cardinality(InsideOf(st, ln))
  <2>1. CASE lane[r] = "priority"
    <3>1. r \in HoldersOf("priority")
      BY <2>1 DEF HoldersOf
    <3>2. Cardinality(HoldersOf("priority") \ {r}) = Cardinality(HoldersOf("priority")) - 1
      BY <1>5, <3>1, FS_RemoveElement
    <3> QED BY <1>4, <2>1, <3>2 DEF SlotInv, SlotAccounting
  <2>2. CASE lane[r] # "priority"
    <3>1. HoldersOf("priority") \ {r} = HoldersOf("priority")
      BY <2>2 DEF HoldersOf
    <3>2. Cardinality(InsideOf(st, ln)) = priorityInflight
      BY <1>4, <3>1 DEF SlotInv, SlotAccounting
    <3>3. p = priorityInflight
      BY <2>2 DEF SlotInv, CountersOK
    <3> QED BY <3>2, <3>3
  <2> QED BY <2>1, <2>2
<1> QED BY <1>1, <1>2, <1>3, <1>4, <1>6, <1>7 DEF Returned

\* A holder gives its slot back and what it frees is dispatched.
LEMMA GiveBackAccounts ==
  ASSUME LimiterAssumption, SlotInv, NEW r \in Holders, GiveBack(r)
  PROVE  /\ status' \in [Requests -> Statuses] /\ lane' \in [Requests -> Lanes]
         /\ inflight' \in Nat /\ priorityInflight' \in Nat
         /\ SlotAccounting'
<1> DEFINE st == [status EXCEPT ![r] = "idle"]
           ln == [lane EXCEPT ![r] = "main"]
           n  == inflight - 1
           p  == priorityInflight - (IF lane[r] = "priority" THEN 1 ELSE 0)
           d  == Dispatched(queues, rotation, Live, n, p, maxConcurrent)
<1>1. Commit(d, {}, st, ln, n, p)
  BY DEF GiveBack
<1>2. d.main \subseteq Live /\ d.priority \subseteq Live /\ d.main \cap d.priority = {}
  BY DispatchResolvesLive
<1>3. st = [status EXCEPT ![r] = "idle"] /\ ln = [lane EXCEPT ![r] = "main"]
  OBVIOUS
<1> HIDE DEF d, st, ln
<1>4. /\ st \in [Requests -> Statuses] /\ ln \in [Requests -> Lanes]
      /\ Live = {x \in Requests : st[x] = "parked" /\ x \notin cancelled}
      /\ Inside(st) = Holders \ {r}
      /\ InsideOf(st, ln) = HoldersOf("priority") \ {r}
      /\ InsideMain(st, ln) = HoldersOf("main") \ {r}
      /\ n = Cardinality(Inside(st)) /\ p = Cardinality(InsideOf(st, ln))
  <2>1. Returned(r, st, ln)
    BY <1>3, GiveBackCounts
  <2> QED BY <2>1 DEF Returned
<1> HIDE DEF n, p
<1>5. Live \subseteq {x \in Requests : st[x] = "parked"}
  BY <1>4
<1> QED BY <1>1, <1>2, <1>4, <1>5, DispatchAccounts

\* A task enters, waits, is cancelled, wakes or leaves.
LEMMA RequestStepKeepsSlotInv ==
  ASSUME LimiterAssumption, SlotInv, NEW r \in Requests, RequestStep(r)
  PROVE  SlotInv'
<1> USE DEF SlotInv
<1>f. ASSUME NEW S, S \subseteq Requests PROVE IsFiniteSet(S) /\ Cardinality(S) \in Nat
  <2>1. IsFiniteSet(S)
    BY <1>f, FS_Subset DEF LimiterAssumption
  <2> QED BY <2>1, FS_CardinalityType
<1>1. ASSUME NEW prio \in BOOLEAN, AcquireUnqueued(r, prio) PROVE SlotInv'
  <2> DEFINE l == EffectiveLane(prio)
  <2>1. l \in Lanes
    BY DEF EffectiveLane, Lanes
  <2> HIDE DEF l
  <2>2. /\ status' = [status EXCEPT ![r] = "holding"]
        /\ lane' = [lane EXCEPT ![r] = l]
        /\ inflight' = inflight + 1
        /\ priorityInflight' = priorityInflight + (IF l = "priority" THEN 1 ELSE 0)
        /\ UNCHANGED <<cancelled, maxConcurrent, hardMax, reserve, mode, kick>>
        /\ r \notin Holders
    BY <1>1 DEF AcquireUnqueued, Holders, capVars, knobVars, l
  <2>3. CountersOK'
    BY <2>1, <2>2 DEF CountersOK
  <2>4. Holders' = Holders \cup {r}
    BY <2>2 DEF Holders, CountersOK
  <2>5. inflight' = Cardinality(Holders')
    <3>1. Holders \subseteq Requests
      BY DEF Holders
    <3>2. Cardinality(Holders \cup {r}) = Cardinality(Holders) + 1
      BY <1>f, <2>2, <3>1, FS_AddElement
    <3> QED BY <2>2, <2>4, <3>2 DEF SlotAccounting
  <2>6. HoldersOf("priority")'
          = IF l = "priority" THEN HoldersOf("priority") \cup {r} ELSE HoldersOf("priority")
    BY <2>1, <2>2, <2>4 DEF HoldersOf, Holders, CountersOK
  <2>7. priorityInflight' = Cardinality(HoldersOf("priority")')
    <3>1. HoldersOf("priority") \subseteq Requests /\ r \notin HoldersOf("priority")
      BY <2>2 DEF HoldersOf, Holders
    <3>2. Cardinality(HoldersOf("priority") \cup {r}) = Cardinality(HoldersOf("priority")) + 1
      BY <1>f, <3>1, FS_AddElement
    <3>3. CASE l = "priority"
      <4>1. Cardinality(HoldersOf("priority")') = Cardinality(HoldersOf("priority") \cup {r})
        BY <2>6, <3>3
      <4> QED BY <2>2, <3>2, <3>3, <4>1 DEF SlotAccounting
    <3>4. CASE l # "priority"
      <4>1. Cardinality(HoldersOf("priority")') = Cardinality(HoldersOf("priority"))
        BY <2>6, <3>4
      <4>2. priorityInflight' = priorityInflight
        BY <2>2, <3>4 DEF CountersOK
      <4> QED BY <4>1, <4>2 DEF SlotAccounting
    <3> QED BY <3>3, <3>4
  <2> QED BY <2>3, <2>5, <2>7 DEF SlotAccounting
<1>2. ASSUME NEW prio \in BOOLEAN, Acquire(r, prio) PROVE SlotInv'
  <2> DEFINE l  == EffectiveLane(prio)
             c  == ClientOf[r]
             qs == [queues EXCEPT ![l][c] = Append(@, r)]
             rr == IF queues[l][c] = <<>> THEN [rotation EXCEPT ![l] = Append(@, c)] ELSE rotation
             st == [status EXCEPT ![r] = "parked"]
             d  == Dispatched(qs, rr, Live \cup {r}, inflight, priorityInflight, maxConcurrent)
  <2>1. /\ status[r] = "idle"
        /\ Commit(d, {r}, st, lane, inflight, priorityInflight)
        /\ UNCHANGED <<cancelled, capVars, knobVars>>
    BY <1>2 DEF Acquire
  <2>2. /\ d.main \subseteq Live \cup {r} /\ d.priority \subseteq Live \cup {r}
        /\ d.main \cap d.priority = {}
    BY DispatchResolvesLive
  <2>3. st \in [Requests -> Statuses] /\ lane \in [Requests -> Lanes]
    BY DEF CountersOK, Statuses
  <2>4. Live \cup {r} \subseteq {x \in Requests : st[x] = "parked"}
    BY <2>3 DEF Live, CountersOK
  <2>5. Inside(st) = Holders /\ InsideOf(st, lane) = HoldersOf("priority")
    BY <2>1 DEF Inside, InsideOf, Holders, HoldersOf, CountersOK
  <2>6. inflight = Cardinality(Inside(st)) /\ priorityInflight = Cardinality(InsideOf(st, lane))
    BY <2>5 DEF SlotAccounting
  <2> HIDE DEF d, st
  <2>7. /\ status' \in [Requests -> Statuses] /\ lane' \in [Requests -> Lanes]
        /\ inflight' \in Nat /\ priorityInflight' \in Nat
        /\ SlotAccounting'
    BY <2>1, <2>2, <2>3, <2>4, <2>6, DispatchAccounts
  <2> QED BY <2>1, <2>7 DEF CountersOK, Statuses, capVars, knobVars
<1>3. CASE Resume(r)
  <2>1. Holders' = Holders
    BY <1>3 DEF Resume, Holders, CountersOK
  <2>2. HoldersOf("priority")' = HoldersOf("priority")
    BY <1>3, <2>1 DEF Resume, HoldersOf
  <2>3. SlotAccounting'
    BY <1>3, <2>1, <2>2 DEF Resume, SlotAccounting, countVars
  <2> QED BY <1>3, <2>3 DEF Resume, CountersOK, countVars, capVars, knobVars
<1>4. CASE Cancel(r)
  BY <1>4 DEF Cancel, CountersOK, SlotAccounting, Holders, HoldersOf, countVars, capVars, knobVars
<1>5. CASE CleanUpParked(r)
  <2>1. Holders' = Holders
    BY <1>5 DEF CleanUpParked, Holders, CountersOK
  <2>2. HoldersOf("priority")' = HoldersOf("priority")
    BY <1>5, <2>1 DEF CleanUpParked, HoldersOf
  <2>3. SlotAccounting'
    BY <1>5, <2>1, <2>2 DEF CleanUpParked, SlotAccounting, countVars
  <2> QED BY <1>5, <2>3 DEF CleanUpParked, CountersOK, countVars, capVars, knobVars
<1>6. CASE CleanUpGranted(r) \/ Release(r)
  <2>1. r \in Holders /\ GiveBack(r)
    BY <1>6 DEF CleanUpGranted, Release, Holders
  <2>2. /\ status' \in [Requests -> Statuses] /\ lane' \in [Requests -> Lanes]
        /\ inflight' \in Nat /\ priorityInflight' \in Nat
        /\ SlotAccounting'
    BY <2>1, GiveBackAccounts
  <2> QED BY <1>6, <2>2 DEF CleanUpGranted, Release, CountersOK, Statuses, capVars, knobVars
<1> QED BY <1>1, <1>2, <1>3, <1>4, <1>5, <1>6 DEF RequestStep, TaskStep

\* Pushback, growth, the operator's retunes and the kick.
LEMMA ControlStepKeepsSlotInv ==
  ASSUME LimiterAssumption, SlotInv, ControlStep
  PROVE  SlotInv'
<1> USE DEF SlotInv
<1> DEFINE Accounts == /\ status' \in [Requests -> Statuses] /\ lane' \in [Requests -> Lanes]
                       /\ inflight' \in Nat /\ priorityInflight' \in Nat
                       /\ SlotAccounting'
<1>u. ASSUME UNCHANGED <<status, lane, inflight, priorityInflight>> PROVE Accounts
  <2>1. Holders' = Holders /\ HoldersOf("priority")' = HoldersOf("priority")
    BY <1>u DEF Holders, HoldersOf
  <2> QED BY <1>u, <2>1 DEF CountersOK, SlotAccounting, Statuses
<1>r. ASSUME Redispatch PROVE Accounts
  <2>1. CASE QueueEnabled
    BY <1>r, <2>1, RedispatchAccounts DEF Redispatch
  <2>2. CASE ~QueueEnabled
    BY <1>r, <1>u, <2>2 DEF Redispatch, countVars
  <2> QED BY <2>1, <2>2
<1> HIDE DEF Accounts
<1>a. ASSUME Accounts, cancelled' \subseteq Requests, maxConcurrent' \in Nat \ {0},
             hardMax' \in HardMaxes, reserve' \in Reserves, mode' \in Modes, kick' \in BOOLEAN
      PROVE  SlotInv'
  BY <1>a DEF Accounts, CountersOK, Statuses
<1>h. hardMax \in Nat \ {0} /\ maxConcurrent \in Nat \ {0}
  BY DEF CountersOK, LimiterAssumption
<1>1. CASE Shrink
  <2>1. /\ AimdFloor(hardMax) \in Nat \ {0}
        /\ Lesser((maxConcurrent * DecreasePct) \div 100, maxConcurrent - 1) \in Int
    BY <1>h DEF AimdFloor, Lesser, LimiterAssumption
  <2>2. maxConcurrent' \in Nat \ {0}
    BY <1>1, <2>1 DEF Shrink, Greater
  <2>3. Accounts
    BY <1>1, <1>u DEF Shrink, slotVars, countVars
  <2> QED BY <1>1, <1>a, <2>2, <2>3 DEF Shrink, slotVars, knobVars, CountersOK
<1>2. CASE Grow
  BY <1>2, <1>a, <1>h, <1>r DEF Grow, knobVars, CountersOK
<1>3. ASSUME NEW h \in HardMaxes, RetuneHardMax(h) PROVE SlotInv'
  <2>1. maxConcurrent' \in Nat \ {0}
    BY <1>3, <1>h DEF RetuneHardMax, Lesser, LimiterAssumption
  <2> QED BY <1>3, <1>a, <1>r, <2>1 DEF RetuneHardMax, knobVars, CountersOK
<1>4. ASSUME NEW h \in HardMaxes, NEW floor \in LiveFloors, RetuneLiveFloor(h, floor)
      PROVE  SlotInv'
  <2>1. maxConcurrent' \in Nat \ {0}
    BY <1>4, <1>h DEF RetuneLiveFloor, Lesser, Greater, LimiterAssumption
  <2> QED BY <1>4, <1>a, <1>r, <2>1 DEF RetuneLiveFloor, knobVars, CountersOK
<1>5. ASSUME NEW n \in Reserves, SetReserve(n) PROVE SlotInv'
  <2>1. Accounts
    BY <1>5, <1>u DEF SetReserve, slotVars, countVars
  <2> QED BY <1>5, <1>a, <2>1 DEF SetReserve, slotVars, capVars, CountersOK
<1>6. CASE Kick
  <2>1. Accounts
    BY <1>6, RedispatchAccounts DEF Kick, Accounts
  <2> QED BY <1>6, <1>a, <2>1 DEF Kick, capVars, CountersOK
<1>7. ASSUME NEW m \in Modes, SwitchMode(m) PROVE SlotInv'
  <2>1. Accounts
    BY <1>7, <1>u DEF SwitchMode, slotVars, countVars
  <2> QED BY <1>7, <1>a, <2>1 DEF SwitchMode, slotVars, capVars, CountersOK
<1> QED BY <1>1, <1>2, <1>3, <1>4, <1>5, <1>6, <1>7 DEF ControlStep

\* Through every interleaving of arrivals, dispatches, cancellations, timeouts,
\* releases and retunes, inflight and the priority sub-count that admission
\* decides on are the numbers of calls that own a slot.
THEOREM SlotAccountingHolds == Spec => [](CountersOK /\ SlotAccounting)
<1>1. LimiterAssumption
  BY LimiterAssumption
<1>2. Init => SlotInv
  BY <1>1, InitSlotInv
<1>3. SlotInv /\ [Next]_vars => SlotInv'
  <2> SUFFICES ASSUME SlotInv, [Next]_vars PROVE SlotInv'
    OBVIOUS
  <2>1. CASE \E r \in Requests : RequestStep(r)
    BY <1>1, <2>1, RequestStepKeepsSlotInv
  <2>2. CASE ControlStep
    BY <1>1, <2>2, ControlStepKeepsSlotInv
  <2>3. CASE UNCHANGED vars
    BY <2>3 DEF SlotInv, CountersOK, SlotAccounting, Holders, HoldersOf,
                vars, slotVars, countVars, capVars, knobVars
  <2> QED BY <2>1, <2>2, <2>3 DEF Next
<1> QED BY <1>2, <1>3, PTL DEF Spec, SlotInv

\* Shrinking, growing and every retune leave the live cap at least one (a zero
\* cap would stop the bearer for good) and at most the operator's ceiling, even
\* where the ceiling is below the AIMD floor.
THEOREM CapWithinCeilingHolds == Spec => []CapWithinCeiling
<1>1. LimiterAssumption
  BY LimiterAssumption
<1>2. Init => CapWithinCeiling
  BY <1>1 DEF Init, CapWithinCeiling, InitialLiveCap, Lesser, Greater, LimiterAssumption
<1>3. SlotInv /\ CapWithinCeiling /\ [Next]_vars => CapWithinCeiling'
  <2> SUFFICES ASSUME SlotInv, CapWithinCeiling, [Next]_vars PROVE CapWithinCeiling'
    OBVIOUS
  <2>h. hardMax \in Nat \ {0} /\ maxConcurrent \in Nat \ {0}
    BY <1>1 DEF SlotInv, CountersOK, LimiterAssumption
  <2>1. ASSUME UNCHANGED capVars PROVE CapWithinCeiling'
    BY <2>1 DEF CapWithinCeiling, capVars
  <2>2. CASE \E r \in Requests : RequestStep(r)
    BY <2>1, <2>2 DEF RequestStep, TaskStep, AcquireUnqueued, Acquire, Resume, Cancel,
                      CleanUpParked, CleanUpGranted, Release
  <2>3. CASE Shrink
    <3>1. (maxConcurrent * DecreasePct) \div 100 \in Int
      BY <1>1, <2>h DEF LimiterAssumption
    <3> QED BY <1>1, <2>3, <2>h, <3>1
            DEF Shrink, CapWithinCeiling, AimdFloor, Lesser, Greater, LimiterAssumption
  <2>4. CASE Grow
    BY <2>4, <2>h DEF Grow, CapWithinCeiling
  <2>5. ASSUME NEW h \in HardMaxes,
               RetuneHardMax(h) \/ \E floor \in LiveFloors : RetuneLiveFloor(h, floor)
        PROVE  CapWithinCeiling'
    BY <1>1, <2>5, <2>h
    DEF RetuneHardMax, RetuneLiveFloor, CapWithinCeiling, Lesser, Greater, LimiterAssumption
  <2>6. CASE Kick \/ (\E n \in Reserves : SetReserve(n)) \/ \E m \in Modes : SwitchMode(m)
    BY <2>1, <2>6 DEF Kick, SetReserve, SwitchMode
  <2>7. CASE UNCHANGED vars
    BY <2>1, <2>7 DEF vars
  <2> QED BY <2>2, <2>3, <2>4, <2>5, <2>6, <2>7 DEF Next, ControlStep
<1> QED BY <1>2, <1>3, SlotAccountingHolds, PTL DEF Spec, SlotInv

-----------------------------------------------------------------------------
(* A dispatch against the calls, the pools and SlotPool. *)

\* The lanes against the calls: only parked calls are queued, every live one is,
\* and a cancellation is pending only on a call that awaits its future.
Booked ==
  /\ Placed(queues, rotation)
  /\ InQueues(queues) \subseteq {r \in Requests : status[r] = "parked"}
  /\ Live \subseteq InQueues(queues)
  /\ cancelled \subseteq Requests
  /\ \A r \in cancelled : status[r] \in {"parked", "granted"}

\* A live call waits only while its pool is full.
Packed ==
  \A r \in Live :
    \/ /\ r \in Queued(queues["main"])
       /\ NormalBusy(inflight, priorityInflight, reserve) >= maxConcurrent
    \/ /\ r \in Queued(queues["priority"])
       /\ reserve > 0 /\ priorityInflight >= reserve

\* SlotPool counts with its own copy of Cardinality.
LEMMA PoolCardinality == ASSUME NEW S PROVE Pool!Cardinality(S) = Cardinality(S)
BY DEF Cardinality, Pool!Cardinality

\* A dispatch from lanes and statuses in order leaves them in order, nobody
\* waiting for a slot that is free, and nobody entering a full pool.
LEMMA DispatchStep ==
  ASSUME LimiterAssumption, reserve \in Nat, reserve' = reserve,
         NEW qs, NEW rr, Placed(qs, rr),
         NEW st \in [Requests -> Statuses], NEW ln \in [Requests -> Lanes],
         NEW live, live = {r \in Requests : st[r] = "parked" /\ r \notin cancelled'},
         live \subseteq InQueues(qs), InQueues(qs) \subseteq {r \in Requests : st[r] = "parked"},
         cancelled' \subseteq Requests, \A r \in cancelled' : st[r] \in {"parked", "granted"},
         NEW n, n = Cardinality(Inside(st)), NEW p, p = Cardinality(InsideOf(st, ln)),
         NEW cap \in Int, cap = maxConcurrent',
         NEW run, Commit(Dispatched(qs, rr, live, n, p, cap), run, st, ln, n, p)
  PROVE  /\ Booked' /\ Packed'
         /\ Pool!Enter(live, InsideMain(st, ln), InsideOf(st, ln))
<1> DEFINE d == Dispatched(qs, rr, live, n, p, cap)
           g == d.main \cup d.priority
           gm == d.main
           gp == d.priority
           nm == Cardinality(gm)
           np == Cardinality(gp)
<1>1. n \in Nat /\ p \in Nat
  <2>1. IsFiniteSet(Inside(st)) /\ IsFiniteSet(InsideOf(st, ln))
    <3>1. Inside(st) \subseteq Requests /\ InsideOf(st, ln) \subseteq Requests
      BY DEF Inside, InsideOf
    <3> QED BY <3>1, FS_Subset DEF LimiterAssumption
  <2> QED BY <2>1, FS_CardinalityType
<1>2. Fits(d, qs, live, n, p, cap)
  BY <1>1, DispatchFits
<1>3. Commit(d, run, st, ln, n, p)
  OBVIOUS
<1> HIDE DEF d
<1>4. gm \subseteq live /\ gp \subseteq live /\ gm \cap gp = {} /\ g \subseteq live /\ g = gm \cup gp
  BY <1>2 DEF Fits
<1>5. /\ queues' = d.queues /\ rotation' = d.rotation
      /\ inflight' = n + nm + np /\ priorityInflight' = p + np
      /\ status' = [r \in Requests |->
           IF r \in g THEN IF r \in run THEN "holding" ELSE "granted" ELSE st[r]]
      /\ lane' = [r \in Requests |->
           IF r \in gp THEN "priority" ELSE IF r \in gm THEN "main" ELSE ln[r]]
  BY <1>3 DEF Commit
<1> HIDE DEF g, gm, gp
<1>6. /\ \A r \in g : r \in Requests /\ st[r] = "parked" /\ r \notin cancelled'
                       /\ status'[r] \in {"granted", "holding"}
      /\ \A r \in Requests \ g : status'[r] = st[r] /\ lane'[r] = ln[r]
  BY <1>4, <1>5
<1>7. Live' = live \ g
  BY <1>4, <1>6 DEF Live
<1>8. Booked'
  <2>1. Placed(queues', rotation')
    BY <1>2, <1>5 DEF Fits
  <2>2. InQueues(queues') \subseteq InQueues(qs) \ g /\ live \ g \subseteq InQueues(queues')
    BY <1>2, <1>5 DEF Fits, g
  <2>3. \A r \in cancelled' : status'[r] \in {"parked", "granted"}
    BY <1>6
  <2>4. InQueues(queues') \subseteq {r \in Requests : status'[r] = "parked"}
    BY <1>6, <2>2
  <2> QED BY <1>7, <2>1, <2>2, <2>3, <2>4 DEF Booked
<1>9. Packed'
  <2> SUFFICES ASSUME NEW r \in Live'
               PROVE  \/ /\ r \in Queued(queues'["main"])
                         /\ NormalBusy(inflight', priorityInflight', reserve') >= maxConcurrent'
                      \/ /\ r \in Queued(queues'["priority"])
                         /\ reserve' > 0 /\ priorityInflight' >= reserve'
    BY DEF Packed
  <2>1. r \in live /\ r \in InQueues(queues')
    BY <1>7, <1>8 DEF Booked
  <2>2. CASE r \in Queued(queues'["priority"])
    <3>1. reserve > 0 /\ p + np >= reserve
      BY <1>2, <1>5, <2>1, <2>2 DEF Fits, gp
    <3> QED BY <1>5, <2>2, <3>1
  <2>3. CASE r \in Queued(queues'["main"])
    <3>1. NormalBusy(n + nm + np, p + np, reserve) >= cap
      BY <1>2, <1>5, <2>1, <2>3 DEF Fits, gp, gm
    <3> QED BY <1>5, <2>3, <3>1
  <2> QED BY <2>1, <2>2, <2>3 DEF InQueues
<1>10. /\ HoldersOf("main")' = InsideMain(st, ln) \cup gm
       /\ HoldersOf("priority")' = InsideOf(st, ln) \cup gp
       /\ Holders' = Inside(st) \cup g
  <2>1. \A r \in Requests : r \in Holders' <=> r \in Inside(st) \/ r \in g
    BY <1>6 DEF Holders, Inside
  <2>2. \A r \in g : lane'[r] = IF r \in gp THEN "priority" ELSE "main"
    BY <1>4, <1>5, <1>6
  <2>3. \A r \in Inside(st) : r \notin g /\ r \in Requests
    BY <1>6 DEF Inside
  <2>4. Holders' \subseteq Requests /\ Inside(st) \subseteq Requests /\ g \subseteq Requests
    BY <1>6 DEF Holders, Inside
  <2>5. Holders' = Inside(st) \cup g
    BY <2>1, <2>4
  <2>6. HoldersOf("main")' = {r \in Holders' : lane'[r] = "main"}
        /\ HoldersOf("priority")' = {r \in Holders' : lane'[r] = "priority"}
    BY DEF HoldersOf
  <2> QED BY <1>4, <1>6, <2>2, <2>3, <2>4, <2>5, <2>6 DEF InsideMain, InsideOf
<1>11. IsFiniteSet(HoldersOf("main")') /\ IsFiniteSet(HoldersOf("priority")')
  <2>1. HoldersOf("main")' \subseteq Requests /\ HoldersOf("priority")' \subseteq Requests
    BY DEF Holders, HoldersOf
  <2> QED BY <2>1, FS_Subset DEF LimiterAssumption
<1>12. SlotAccounting'
  <2>1. live \subseteq {r \in Requests : st[r] = "parked"}
    OBVIOUS
  <2> QED BY <1>3, <1>4, <2>1, DispatchAccounts DEF gm, gp
<1>13. HoldersOf("main")' \cap HoldersOf("priority")' = {}
       /\ Holders' = HoldersOf("main")' \cup HoldersOf("priority")'
  <2>1. \A r \in Requests : lane'[r] \in Lanes
    BY <1>5 DEF Lanes
  <2> QED BY <2>1 DEF HoldersOf, Holders, Lanes
<1>14. Cardinality(HoldersOf("main")') + Cardinality(HoldersOf("priority")') = inflight'
  <2>1. Cardinality(HoldersOf("main")' \cap HoldersOf("priority")') = 0
    BY <1>13, FS_EmptySet
  <2>2. Cardinality(Holders') = Cardinality(HoldersOf("main")') + Cardinality(HoldersOf("priority")')
                                   - Cardinality(HoldersOf("main")' \cap HoldersOf("priority")')
    BY <1>11, <1>13, FS_Union
  <2>3. Cardinality(HoldersOf("main")') \in Nat /\ Cardinality(HoldersOf("priority")') \in Nat
    BY <1>11, FS_CardinalityType
  <2> QED BY <1>12, <2>1, <2>2, <2>3 DEF SlotAccounting
<1>15. gp # {} => Cardinality(HoldersOf("priority")') <= reserve
  BY <1>2, <1>5, <1>12 DEF Fits, SlotAccounting, gp
<1>16. gm # {} => Pool!Occupancy(HoldersOf("main")', HoldersOf("priority")', reserve) <= cap
  <2> SUFFICES ASSUME gm # {}
               PROVE  Pool!Occupancy(HoldersOf("main")', HoldersOf("priority")', reserve) <= cap
    OBVIOUS
  <2>1. NormalBusy(inflight', priorityInflight', reserve) <= cap
    BY <1>2, <1>5 DEF Fits, gm, gp
  <2>2. priorityInflight' = Cardinality(HoldersOf("priority")')
    BY <1>12 DEF SlotAccounting
  <2>3. Cardinality(HoldersOf("main")') \in Nat /\ Cardinality(HoldersOf("priority")') \in Nat
    BY <1>11, FS_CardinalityType
  <2> QED BY <1>14, <2>1, <2>2, <2>3, PoolCardinality
         DEF NormalBusy, Lesser, Pool!Occupancy
<1>17. Pool!Enter(live, InsideMain(st, ln), InsideOf(st, ln))
  <2>1. live \ Live' = g
    BY <1>4, <1>7
  <2>2. InsideMain(st, ln) \cap g = {} /\ InsideOf(st, ln) \cap g = {}
    BY <1>6 DEF InsideMain, InsideOf, Inside
  <2>3. /\ HoldersOf("main")' \ InsideMain(st, ln) = gm
        /\ HoldersOf("priority")' \ InsideOf(st, ln) = gp
        /\ HoldersOf("main")' # InsideMain(st, ln) => gm # {}
        /\ HoldersOf("priority")' # InsideOf(st, ln) => gp # {}
    BY <1>4, <1>10, <2>2
  <2>4. /\ InsideMain(st, ln) \subseteq HoldersOf("main")'
        /\ InsideOf(st, ln) \subseteq HoldersOf("priority")'
    BY <1>10
  <2>5. Live' \subseteq live
    BY <1>7
  <2>6. gp # {} => Pool!Cardinality(HoldersOf("priority")') <= reserve'
    BY <1>15, PoolCardinality
  <2>7. gm # {} => Pool!Occupancy(HoldersOf("main")', HoldersOf("priority")', reserve')
                     <= maxConcurrent'
    BY <1>16
  <2> QED BY <1>4, <1>13, <2>1, <2>3, <2>4, <2>5, <2>6, <2>7 DEF Pool!Enter
<1> QED BY <1>8, <1>9, <1>17

\* Without a queue nobody is ever parked.
QuietUnqueued == ~QueueEnabled => \A r \in Requests : status[r] # "parked"

\* The inductive invariant.
LimiterInv == SlotInv /\ Booked /\ QuietUnqueued

\* What every step does: it keeps the lanes in order, is a step of SlotPool or
\* none, and strands nobody.
GoodStep ==
  /\ Booked' /\ QuietUnqueued'
  /\ Pool!PoolNext \/ UNCHANGED Pool!poolVars

\* Lane l with one more call at the end of its client's queue.
Added(qs, rr, l, r) ==
  LET c == ClientOf[r]
  IN  [queues   |-> [qs EXCEPT ![l][c] = Append(@, r)],
       rotation |-> IF qs[l][c] = <<>> THEN [rr EXCEPT ![l] = Append(@, c)] ELSE rr]

\* A call parked behind those of its client leaves the lanes in order.
LEMMA AddingPlaces ==
  ASSUME LimiterAssumption, NEW qs, NEW rr, Placed(qs, rr), NEW r \in Requests,
         r \notin InQueues(qs), NEW l \in Lanes, NEW m, m = Added(qs, rr, l, r)
  PROVE  Placed(m.queues, m.rotation) /\ InQueues(m.queues) = InQueues(qs) \cup {r}
<1> DEFINE c == ClientOf[r]
           q2 == m.queues
           r2 == m.rotation
           q == qs[l]
           o == rr[l]
           qn == [q EXCEPT ![c] = Append(q[c], r)]
           on == IF q[c] = <<>> THEN Append(o, c) ELSE o
<1>1. /\ c \in Clients /\ qs \in [Lanes -> [Clients -> Seq(Requests)]]
      /\ rr \in [Lanes -> Seq(Clients)]
      /\ LaneOK(q, o) /\ r \notin Queued(q)
  BY DEF LimiterAssumption, Placed, InQueues, Lanes
<1>2. /\ q2 = [qs EXCEPT ![l] = qn] /\ r2 = [rr EXCEPT ![l] = on]
  BY <1>1 DEF Added
<1> HIDE DEF q2, r2
<1>c. c = ClientOf[r]
  OBVIOUS
<1> HIDE DEF c
<1> HIDE DEF q, o
<1>3. /\ q \in [Clients -> Seq(Requests)] /\ q[c] \in Seq(Requests) /\ o \in Seq(Clients)
      /\ Once(q[c]) /\ r \notin Elements(q[c])
  BY <1>1, <1>c DEF LaneOK, Queued
<1>4. /\ Append(q[c], r) \in Seq(Requests) /\ Once(Append(q[c], r))
      /\ Elements(Append(q[c], r)) = Elements(q[c]) \cup {r}
  BY <1>3, AppendKeeps
<1> DEFINE b == Append(q[c], r)
<1>5. b # <<>>
  <2>1. Elements(<<>>) = {}
    BY DEF Elements
  <2>2. r \in Elements(b)
    BY <1>4
  <2> HIDE DEF b
  <2> QED BY <2>1, <2>2
<1>6. /\ qn \in [Clients -> Seq(Requests)]
      /\ \A x \in Clients : Once(qn[x]) /\ \A y \in Elements(qn[x]) : ClientOf[y] = x
      /\ {x \in Clients : qn[x] # <<>>} = {x \in Clients : q[x] # <<>>} \cup {c}
  <2>1. /\ q \in [Clients -> Seq(Requests)] /\ c \in Clients /\ qn = [q EXCEPT ![c] = b]
        /\ b \in Seq(Requests) /\ Once(b) /\ Elements(b) = Elements(q[c]) \cup {r} /\ b # <<>>
        /\ \A x \in Clients : Once(q[x]) /\ \A y \in Elements(q[x]) : ClientOf[y] = x
    BY <1>1, <1>3, <1>4, <1>5 DEF LaneOK
  <2> HIDE DEF b, qn
  <2>2. qn \in [Clients -> Seq(Requests)] /\ qn[c] = b /\ \A x \in Clients \ {c} : qn[x] = q[x]
    BY <2>1
  <2> QED BY <1>c, <2>1, <2>2
<1>7. Queued(qn) = Queued(q) \cup {r}
  <2>1. \A x \in Requests : ClientOf[x] \in Clients
    BY DEF LimiterAssumption
  <2>2. \A x \in Requests : Elements(qn[ClientOf[x]])
           = IF ClientOf[x] = c THEN Elements(q[c]) \cup {r} ELSE Elements(q[ClientOf[x]])
    BY <1>1, <1>3, <1>4, <2>1
  <2> HIDE DEF qn
  <2> QED BY <1>c, <2>2 DEF Queued
<1>8. on \in Seq(Clients) /\ Once(on) /\ Elements(on) = {x \in Clients : q[x] # <<>>} \cup {c}
  <2>1. Once(o) /\ Elements(o) = {x \in Clients : q[x] # <<>>}
    BY <1>1 DEF LaneOK
  <2>2. CASE q[c] = <<>>
    <3>1. c \notin Elements(o)
      BY <2>1, <2>2
    <3>2. /\ Append(o, c) \in Seq(Clients) /\ Once(Append(o, c))
          /\ Elements(Append(o, c)) = Elements(o) \cup {c}
      BY <1>1, <1>3, <2>1, <3>1, AppendKeeps
    <3> QED BY <2>1, <2>2, <3>2
  <2>3. CASE q[c] # <<>>
    BY <1>1, <1>3, <2>1, <2>3
  <2> QED BY <2>2, <2>3
<1> HIDE DEF qn, on
<1>9. LaneOK(qn, on)
  BY <1>6, <1>8 DEF LaneOK
<1>10. /\ q2 \in [Lanes -> [Clients -> Seq(Requests)]] /\ r2 \in [Lanes -> Seq(Clients)]
       /\ q2[l] = qn /\ r2[l] = on
       /\ \A k \in Lanes \ {l} : q2[k] = qs[k] /\ r2[k] = rr[k]
  BY <1>1, <1>2, <1>6, <1>8
<1>11. CASE l = "main"
  <2>1. q2["main"] = qn /\ r2["main"] = on /\ q2["priority"] = qs["priority"] /\ r2["priority"] = rr["priority"]
    BY <1>10, <1>11 DEF Lanes
  <2>2. q = qs["main"]
    BY <1>11 DEF q
  <2>3. /\ LaneOK(qs["priority"], rr["priority"]) /\ r \notin Queued(qs["priority"])
        /\ Queued(qs["main"]) \cap Queued(qs["priority"]) = {}
    BY DEF Placed, InQueues
  <2>4. Queued(q2["main"]) \cap Queued(q2["priority"]) = {}
    BY <1>7, <2>1, <2>2, <2>3
  <2>5. LaneOK(q2["main"], r2["main"]) /\ LaneOK(q2["priority"], r2["priority"])
    BY <1>9, <2>1, <2>3
  <2>6. InQueues(q2) = InQueues(qs) \cup {r}
    BY <1>7, <2>1, <2>2 DEF InQueues
  <2>7. q2 \in [Lanes -> [Clients -> Seq(Requests)]] /\ r2 \in [Lanes -> Seq(Clients)]
    BY <1>10
  <2> QED BY <2>4, <2>5, <2>6, <2>7 DEF Placed, q2, r2
<1>12. CASE l = "priority"
  <2>1. q2["priority"] = qn /\ r2["priority"] = on /\ q2["main"] = qs["main"] /\ r2["main"] = rr["main"]
    BY <1>10, <1>12 DEF Lanes
  <2>2. q = qs["priority"]
    BY <1>12 DEF q
  <2>3. /\ LaneOK(qs["main"], rr["main"]) /\ r \notin Queued(qs["main"])
        /\ Queued(qs["main"]) \cap Queued(qs["priority"]) = {}
    BY DEF Placed, InQueues
  <2>4. Queued(q2["main"]) \cap Queued(q2["priority"]) = {}
    BY <1>7, <2>1, <2>2, <2>3
  <2>5. LaneOK(q2["main"], r2["main"]) /\ LaneOK(q2["priority"], r2["priority"])
    BY <1>9, <2>1, <2>3
  <2>6. InQueues(q2) = InQueues(qs) \cup {r}
    BY <1>7, <2>1, <2>2 DEF InQueues
  <2>7. q2 \in [Lanes -> [Clients -> Seq(Requests)]] /\ r2 \in [Lanes -> Seq(Clients)]
    BY <1>10
  <2> QED BY <2>4, <2>5, <2>6, <2>7 DEF Placed, q2, r2
<1> QED BY <1>11, <1>12 DEF Lanes, q2, r2

\* The lanes of m are in order and hold the calls of qs but r.
Without(m, qs, r) ==
  /\ Placed(m.queues, m.rotation)
  /\ \A l \in Lanes : Queued(m.queues[l]) = Queued(qs[l]) \ {r}

\* Removing a call takes that one out of both lanes and nothing else.
LEMMA RemovalPlaces ==
  ASSUME LimiterAssumption, NEW qs, NEW rr, Placed(qs, rr), NEW r \in Requests,
         NEW m, m = Removed(qs, rr, r)
  PROVE  Without(m, qs, r)
<1> DEFINE c == ClientOf[r]
           cut(l) == Keep(qs[l][c], Requests \ {r})
           q(l) == [qs[l] EXCEPT ![c] = cut(l)]
           o(l) == Keep(rr[l], {x \in Clients : q(l)[x] # <<>>})
<1>1. /\ m.queues = [l \in Lanes |-> q(l)]
      /\ m.rotation = [l \in Lanes |-> o(l)]
  BY DEF Removed
<1>2. /\ c \in Clients /\ qs \in [Lanes -> [Clients -> Seq(Requests)]]
      /\ rr \in [Lanes -> Seq(Clients)] /\ \A l \in Lanes : LaneOK(qs[l], rr[l])
  BY DEF LimiterAssumption, Placed, Lanes
<1> HIDE DEF c
<1>3. ASSUME NEW l \in Lanes
      PROVE  LaneOK(q(l), o(l)) /\ Queued(q(l)) = Queued(qs[l]) \ {r}
  <2> DEFINE a == qs[l]
             b == cut(l)
             n == q(l)
             w == o(l)
  <2>1. /\ a \in [Clients -> Seq(Requests)] /\ a[c] \in Seq(Requests) /\ Once(a[c])
        /\ rr[l] \in Seq(Clients) /\ Once(rr[l]) /\ Elements(rr[l]) = {x \in Clients : a[x] # <<>>}
        /\ \A x \in Clients : Once(a[x]) /\ \A y \in Elements(a[x]) : ClientOf[y] = x
    BY <1>2 DEF LaneOK
  <2>2. b = Keep(a[c], Requests \ {r}) /\ n = [a EXCEPT ![c] = b]
        /\ w = Keep(rr[l], {x \in Clients : n[x] # <<>>})
    OBVIOUS
  <2> HIDE DEF a, b, n, w
  <2>3. /\ b \in Seq(Requests) /\ Once(b) /\ Elements(b) = Elements(a[c]) \cap (Requests \ {r})
    BY <2>1, <2>2, KeepKeeps
  <2>4. Elements(a[c]) \subseteq Requests
    BY <2>1 DEF Elements
  <2>5. Elements(b) = Elements(a[c]) \ {r}
    BY <2>3, <2>4
  <2>6. b # <<>> => a[c] # <<>>
    <3>1. b # <<>> => \E x \in Requests : x \in Elements(b)
      <4> SUFFICES ASSUME b # <<>> PROVE b[1] \in Requests /\ 1 \in DOMAIN b
        BY DEF Elements
      <4> QED BY <2>3
    <3>2. a[c] = <<>> => Elements(a[c]) = {}
      BY DEF Elements
    <3> QED BY <2>5, <3>1, <3>2
  <2>7. /\ n \in [Clients -> Seq(Requests)]
        /\ \A x \in Clients : Once(n[x]) /\ \A y \in Elements(n[x]) : ClientOf[y] = x
        /\ {x \in Clients : n[x] # <<>>} \subseteq {x \in Clients : a[x] # <<>>}
    BY <1>2, <2>1, <2>2, <2>3, <2>5, <2>6
  <2>8. w \in Seq(Clients) /\ Once(w)
        /\ Elements(w) = Elements(rr[l]) \cap {x \in Clients : n[x] # <<>>}
    BY <2>1, <2>2, KeepKeeps
  <2>9. LaneOK(n, w)
    BY <2>1, <2>7, <2>8 DEF LaneOK
  <2>10. Queued(n) = Queued(a) \ {r}
    <3>1. \A x \in Requests : ClientOf[x] \in Clients
      BY DEF LimiterAssumption
    <3>2. \A x \in Requests : x \in Elements(n[ClientOf[x]])
             <=> x \in Elements(a[ClientOf[x]]) /\ x # r
      <4> SUFFICES ASSUME NEW x \in Requests
                   PROVE  x \in Elements(n[ClientOf[x]])
                            <=> x \in Elements(a[ClientOf[x]]) /\ x # r
        OBVIOUS
      <4>1. CASE ClientOf[x] = c
        BY <1>2, <2>1, <2>2, <2>5, <4>1
      <4>2. CASE ClientOf[x] # c
        <5>1. x # r
          BY <4>2 DEF c
        <5> QED BY <2>1, <2>2, <3>1, <4>2, <5>1
      <4> QED BY <4>1, <4>2
    <3> QED BY <3>2 DEF Queued
  <2> QED BY <2>9, <2>10 DEF n, w, a
<1> HIDE DEF q, o
<1>4. /\ m.queues["main"] = q("main") /\ m.queues["priority"] = q("priority")
      /\ m.rotation["main"] = o("main") /\ m.rotation["priority"] = o("priority")
  BY <1>1 DEF Lanes
<1>5. /\ "main" \in Lanes /\ "priority" \in Lanes
  BY DEF Lanes
<1>6. /\ m.queues \in [Lanes -> [Clients -> Seq(Requests)]] /\ m.rotation \in [Lanes -> Seq(Clients)]
  BY <1>1, <1>3 DEF LaneOK
<1>7. \A l \in Lanes : m.queues[l] = q(l)
  BY <1>1
<1>8. Queued(qs["main"]) \cap Queued(qs["priority"]) = {}
  BY DEF Placed
<1>9. Queued(m.queues["main"]) \cap Queued(m.queues["priority"]) = {}
  BY <1>3, <1>4, <1>5, <1>8
<1>10. LaneOK(m.queues["main"], m.rotation["main"])
       /\ LaneOK(m.queues["priority"], m.rotation["priority"])
  BY <1>3, <1>4, <1>5
<1> QED BY <1>3, <1>6, <1>7, <1>9, <1>10 DEF Placed, Without

-----------------------------------------------------------------------------
(* Every action. *)

\* The pools partition the holders, as SlotPool sees them.
LEMMA PoolsOfState ==
  ASSUME LimiterAssumption, LimiterInv
  PROVE  /\ status \in [Requests -> Statuses] /\ lane \in [Requests -> Lanes]
         /\ Inside(status) = Holders
         /\ InsideMain(status, lane) = HoldersOf("main")
         /\ InsideOf(status, lane) = HoldersOf("priority")
         /\ Holders = HoldersOf("main") \cup HoldersOf("priority")
         /\ HoldersOf("main") \cap HoldersOf("priority") = {}
         /\ inflight = Cardinality(Inside(status))
         /\ priorityInflight = Cardinality(InsideOf(status, lane))
         /\ \A r \in Live : r \in Requests /\ r \notin Holders /\ status[r] = "parked"
         /\ reserve \in Nat /\ maxConcurrent \in Nat \ {0}
<1>1. status \in [Requests -> Statuses] /\ lane \in [Requests -> Lanes]
  BY DEF LimiterInv, SlotInv, CountersOK, Statuses
<1>2. Inside(status) = Holders
  BY DEF Inside, Holders
<1>3. /\ InsideMain(status, lane) = HoldersOf("main")
      /\ InsideOf(status, lane) = HoldersOf("priority")
  BY <1>2 DEF InsideMain, InsideOf, HoldersOf
<1>4. /\ Holders = HoldersOf("main") \cup HoldersOf("priority")
      /\ HoldersOf("main") \cap HoldersOf("priority") = {}
  BY <1>1 DEF HoldersOf, Holders, Lanes
<1>5. /\ inflight = Cardinality(Inside(status))
      /\ priorityInflight = Cardinality(InsideOf(status, lane))
  BY <1>2, <1>3 DEF LimiterInv, SlotInv, SlotAccounting
<1>6. \A r \in Live : r \in Requests /\ r \notin Holders /\ status[r] = "parked"
  BY DEF Live, Holders
<1>7. reserve \in Nat /\ maxConcurrent \in Nat \ {0}
  BY DEF LimiterInv, SlotInv, CountersOK, LimiterAssumption
<1> QED BY <1>1, <1>2, <1>3, <1>4, <1>5, <1>6, <1>7

\* A call that finds no queue takes its slot and no one waits behind it.
LEMMA AcquireUnqueuedIsGood ==
  ASSUME LimiterAssumption, LimiterInv, NEW r \in Requests, NEW prio \in BOOLEAN,
         AcquireUnqueued(r, prio)
  PROVE  GoodStep /\ Packed'
<1> DEFINE l == EffectiveLane(prio)
<1>1. l \in Lanes
  BY DEF EffectiveLane, Lanes
<1> HIDE DEF l
<1>2. /\ ~QueueEnabled /\ status[r] = "idle"
      /\ status' = [status EXCEPT ![r] = "holding"] /\ lane' = [lane EXCEPT ![r] = l]
      /\ UNCHANGED <<cancelled, queues, rotation, maxConcurrent, hardMax, reserve, mode, kick>>
  BY DEF AcquireUnqueued, queueVars, capVars, knobVars, l
<1>3. status \in [Requests -> Statuses] /\ lane \in [Requests -> Lanes]
  BY PoolsOfState
<1>4. \A x \in Requests : status[x] # "parked" /\ status'[x] # "parked"
  BY <1>2, <1>3 DEF LimiterInv, QuietUnqueued
<1>5. Live = {} /\ Live' = {}
  BY <1>4 DEF Live
<1>6. Booked'
  <2>1. {x \in Requests : status'[x] = "parked"} = {x \in Requests : status[x] = "parked"}
    BY <1>4
  <2>2. \A x \in cancelled : status'[x] \in {"parked", "granted"}
    BY <1>2, <1>3 DEF LimiterInv, Booked
  <2> QED BY <1>2, <1>5, <2>1, <2>2 DEF LimiterInv, Booked
<1>7. QuietUnqueued'
  BY <1>4 DEF QuietUnqueued
<1>8. /\ HoldersOf("main")' = IF l = "main" THEN HoldersOf("main") \cup {r} ELSE HoldersOf("main")
      /\ HoldersOf("priority")'
           = IF l = "main" THEN HoldersOf("priority") ELSE HoldersOf("priority") \cup {r}
      /\ r \notin Holders
  BY <1>1, <1>2, <1>3 DEF HoldersOf, Holders, Lanes
<1>9. Pool!PoolNext
  <2>1. r \notin Live \cup HoldersOf("main") \cup HoldersOf("priority")
    BY <1>5, <1>8, PoolsOfState
  <2>2. QueueEnabled' = QueueEnabled /\ maxConcurrent' = maxConcurrent /\ reserve' = reserve
    BY <1>2 DEF QueueEnabled
  <2>3. Pool!Arrive(r)
    BY <1>2, <1>5, <1>8, <2>1, <2>2 DEF Pool!Arrive
  <2> QED BY <2>3 DEF Pool!PoolNext
<1> QED BY <1>5, <1>6, <1>7, <1>9 DEF GoodStep, Packed

\* A call parks behind the others of its client and the lanes are dispatched.
LEMMA AcquireIsGood ==
  ASSUME LimiterAssumption, LimiterInv, NEW r \in Requests, NEW prio \in BOOLEAN,
         Acquire(r, prio)
  PROVE  GoodStep /\ Packed'
<1> DEFINE l  == EffectiveLane(prio)
           c  == ClientOf[r]
           qs == [queues EXCEPT ![l][c] = Append(@, r)]
           rr == IF queues[l][c] = <<>> THEN [rotation EXCEPT ![l] = Append(@, c)] ELSE rotation
           st == [status EXCEPT ![r] = "parked"]
           W  == Live \cup {r}
<1>1. /\ QueueEnabled /\ status[r] = "idle"
      /\ Commit(Dispatched(qs, rr, W, inflight, priorityInflight, maxConcurrent), {r},
                st, lane, inflight, priorityInflight)
      /\ UNCHANGED <<cancelled, maxConcurrent, hardMax, reserve, mode, kick>>
  BY DEF Acquire, capVars, knobVars
<1>2. l \in Lanes
  BY DEF EffectiveLane, Lanes
<1>3. /\ status \in [Requests -> Statuses] /\ lane \in [Requests -> Lanes]
      /\ reserve \in Nat /\ maxConcurrent \in Nat
  BY PoolsOfState
<1>4. /\ Placed(queues, rotation) /\ InQueues(queues) \subseteq {x \in Requests : status[x] = "parked"}
      /\ Live \subseteq InQueues(queues) /\ cancelled \subseteq Requests
      /\ \A x \in cancelled : status[x] \in {"parked", "granted"}
  BY DEF LimiterInv, Booked
<1>5. Placed(qs, rr) /\ InQueues(qs) = InQueues(queues) \cup {r}
  <2>1. r \notin InQueues(queues)
    BY <1>1, <1>4
  <2> DEFINE m == Added(queues, rotation, l, r)
  <2>2. qs = m.queues /\ rr = m.rotation
    BY DEF Added
  <2> HIDE DEF l, qs, rr, m
  <2>3. m = Added(queues, rotation, l, r)
    BY DEF m
  <2> QED BY <1>2, <1>4, <2>1, <2>2, <2>3, AddingPlaces
<1> HIDE DEF qs, rr
<1>6. /\ st \in [Requests -> Statuses]
      /\ \A x \in Requests : st[x] = IF x = r THEN "parked" ELSE status[x]
  BY <1>3 DEF Statuses
<1> HIDE DEF st
<1>7. /\ W = {x \in Requests : st[x] = "parked" /\ x \notin cancelled'}
      /\ W \subseteq InQueues(qs) /\ InQueues(qs) \subseteq {x \in Requests : st[x] = "parked"}
      /\ \A x \in cancelled' : st[x] \in {"parked", "granted"}
  BY <1>1, <1>4, <1>5, <1>6 DEF Live
<1>8. /\ Inside(st) = Holders /\ InsideMain(st, lane) = HoldersOf("main")
      /\ InsideOf(st, lane) = HoldersOf("priority")
  BY <1>1, <1>6 DEF Inside, InsideMain, InsideOf, Holders, HoldersOf
<1>9. inflight = Cardinality(Inside(st)) /\ priorityInflight = Cardinality(InsideOf(st, lane))
  BY <1>8, PoolsOfState
<1> HIDE DEF W
<1>10. /\ Booked' /\ Packed'
       /\ Pool!Enter(W, InsideMain(st, lane), InsideOf(st, lane))
  BY <1>1, <1>3, <1>4, <1>5, <1>6, <1>7, <1>9, DispatchStep
<1>11. QuietUnqueued'
  BY <1>1 DEF QuietUnqueued, QueueEnabled
<1>12. Pool!PoolNext
  <2>1. r \notin Live \cup HoldersOf("main") \cup HoldersOf("priority")
    BY <1>1 DEF Live, Holders, HoldersOf
  <2>2. QueueEnabled' = QueueEnabled /\ maxConcurrent' = maxConcurrent /\ reserve' = reserve
    BY <1>1 DEF QueueEnabled
  <2>3. Pool!Enter(Live \cup {r}, HoldersOf("main"), HoldersOf("priority"))
    BY <1>8, <1>10 DEF W
  <2>4. Pool!Arrive(r)
    BY <1>1, <2>1, <2>2, <2>3 DEF Pool!Arrive
  <2> QED BY <2>4 DEF Pool!PoolNext
<1> QED BY <1>10, <1>11, <1>12 DEF GoodStep

\* A holder leaves and the lanes are dispatched.
LEMMA GiveBackIsGood ==
  ASSUME LimiterAssumption, LimiterInv, NEW r \in Holders, GiveBack(r),
         cancelled' = cancelled \ {r},
         UNCHANGED <<maxConcurrent, hardMax, reserve, mode, kick>>
  PROVE  GoodStep /\ Packed'
<1> DEFINE st == [status EXCEPT ![r] = "idle"]
           ln == [lane EXCEPT ![r] = "main"]
           n  == inflight - 1
           p  == priorityInflight - (IF lane[r] = "priority" THEN 1 ELSE 0)
<1>1. Commit(Dispatched(queues, rotation, Live, n, p, maxConcurrent), {}, st, ln, n, p)
  BY DEF GiveBack
<1>2. /\ Placed(queues, rotation) /\ InQueues(queues) \subseteq {x \in Requests : status[x] = "parked"}
      /\ Live \subseteq InQueues(queues) /\ cancelled \subseteq Requests
      /\ \A x \in cancelled : status[x] \in {"parked", "granted"}
  BY DEF LimiterInv, Booked
<1>3. r \in Requests /\ status[r] \in {"granted", "holding"} /\ SlotInv
  BY DEF Holders, LimiterInv
<1>4. \A x \in Requests : st[x] = IF x = r THEN "idle" ELSE status[x]
  BY DEF LimiterInv, SlotInv, CountersOK
<1>5. st = [status EXCEPT ![r] = "idle"] /\ ln = [lane EXCEPT ![r] = "main"]
  OBVIOUS
<1> HIDE DEF st, ln
<1>6. /\ st \in [Requests -> Statuses] /\ ln \in [Requests -> Lanes]
      /\ Live = {x \in Requests : st[x] = "parked" /\ x \notin cancelled}
      /\ Inside(st) = Holders \ {r}
      /\ InsideOf(st, ln) = HoldersOf("priority") \ {r}
      /\ InsideMain(st, ln) = HoldersOf("main") \ {r}
      /\ n = Cardinality(Inside(st)) /\ p = Cardinality(InsideOf(st, ln))
  <2>1. Returned(r, st, ln)
    BY <1>3, <1>5, GiveBackCounts
  <2> QED BY <2>1 DEF Returned
<1> HIDE DEF n, p
<1>7. /\ Live = {x \in Requests : st[x] = "parked" /\ x \notin cancelled'}
      /\ InQueues(queues) \subseteq {x \in Requests : st[x] = "parked"}
      /\ cancelled' \subseteq Requests
      /\ \A x \in cancelled' : st[x] \in {"parked", "granted"}
  BY <1>2, <1>3, <1>4, <1>6
<1>8. /\ reserve \in Nat /\ maxConcurrent \in Int
      /\ reserve' = reserve /\ maxConcurrent' = maxConcurrent
  BY PoolsOfState
<1>9. Booked' /\ Packed' /\ Pool!Enter(Live, InsideMain(st, ln), InsideOf(st, ln))
  BY <1>1, <1>2, <1>6, <1>7, <1>8, DispatchStep
<1>10. QuietUnqueued'
  <2>1. \A x \in Requests : status'[x] = "parked" => status[x] = "parked"
    BY <1>1, <1>4 DEF Commit
  <2> QED BY <2>1 DEF QuietUnqueued, QueueEnabled, LimiterInv
<1>11. Pool!PoolNext
  <2>1. r \in Live \cup HoldersOf("main") \cup HoldersOf("priority") /\ Live = Live \ {r}
    BY PoolsOfState
  <2>2. QueueEnabled' = QueueEnabled
    BY DEF QueueEnabled
  <2>3. Pool!Enter(Live \ {r}, HoldersOf("main") \ {r}, HoldersOf("priority") \ {r})
    BY <1>6, <1>9, <2>1
  <2>4. Pool!Depart(r)
    BY <2>1, <2>2, <2>3 DEF Pool!Depart
  <2> QED BY <1>3, <2>4 DEF Pool!PoolNext
<1> QED BY <1>9, <1>10, <1>11 DEF GoodStep

\* The cap never falls below the AIMD floor's resting place.
FloorHolds == maxConcurrent >= AimdFloor(hardMax)

\* Nobody is stranded, except between a reserve retune and its kick.
Awake == kick \/ Packed

\* A waking, a cancellation and the clean-up of a parked call move no slot.
LEMMA TaskMoveIsGood ==
  ASSUME LimiterAssumption, LimiterInv, NEW r \in Requests,
         Resume(r) \/ Cancel(r) \/ CleanUpParked(r)
  PROVE  GoodStep /\ (Packed => Packed')
<1> DEFINE Rest == UNCHANGED <<lane, inflight, priorityInflight, maxConcurrent, hardMax,
                               reserve, mode, kick>>
<1>1. /\ status \in [Requests -> Statuses] /\ lane \in [Requests -> Lanes]
      /\ Placed(queues, rotation) /\ InQueues(queues) \subseteq {x \in Requests : status[x] = "parked"}
      /\ Live \subseteq InQueues(queues) /\ cancelled \subseteq Requests
      /\ \A x \in cancelled : status[x] \in {"parked", "granted"}
  BY PoolsOfState DEF LimiterInv, Booked
<1>2. Rest
  BY DEF Resume, Cancel, CleanUpParked, queueVars, countVars, capVars, knobVars
<1>3. QueueEnabled' = QueueEnabled
  BY <1>2 DEF QueueEnabled
<1>4. CASE Resume(r)
  <2>1. /\ status' = [status EXCEPT ![r] = "holding"] /\ status[r] = "granted" /\ r \notin cancelled
        /\ UNCHANGED <<cancelled, queues, rotation>>
    BY <1>4 DEF Resume, queueVars
  <2>2. /\ {x \in Requests : status'[x] = "parked"} = {x \in Requests : status[x] = "parked"}
        /\ Holders' = Holders /\ \A x \in cancelled : status'[x] = status[x]
    BY <1>1, <2>1 DEF Holders
  <2>3. Live' = Live
    BY <2>1, <2>2 DEF Live
  <2>4. HoldersOf("main")' = HoldersOf("main") /\ HoldersOf("priority")' = HoldersOf("priority")
    BY <1>2, <2>2 DEF HoldersOf
  <2>5. Booked'
    BY <1>1, <2>1, <2>2, <2>3 DEF Booked
  <2>6. QuietUnqueued'
    BY <1>3, <2>2 DEF QuietUnqueued, LimiterInv
  <2>7. UNCHANGED Pool!poolVars
    BY <1>2, <1>3, <2>3, <2>4 DEF Pool!poolVars
  <2>8. Packed => Packed'
    BY <1>2, <2>1, <2>3 DEF Packed
  <2> QED BY <2>5, <2>6, <2>7, <2>8 DEF GoodStep
<1>5. CASE Cancel(r)
  <2>1. /\ status[r] \in {"parked", "granted"} /\ cancelled' = cancelled \cup {r}
        /\ UNCHANGED <<status, queues, rotation>>
    BY <1>5 DEF Cancel, queueVars
  <2>2. Live' = Live \ {r}
    BY <2>1 DEF Live
  <2>3. /\ HoldersOf("main")' = HoldersOf("main") /\ HoldersOf("priority")' = HoldersOf("priority")
        /\ HoldersOf("main") \cap HoldersOf("priority") = {}
    BY <1>2, <2>1, PoolsOfState DEF HoldersOf, Holders
  <2>4. Booked'
    BY <1>1, <2>1, <2>2 DEF Booked
  <2>5. QuietUnqueued'
    BY <1>3, <2>1 DEF QuietUnqueued, LimiterInv
  <2>6. Pool!PoolNext \/ UNCHANGED Pool!poolVars
    <3>1. CASE r \in Live
      <4>1. r \notin HoldersOf("main") /\ r \notin HoldersOf("priority")
        BY <3>1 DEF Live, Holders, HoldersOf
      <4>2. Pool!Enter(Live \ {r}, HoldersOf("main") \ {r}, HoldersOf("priority") \ {r})
        BY <2>2, <2>3, <4>1 DEF Pool!Enter
      <4>3. Pool!Depart(r)
        BY <1>2, <1>3, <3>1, <4>2 DEF Pool!Depart
      <4> QED BY <4>3 DEF Pool!PoolNext
    <3>2. CASE r \notin Live
      BY <1>2, <1>3, <2>2, <2>3, <3>2 DEF Pool!poolVars
    <3> QED BY <3>1, <3>2
  <2>7. Packed => Packed'
    BY <1>2, <2>1, <2>2 DEF Packed
  <2> QED BY <2>4, <2>5, <2>6, <2>7 DEF GoodStep
<1>6. CASE CleanUpParked(r)
  <2> DEFINE m == Removed(queues, rotation, r)
  <2>1. /\ status[r] = "parked" /\ r \in cancelled
        /\ queues' = m.queues /\ rotation' = m.rotation
        /\ status' = [status EXCEPT ![r] = "idle"] /\ cancelled' = cancelled \ {r}
    BY <1>6 DEF CleanUpParked
  <2>m. m = Removed(queues, rotation, r)
    OBVIOUS
  <2> HIDE DEF m
  <2>2. /\ Placed(m.queues, m.rotation)
        /\ \A l \in Lanes : Queued(m.queues[l]) = Queued(queues[l]) \ {r}
    <3>1. LimiterAssumption /\ r \in Requests /\ Placed(queues, rotation)
      BY <1>1
    <3>2. Without(m, queues, r)
      BY <2>m, <3>1, RemovalPlaces
    <3> QED BY <3>2 DEF Without
  <2>3. /\ Placed(queues', rotation')
        /\ Queued(queues'["main"]) = Queued(queues["main"]) \ {r}
        /\ Queued(queues'["priority"]) = Queued(queues["priority"]) \ {r}
    BY <2>1, <2>2 DEF Lanes
  <2>4. \A x \in Requests : status'[x] = IF x = r THEN "idle" ELSE status[x]
    BY <1>1, <2>1
  <2>5. Live' = Live /\ r \notin Live
    BY <2>1, <2>4 DEF Live
  <2>6. HoldersOf("main")' = HoldersOf("main") /\ HoldersOf("priority")' = HoldersOf("priority")
    BY <1>2, <2>1, <2>4 DEF HoldersOf, Holders
  <2>7. Booked'
    <3>1. InQueues(queues') = InQueues(queues) \ {r}
      BY <2>3 DEF InQueues
    <3>2. /\ InQueues(queues') \subseteq {x \in Requests : status'[x] = "parked"}
          /\ Live' \subseteq InQueues(queues') /\ cancelled' \subseteq Requests
          /\ \A x \in cancelled' : status'[x] \in {"parked", "granted"}
      BY <1>1, <2>1, <2>4, <2>5, <3>1
    <3> QED BY <2>3, <3>2 DEF Booked
  <2>8. QuietUnqueued'
    BY <1>3, <2>4 DEF QuietUnqueued, LimiterInv
  <2>9. UNCHANGED Pool!poolVars
    BY <1>2, <1>3, <2>5, <2>6 DEF Pool!poolVars
  <2>10. Packed => Packed'
    BY <1>2, <2>3, <2>5 DEF Packed
  <2> QED BY <2>7, <2>8, <2>9, <2>10 DEF GoodStep
<1> QED BY <1>4, <1>5, <1>6

\* Whatever a call does, nobody is stranded by it.
LEMMA RequestStepIsGood ==
  ASSUME LimiterAssumption, LimiterInv, NEW r \in Requests, RequestStep(r)
  PROVE  GoodStep /\ (Awake => Awake')
<1>1. kick' = kick
  BY DEF RequestStep, TaskStep, AcquireUnqueued, Acquire, Resume, Cancel, CleanUpParked,
         CleanUpGranted, Release, knobVars
<1>2. ASSUME NEW prio \in BOOLEAN, AcquireUnqueued(r, prio) \/ Acquire(r, prio)
      PROVE  GoodStep /\ Packed'
  BY <1>2, AcquireUnqueuedIsGood, AcquireIsGood
<1>3. CASE Resume(r) \/ Cancel(r) \/ CleanUpParked(r)
  BY <1>1, <1>3, TaskMoveIsGood DEF Awake
<1>4. CASE CleanUpGranted(r) \/ Release(r)
  <2>1. /\ r \in Holders /\ GiveBack(r)
        /\ UNCHANGED <<maxConcurrent, hardMax, reserve, mode, kick>>
    BY <1>4 DEF CleanUpGranted, Release, Holders, capVars, knobVars
  <2>2. cancelled' = cancelled \ {r}
    <3>1. CASE CleanUpGranted(r)
      BY <3>1 DEF CleanUpGranted
    <3>2. CASE Release(r)
      <4>1. status[r] = "holding" /\ cancelled' = cancelled
        BY <3>2 DEF Release
      <4>2. r \notin cancelled
        BY <4>1 DEF LimiterInv, Booked
      <4> QED BY <4>1, <4>2
    <3> QED BY <1>4, <3>1, <3>2
  <2> QED BY <2>1, <2>2, GiveBackIsGood DEF Awake
<1> QED BY <1>2, <1>3, <1>4 DEF RequestStep, TaskStep, Awake

\* The cap, the reserve or the mode changed, which to SlotPool is a retune.
LEMMA LimitsChange ==
  ASSUME LimiterAssumption, LimiterInv, SlotInv',
         Pool!Enter(Live, HoldersOf("main"), HoldersOf("priority"))
  PROVE  Pool!PoolNext
<1>1. maxConcurrent' \in Nat \ {0} /\ reserve' \in Nat /\ QueueEnabled' \in BOOLEAN
  BY DEF SlotInv, CountersOK, LimiterAssumption, QueueEnabled
<1>2. Pool!Retune
  BY <1>1 DEF Pool!Retune, Pool!Limits
<1> QED BY <1>2 DEF Pool!PoolNext

\* A change of the cap, or a kick, with the dispatch that goes with it.
LEMMA RedispatchIsGood ==
  ASSUME LimiterAssumption, LimiterInv, SlotInv', UNCHANGED <<cancelled, mode, reserve>>,
         \E d \in {Dispatched(queues, rotation, Live, inflight, priorityInflight,
                              maxConcurrent')} :
           Commit(d, {}, status, lane, inflight, priorityInflight)
  PROVE  GoodStep /\ Packed'
<1>1. /\ status \in [Requests -> Statuses] /\ lane \in [Requests -> Lanes] /\ reserve \in Nat
      /\ Placed(queues, rotation) /\ InQueues(queues) \subseteq {x \in Requests : status[x] = "parked"}
      /\ Live \subseteq InQueues(queues) /\ cancelled' \subseteq Requests
      /\ \A x \in cancelled' : status[x] \in {"parked", "granted"}
  BY PoolsOfState DEF LimiterInv, Booked
<1>2. maxConcurrent' \in Int
  BY DEF SlotInv, CountersOK
<1>3. Commit(Dispatched(queues, rotation, Live, inflight, priorityInflight, maxConcurrent'), {},
             status, lane, inflight, priorityInflight)
  OBVIOUS
<1>4. Live = {x \in Requests : status[x] = "parked" /\ x \notin cancelled'}
  BY DEF Live
<1>5. inflight = Cardinality(Inside(status)) /\ priorityInflight = Cardinality(InsideOf(status, lane))
  BY PoolsOfState
<1>6. /\ Booked' /\ Packed'
      /\ Pool!Enter(Live, InsideMain(status, lane), InsideOf(status, lane))
  BY <1>1, <1>2, <1>3, <1>4, <1>5, DispatchStep
<1>7. Pool!PoolNext
  <2>1. Pool!Enter(Live, HoldersOf("main"), HoldersOf("priority"))
    BY <1>6, PoolsOfState
  <2> QED BY <2>1, LimitsChange
<1>8. QuietUnqueued'
  <2>1. \A x \in Requests : status'[x] = "parked" => status[x] = "parked"
    BY <1>3 DEF Commit
  <2> QED BY <2>1 DEF QuietUnqueued, LimiterInv, QueueEnabled
<1> QED BY <1>6, <1>7, <1>8 DEF GoodStep

\* A change of the cap, the reserve or the mode alone, where no queue is given up.
LEMMA StillIsGood ==
  ASSUME LimiterAssumption, LimiterInv, SlotInv', UNCHANGED cancelled,
         QueueEnabled => QueueEnabled',
         UNCHANGED <<status, lane, queues, rotation, inflight, priorityInflight>>
  PROVE  GoodStep
<1>1. Live' = Live /\ HoldersOf("main")' = HoldersOf("main")
      /\ HoldersOf("priority")' = HoldersOf("priority")
      /\ HoldersOf("main") \cap HoldersOf("priority") = {}
  BY PoolsOfState DEF Live, HoldersOf, Holders
<1>2. Booked' /\ QuietUnqueued'
  BY <1>1 DEF Booked, QuietUnqueued, LimiterInv
<1>3. Pool!Enter(Live, HoldersOf("main"), HoldersOf("priority"))
  BY <1>1 DEF Pool!Enter
<1>4. Pool!PoolNext
  BY <1>3, LimitsChange
<1> QED BY <1>2, <1>4 DEF GoodStep

\* Pushback, growth, retunes, the kick and a promotion.  A pushback dispatches nobody,
\* so it must not raise the cap: above the AIMD floor it does not.
LEMMA ControlStepIsGood ==
  ASSUME LimiterAssumption, LimiterInv, SlotInv', ControlStep
  PROVE  GoodStep /\ (FloorHolds /\ Awake => Awake')
<1>0. CASE \E m \in Modes : SwitchMode(m)
  <2>1. /\ UNCHANGED <<status, lane, queues, rotation, inflight, priorityInflight>>
        /\ UNCHANGED <<cancelled, maxConcurrent, reserve, kick>>
    BY <1>0 DEF SwitchMode, slotVars, queueVars, countVars, capVars
  <2>2. QueueEnabled => QueueEnabled'
    BY <1>0 DEF SwitchMode, EffectiveAdmission, QueueEnabled
  <2>3. GoodStep
    BY <2>1, <2>2, StillIsGood
  <2>4. Live' = Live /\ NormalBusy(inflight, priorityInflight, reserve)'
                        = NormalBusy(inflight, priorityInflight, reserve)
    BY <2>1 DEF Live
  <2>5. Packed => Packed'
    BY <2>1, <2>4 DEF Packed
  <2> QED BY <2>1, <2>3, <2>5 DEF Awake
<1> SUFFICES ASSUME ~\E m \in Modes : SwitchMode(m)
             PROVE  GoodStep /\ (FloorHolds /\ Awake => Awake')
  BY <1>0
<1>1. UNCHANGED <<cancelled, mode>> /\ (QueueEnabled => QueueEnabled')
  <2>1. UNCHANGED <<cancelled, mode>>
    BY DEF ControlStep, Shrink, Grow, Kick, RetuneHardMax, RetuneLiveFloor, SetReserve,
           slotVars, knobVars
  <2> QED BY <2>1 DEF QueueEnabled
<1>2. ASSUME Redispatch, UNCHANGED reserve
      PROVE  GoodStep /\ Packed'
  <2>1. CASE QueueEnabled
    <3>1. \E d \in {Dispatched(queues, rotation, Live, inflight, priorityInflight, maxConcurrent')} :
            Commit(d, {}, status, lane, inflight, priorityInflight)
      BY <1>2, <2>1 DEF Redispatch
    <3> QED BY <1>1, <1>2, <3>1, RedispatchIsGood
  <2>2. CASE ~QueueEnabled
    <3>1. UNCHANGED <<status, lane, queues, rotation, inflight, priorityInflight>>
      BY <1>2, <2>2 DEF Redispatch, queueVars, countVars
    <3>2. GoodStep
      BY <1>1, <3>1, StillIsGood
    <3>3. Packed'
      BY <2>2, <3>1 DEF LimiterInv, QuietUnqueued, Packed, Live
    <3> QED BY <3>2, <3>3
  <2> QED BY <2>1, <2>2
<1>3. CASE Shrink
  <2>1. /\ UNCHANGED <<status, lane, queues, rotation, inflight, priorityInflight>>
        /\ UNCHANGED <<cancelled, reserve, kick>>
        /\ maxConcurrent' = Greater(AimdFloor(hardMax),
             Lesser((maxConcurrent * DecreasePct) \div 100, maxConcurrent - 1))
    BY <1>3 DEF Shrink, slotVars, queueVars, countVars, knobVars
  <2>2. GoodStep
    BY <1>1, <2>1, StillIsGood
  <2>3. ASSUME FloorHolds, Packed PROVE Packed'
    <3>1. /\ maxConcurrent \in Nat /\ maxConcurrent' \in Nat /\ hardMax \in Nat
          /\ (maxConcurrent * DecreasePct) \div 100 \in Int
      BY DEF LimiterInv, SlotInv, CountersOK, LimiterAssumption
    <3>2. maxConcurrent' <= maxConcurrent
      BY <2>1, <2>3, <3>1 DEF FloorHolds, Greater, Lesser, AimdFloor, LimiterAssumption
    <3>3. Live' = Live
      BY <2>1 DEF Live
    <3>4. NormalBusy(inflight, priorityInflight, reserve) \in Int
      BY DEF LimiterInv, SlotInv, CountersOK, NormalBusy, Lesser, LimiterAssumption
    <3>5. NormalBusy(inflight, priorityInflight, reserve)'
            = NormalBusy(inflight, priorityInflight, reserve)
      BY <2>1
    <3> QED BY <2>1, <2>3, <3>1, <3>2, <3>3, <3>4, <3>5 DEF Packed
  <2> QED BY <2>1, <2>2, <2>3 DEF Awake
<1>4. CASE Grow \/ \E h \in HardMaxes :
             RetuneHardMax(h) \/ \E floor \in LiveFloors : RetuneLiveFloor(h, floor)
  <2>1. Redispatch /\ UNCHANGED reserve
    BY <1>4 DEF Grow, RetuneHardMax, RetuneLiveFloor, knobVars
  <2> QED BY <1>2, <2>1 DEF Awake
<1>5. CASE \E n \in Reserves : SetReserve(n)
  <2>1. /\ UNCHANGED <<status, lane, queues, rotation, inflight, priorityInflight>> /\ kick'
    BY <1>5 DEF SetReserve, slotVars, queueVars, countVars
  <2> QED BY <1>1, <2>1, StillIsGood DEF Awake
<1>6. CASE Kick
  <2>1. /\ UNCHANGED <<reserve, maxConcurrent>>
        /\ \E d \in {Dispatched(queues, rotation, Live, inflight, priorityInflight, maxConcurrent')} :
             Commit(d, {}, status, lane, inflight, priorityInflight)
    BY <1>6 DEF Kick, capVars
  <2>2. GoodStep /\ Packed'
    BY <1>1, <2>1, RedispatchIsGood
  <2> QED BY <2>2 DEF Awake
<1> QED BY <1>3, <1>4, <1>5, <1>6 DEF ControlStep

-----------------------------------------------------------------------------
(* The theorems about the lanes. *)

\* Initially nobody is parked, so the lanes are in order and nobody is stranded.
LEMMA InitIsGood == ASSUME LimiterAssumption, Init PROVE LimiterInv /\ Packed
<1>1. SlotInv
  BY InitSlotInv
<1>2. Live = {} /\ \A r \in Requests : status[r] # "parked"
  BY DEF Init, Live
<1> DEFINE e == [c \in Clients |-> <<>>]
<1>3. /\ LaneOK(e, <<>>) /\ Queued(e) = {}
  BY EmptyLane
<1>4. /\ queues["main"] = e /\ queues["priority"] = e
      /\ rotation["main"] = <<>> /\ rotation["priority"] = <<>>
      /\ queues = [l \in Lanes |-> e] /\ rotation = [l \in Lanes |-> <<>>]
  BY DEF Init, Lanes
<1> HIDE DEF e
<1>5. Placed(queues, rotation) /\ InQueues(queues) = {}
  BY <1>3, <1>4 DEF Placed, InQueues, LaneOK
<1>6. Booked
  BY <1>2, <1>5 DEF Init, Booked
<1> QED BY <1>1, <1>2, <1>6 DEF LimiterInv, QuietUnqueued, Packed

\* Every step keeps the invariant and is good.
LEMMA StepIsGood ==
  ASSUME LimiterAssumption, LimiterInv, [Next]_vars
  PROVE  LimiterInv' /\ [Pool!PoolNext]_(Pool!poolVars) /\ (FloorHolds /\ Awake => Awake')
<1>1. CASE \E r \in Requests : RequestStep(r)
  <2>1. SlotInv'
    BY <1>1, RequestStepKeepsSlotInv DEF LimiterInv
  <2>2. GoodStep /\ (Awake => Awake')
    BY <1>1, RequestStepIsGood
  <2> QED BY <2>1, <2>2 DEF LimiterInv, GoodStep
<1>2. CASE ControlStep
  <2>1. SlotInv'
    BY <1>2, ControlStepKeepsSlotInv DEF LimiterInv
  <2>2. GoodStep /\ (FloorHolds /\ Awake => Awake')
    BY <1>2, <2>1, ControlStepIsGood
  <2> QED BY <2>1, <2>2 DEF LimiterInv, GoodStep
<1>3. CASE UNCHANGED vars
  <2>1. UNCHANGED <<status, lane, cancelled, queues, rotation, inflight, priorityInflight,
                    maxConcurrent, hardMax, reserve, mode, kick>>
    BY <1>3 DEF vars, slotVars, queueVars, countVars, capVars, knobVars
  <2>2. /\ Live' = Live /\ HoldersOf("main")' = HoldersOf("main") /\ Holders' = Holders
        /\ HoldersOf("priority")' = HoldersOf("priority") /\ QueueEnabled' = QueueEnabled
    BY <2>1 DEF Live, HoldersOf, Holders, QueueEnabled
  <2>3. SlotInv'
    BY <2>1, <2>2 DEF LimiterInv, SlotInv, CountersOK, SlotAccounting
  <2>4. Booked' /\ QuietUnqueued'
    BY <2>1, <2>2 DEF LimiterInv, Booked, QuietUnqueued
  <2>5. Awake => Awake'
    BY <2>1, <2>2 DEF Awake, Packed, NormalBusy
  <2>6. UNCHANGED Pool!poolVars
    BY <2>1, <2>2 DEF Pool!poolVars
  <2> QED BY <2>3, <2>4, <2>5, <2>6 DEF LimiterInv
<1> QED BY <1>1, <1>2, <1>3 DEF Next

\* Type correctness, in every mode and through every retune.
THEOREM LimiterTyped == Spec => []TypeOK
<1>1. LimiterAssumption
  BY LimiterAssumption
<1>2. Init => LimiterInv
  BY <1>1, InitIsGood
<1>3. LimiterInv /\ [Next]_vars => LimiterInv'
  BY <1>1, StepIsGood
<1>4. LimiterInv => TypeOK
  BY DEF LimiterInv, SlotInv, Booked, Placed, TypeOK
<1> QED BY <1>2, <1>3, <1>4, PTL DEF Spec

\* What the lanes in order mean for the waiters.
LEMMA PlacedLosesNobody == ASSUME LimiterAssumption, LimiterInv PROVE NoLostWaiter
<1>1. /\ Placed(queues, rotation) /\ InQueues(queues) \subseteq {r \in Requests : status[r] = "parked"}
      /\ Live \subseteq InQueues(queues)
  BY DEF LimiterInv, Booked
<1>2. \A l \in Lanes : LaneOK(queues[l], rotation[l])
  BY <1>1 DEF Placed, Lanes
<1>3. \A l \in Lanes, c \in Clients : Entries(l, c) = Elements(queues[l][c])
  BY DEF Entries, Elements
<1>4. \A r \in Live : ClientOf[r] \in Clients /\ r \in Requests
  BY DEF LimiterAssumption, Live
<1>5. \A r \in Live : \E l \in Lanes : r \in Entries(l, ClientOf[r])
  <2> SUFFICES ASSUME NEW r \in Live PROVE \E l \in Lanes : r \in Entries(l, ClientOf[r])
    OBVIOUS
  <2>1. r \in Queued(queues["main"]) \/ r \in Queued(queues["priority"])
    BY <1>1 DEF InQueues
  <2>2. \E l \in Lanes : r \in Queued(queues[l])
    BY <2>1 DEF Lanes
  <2> QED BY <1>3, <1>4, <2>2 DEF Queued
<1>6. ASSUME NEW l \in Lanes, NEW c \in Clients
      PROVE  /\ \A i, j \in DOMAIN queues[l][c] : queues[l][c][i] = queues[l][c][j] => i = j
             /\ \A r \in Entries(l, c) :
                  status[r] = "parked" /\ ClientOf[r] = c /\ \A m \in Lanes \ {l} : r \notin Entries(m, c)
             /\ Cardinality({n \in DOMAIN rotation[l] : rotation[l][n] = c})
                  = (IF queues[l][c] = <<>> THEN 0 ELSE 1)
  <2>1. /\ queues[l] \in [Clients -> Seq(Requests)] /\ rotation[l] \in Seq(Clients)
        /\ Once(queues[l][c]) /\ \A r \in Elements(queues[l][c]) : ClientOf[r] = c
        /\ Once(rotation[l]) /\ Elements(rotation[l]) = {x \in Clients : queues[l][x] # <<>>}
    BY <1>2 DEF LaneOK
  <2>2. \A i, j \in DOMAIN queues[l][c] : queues[l][c][i] = queues[l][c][j] => i = j
    BY <2>1 DEF Once
  <2>3. ASSUME NEW r \in Entries(l, c)
        PROVE  status[r] = "parked" /\ ClientOf[r] = c /\ \A m \in Lanes \ {l} : r \notin Entries(m, c)
    <3>1. r \in Elements(queues[l][c]) /\ ClientOf[r] = c /\ r \in Requests
      <4>1. r \in Elements(queues[l][c])
        BY <1>3
      <4>2. Elements(queues[l][c]) \subseteq Requests
        BY <2>1 DEF Elements
      <4> QED BY <2>1, <4>1, <4>2
    <3>2. r \in Queued(queues[l])
      BY <3>1 DEF Queued
    <3>3. status[r] = "parked"
      BY <1>1, <3>2 DEF InQueues, Lanes
    <3>4. ASSUME NEW m \in Lanes \ {l}, r \in Entries(m, c) PROVE FALSE
      <4>1. r \in Queued(queues[m])
        BY <1>3, <3>1, <3>4 DEF Queued
      <4>2. Queued(queues["main"]) \cap Queued(queues["priority"]) = {}
        BY <1>1 DEF Placed
      <4> QED BY <3>2, <4>1, <4>2 DEF Lanes
    <3> QED BY <3>1, <3>3, <3>4
  <2>4. Cardinality({n \in DOMAIN rotation[l] : rotation[l][n] = c})
          = (IF queues[l][c] = <<>> THEN 0 ELSE 1)
    <3> DEFINE P == {n \in DOMAIN rotation[l] : rotation[l][n] = c}
    <3>1. CASE queues[l][c] = <<>>
      <4>1. P = {}
        BY <2>1, <3>1 DEF Elements
      <4> QED BY <3>1, <4>1, FS_EmptySet
    <3>2. CASE queues[l][c] # <<>>
      <4>1. c \in Elements(rotation[l])
        BY <2>1, <3>2
      <4>2. PICK k \in DOMAIN rotation[l] : rotation[l][k] = c
        BY <4>1 DEF Elements
      <4>3. P = {k}
        BY <2>1, <4>2 DEF Once
      <4>4. Cardinality({k}) = 1
        BY FS_Singleton
      <4> QED BY <3>2, <4>3, <4>4
    <3> QED BY <3>1, <3>2
  <2> QED BY <2>2, <2>3, <2>4
<1> QED BY <1>5, <1>6 DEF NoLostWaiter

\* Whatever is cancelled, timed out, released or retuned while a call waits, it
\* stays exactly once in one queue of its own client, and that client exactly
\* once in the lane's rotation: the dispatcher can always reach it.
THEOREM NoLostWaiterHolds == Spec => []NoLostWaiter
<1>1. LimiterAssumption
  BY LimiterAssumption
<1>2. Init => LimiterInv
  BY <1>1, InitIsGood
<1>3. LimiterInv /\ [Next]_vars => LimiterInv'
  BY <1>1, StepIsGood
<1>4. LimiterInv => NoLostWaiter
  BY <1>1, PlacedLosesNobody
<1> QED BY <1>2, <1>3, <1>4, PTL DEF Spec

\* Every ceiling the operator gives is at least AIMD_MIN.  Below it the floor
\* rests at the ceiling; raising the ceiling again then leaves the cap under
\* the new floor, and the next pushback raises the cap without a dispatch.
FloorIsLow == \A h \in HardMaxes : AimdMin <= h

\* With such ceilings the cap never falls below the AIMD floor.
LEMMA FloorKept ==
  ASSUME LimiterAssumption, FloorIsLow
  PROVE  /\ Init => FloorHolds
         /\ LimiterInv /\ FloorHolds /\ [Next]_vars => FloorHolds'
<1>1. ASSUME Init PROVE FloorHolds
  BY <1>1 DEF Init, FloorHolds, FloorIsLow, InitialLiveCap, AimdFloor, Lesser, Greater, LimiterAssumption
<1>2. ASSUME LimiterInv, FloorHolds, [Next]_vars PROVE FloorHolds'
  <2>1. /\ maxConcurrent \in Nat /\ hardMax \in HardMaxes /\ hardMax \in Nat /\ AimdMin \in Nat
        /\ (maxConcurrent * DecreasePct) \div 100 \in Int
    BY <1>2 DEF LimiterInv, SlotInv, CountersOK, LimiterAssumption
  <2>2. \A h \in HardMaxes : h \in Nat /\ AimdFloor(h) = AimdMin
    BY DEF FloorIsLow, AimdFloor, Lesser, LimiterAssumption
  <2>3. maxConcurrent >= AimdMin
    BY <1>2, <2>1, <2>2 DEF FloorHolds
  <2>4. ASSUME UNCHANGED capVars PROVE FloorHolds'
    BY <1>2, <2>4 DEF FloorHolds, capVars
  <2>5. CASE \E r \in Requests : RequestStep(r)
    BY <2>4, <2>5 DEF RequestStep, TaskStep, AcquireUnqueued, Acquire, Resume, Cancel,
                      CleanUpParked, CleanUpGranted, Release
  <2>6. CASE Shrink
    BY <2>1, <2>2, <2>6 DEF Shrink, FloorHolds, Lesser, Greater
  <2>7. CASE Grow
    BY <2>1, <2>2, <2>3, <2>7 DEF Grow, FloorHolds
  <2>8. ASSUME NEW h \in HardMaxes,
               RetuneHardMax(h) \/ \E floor \in LiveFloors : RetuneLiveFloor(h, floor)
        PROVE  FloorHolds'
    <3>1. AimdMin <= h /\ h \in Nat
      BY <2>2 DEF FloorIsLow
    <3>2. hardMax' = h /\ maxConcurrent' >= AimdMin
      BY <2>1, <2>3, <2>8, <3>1
      DEF RetuneHardMax, RetuneLiveFloor, Lesser, Greater, LimiterAssumption
    <3> QED BY <2>2, <3>2 DEF FloorHolds
  <2>9. CASE Kick \/ (\E n \in Reserves : SetReserve(n)) \/ \E m \in Modes : SwitchMode(m)
    BY <2>4, <2>9 DEF Kick, SetReserve, SwitchMode
  <2>10. CASE UNCHANGED vars
    BY <2>4, <2>10 DEF vars
  <2> QED BY <1>2, <2>5, <2>6, <2>7, <2>8, <2>9, <2>10 DEF Next, ControlStep
<1> QED BY <1>1, <1>2

\* Nobody is forgotten: a waiter the dispatcher can reach is there only because
\* its pool is full, or because the kick of a reserve retune is still to run.
THEOREM WaitersAreReachableHolds ==
  ASSUME FloorIsLow
  PROVE  Spec => []WaitersAreReachable
<1> DEFINE IInv == LimiterInv /\ FloorHolds /\ Awake
<1>1. LimiterAssumption /\ FloorIsLow
  BY LimiterAssumption
<1>2. Init => IInv
  BY <1>1, InitIsGood, FloorKept DEF Awake
<1>3. IInv /\ [Next]_vars => IInv'
  BY <1>1, StepIsGood, FloorKept
<1>4. IInv => WaitersAreReachable
  <2> SUFFICES ASSUME LimiterInv, Awake PROVE WaitersAreReachable
    OBVIOUS
  <2>1. NoLostWaiter
    BY <1>1, PlacedLosesNobody
  <2>2. NoStrandedWaiter
    <3>1. ASSUME NEW r \in Requests, NEW l \in Lanes, r \in Queued(queues[l])
          PROVE  r \in Entries(l, ClientOf[r])
      BY <3>1 DEF Queued, Entries, Elements
    <3>2. "main" \in Lanes /\ "priority" \in Lanes /\ Live \subseteq Requests
      BY DEF Lanes, Live
    <3> QED BY <3>1, <3>2 DEF Awake, Packed, NoStrandedWaiter
  <2> QED BY <2>1, <2>2 DEF WaitersAreReachable
<1> HIDE DEF IInv
<1> QED BY <1>2, <1>3, <1>4, PTL DEF Spec

\* The queues, rotations, counters and cancellations of the limiter implement
\* SlotPool: whoever enters a pool finds it within the limits then in force,
\* a limit that falls throws nobody out, and nobody is in both pools.
THEOREM ImplementsPoolHolds == Spec => ImplementsPool
<1>1. LimiterAssumption
  BY LimiterAssumption
<1>2. Init => LimiterInv
  BY <1>1, InitIsGood
<1>3. LimiterInv /\ [Next]_vars => LimiterInv'
  BY <1>1, StepIsGood
<1>4. LimiterInv /\ [Next]_vars => [Pool!PoolNext]_(Pool!poolVars)
  BY <1>1, StepIsGood
<1>5. Init => Pool!PoolInit
  <2> SUFFICES ASSUME Init PROVE Pool!PoolInit
    OBVIOUS
  <2>1. Live = {} /\ HoldersOf("main") = {} /\ HoldersOf("priority") = {}
    BY DEF Init, Live, HoldersOf, Holders
  <2>2. maxConcurrent \in Nat \ {0} /\ reserve \in Nat
    BY <1>1, <1>2, PoolsOfState
  <2>3. QueueEnabled \in BOOLEAN
    BY DEF QueueEnabled
  <2> QED BY <2>1, <2>2, <2>3 DEF Pool!PoolInit, Pool!Limits
<1> QED BY <1>2, <1>3, <1>4, <1>5, PTL DEF Spec, ImplementsPool, Pool!PoolSpec

-----------------------------------------------------------------------------
(* Round-robin. *)

\* What grows twice has grown.
LEMMA LongerTwice ==
  ASSUME NEW q, NEW o, NEW j, NEW oj, NEW b, NEW ob,
         j \in [Clients -> Seq(Requests)], b \in [Clients -> Seq(Requests)],
         Longer(q, o, j, oj), Longer(j, oj, b, ob)
  PROVE  Longer(q, o, b, ob)
<1>1. ASSUME NEW c \in Clients
      PROVE  /\ q[c] \in Seq(Requests) /\ Len(q[c]) <= Len(b[c])
             /\ \A i \in 1..Len(q[c]) : q[c][i] = b[c][i]
             /\ q[c] # <<>> => j[c] # <<>>
  <2>1. /\ q[c] \in Seq(Requests) /\ Len(q[c]) <= Len(j[c])
        /\ \A i \in 1..Len(q[c]) : q[c][i] = j[c][i]
        /\ j[c] \in Seq(Requests) /\ Len(j[c]) <= Len(b[c])
        /\ \A i \in 1..Len(j[c]) : j[c][i] = b[c][i]
        /\ b[c] \in Seq(Requests)
    BY DEF Longer
  <2>2. Len(q[c]) \in Nat /\ Len(j[c]) \in Nat /\ Len(b[c]) \in Nat
    BY <2>1
  <2>3. \A i \in 1..Len(q[c]) : i \in 1..Len(j[c])
    BY <2>1, <2>2
  <2>4. q[c] # <<>> => j[c] # <<>>
    BY <2>1
  <2> QED BY <2>1, <2>2, <2>3, <2>4
<1>2. ASSUME NEW c \in Clients, NEW e \in Clients, q[c] # <<>>, q[e] # <<>>
      PROVE  Before(o, c, e) <=> Before(ob, c, e)
  BY <1>1, <1>2 DEF Longer
<1> QED BY <1>1, <1>2 DEF Longer

\* A lane left alone counts as grown.
LEMMA LongerSame ==
  ASSUME NEW q \in [Clients -> Seq(Requests)], NEW o
  PROVE  Longer(q, o, q, o)
BY DEF Longer

\* Closing the priority lane adds to the ends of the main one.
LEMMA MigrationLengthens ==
  ASSUME NEW qs, NEW rr, Placed(qs, rr), NEW m, m = Migrated(qs, rr)
  PROVE  Longer(qs["main"], rr["main"], m.queues["main"], m.rotation["main"])
<1> DEFINE q == qs["main"]
           p == qs["priority"]
           o == rr["main"]
           op == rr["priority"]
           new == Keep(op, {c \in Clients : q[c] = <<>>})
           j == m.queues["main"]
<1>1. /\ j = [c \in Clients |-> q[c] \o p[c]] /\ m.rotation["main"] = o \o new
      /\ LaneOK(q, o) /\ LaneOK(p, op)
  BY DEF Migrated, Placed
<1> HIDE DEF q, p, o, op, j
<1>2. ASSUME NEW c \in Clients
      PROVE  /\ q[c] \in Seq(Requests) /\ Len(q[c]) <= Len(j[c])
             /\ \A i \in 1..Len(q[c]) : q[c][i] = j[c][i]
  <2>1. q[c] \in Seq(Requests) /\ p[c] \in Seq(Requests) /\ j[c] = q[c] \o p[c]
    BY <1>1 DEF LaneOK
  <2> DEFINE s == q[c]
             t == p[c]
             w == j[c]
  <2>2. s \in Seq(Requests) /\ t \in Seq(Requests) /\ w = s \o t
    BY <2>1
  <2> HIDE DEF s, t, w
  <2>3. s \in Seq(Requests) /\ Len(s) <= Len(w) /\ \A i \in 1..Len(s) : s[i] = w[i]
    BY ONLY <2>2
  <2> QED BY <2>3 DEF s, w
<1>3. /\ o \in Seq(Clients) /\ new \in Seq(Clients)
      /\ Elements(new) \subseteq {c \in Clients : q[c] = <<>>}
  <2>1. o \in Seq(Clients) /\ op \in Seq(Clients)
    BY <1>1 DEF LaneOK
  <2> QED BY <2>1, KeepKeeps
<1> HIDE DEF new
<1>4. ASSUME NEW c \in Clients, NEW e \in Clients, q[c] # <<>>, q[e] # <<>>
      PROVE  Before(o, c, e) <=> Before(o \o new, c, e)
  <2>1. c \notin Elements(new) /\ e \notin Elements(new)
    BY <1>3, <1>4
  <2> QED BY <1>3, <2>1, ConcatBefore
<1>5. Longer(q, o, j, o \o new)
  BY <1>2, <1>4 DEF Longer
<1> QED BY <1>1, <1>5 DEF q, o, j

\* So does a call that parks, in either lane.
LEMMA AddingLengthens ==
  ASSUME LimiterAssumption, NEW qs, NEW rr, Placed(qs, rr), NEW r \in Requests,
         NEW l \in Lanes, NEW m, m = Added(qs, rr, l, r)
  PROVE  Longer(qs["main"], rr["main"], m.queues["main"], m.rotation["main"])
<1> DEFINE c == ClientOf[r]
           q == qs["main"]
           o == rr["main"]
           j == m.queues["main"]
           oj == m.rotation["main"]
<1>1. /\ c \in Clients /\ qs \in [Lanes -> [Clients -> Seq(Requests)]]
      /\ rr \in [Lanes -> Seq(Clients)] /\ "main" \in Lanes
      /\ q \in [Clients -> Seq(Requests)] /\ o \in Seq(Clients)
  BY DEF LimiterAssumption, Placed, Lanes
<1>2. CASE l # "main"
  <2>1. j = q /\ oj = o
    BY <1>1, <1>2 DEF Added
  <2> HIDE DEF j, oj, q, o
  <2>2. Longer(q, o, q, o)
    BY <1>1, LongerSame
  <2> QED BY <2>1, <2>2 DEF j, oj, q, o
<1>3. CASE l = "main"
  <2>1. j = [q EXCEPT ![c] = Append(q[c], r)] /\ oj = IF q[c] = <<>> THEN Append(o, c) ELSE o
    BY <1>1, <1>3 DEF Added
  <2> HIDE DEF j, oj, q, o, c
  <2>2. ASSUME NEW x \in Clients
        PROVE  /\ q[x] \in Seq(Requests) /\ Len(q[x]) <= Len(j[x])
               /\ \A i \in 1..Len(q[x]) : q[x][i] = j[x][i]
    <3>1. q[x] \in Seq(Requests) /\ q[c] \in Seq(Requests)
      BY <1>1
    <3>2. CASE x = c
      <4>1. j[x] = Append(q[x], r)
        BY <1>1, <2>1, <3>2
      <4> QED BY <3>1, <4>1
    <3>3. CASE x # c
      <4>1. j[x] = q[x]
        BY <1>1, <2>1, <3>3
      <4> QED BY <3>1, <4>1
    <3> QED BY <3>2, <3>3
  <2>3. ASSUME NEW x \in Clients, NEW e \in Clients, q[x] # <<>>, q[e] # <<>>
        PROVE  Before(o, x, e) <=> Before(oj, x, e)
    <3>1. CASE q[c] = <<>>
      <4>1. x # c /\ e # c
        BY <2>3, <3>1
      <4>0. o \in Seq(Clients) /\ c \in Clients
        BY <1>1
      <4>2. Append(o, c) = o \o <<c>> /\ <<c>> \in Seq(Clients)
        BY ONLY <4>0
      <4>3. x \notin Elements(<<c>>) /\ e \notin Elements(<<c>>)
        BY <4>1 DEF Elements
      <4> DEFINE w == <<c>>
      <4> HIDE DEF w
      <4>4. w \in Seq(Clients) /\ oj = o \o w /\ x \notin Elements(w) /\ e \notin Elements(w)
        BY <2>1, <3>1, <4>2, <4>3 DEF w
      <4> QED BY <1>1, <4>4, ConcatBefore
    <3>2. CASE q[c] # <<>>
      BY <2>1, <3>2
    <3> QED BY <3>1, <3>2
  <2>4. Longer(q, o, j, oj)
    BY <2>2, <2>3 DEF Longer
  <2> QED BY <2>4 DEF q, o, j, oj
<1> QED BY <1>2, <1>3

\* A dispatch of both lanes is round-robin in the main one, against the lanes of before
\* the step that dispatches.
LEMMA DispatchIsFair ==
  ASSUME LimiterAssumption, reserve \in Nat, NEW qs, NEW rr, Placed(qs, rr),
         NEW live, NEW n \in Int, NEW p \in Int, NEW cap \in Int,
         NEW d, d = Dispatched(qs, rr, live, n, p, cap),
         NEW q, NEW o, Longer(q, o, qs["main"], rr["main"])
  PROVE  Fair(q, o, d.queues["main"], d.rotation["main"], d.main)
<1> DEFINE m  == IF reserve = 0 THEN Migrated(qs, rr) ELSE [queues |-> qs, rotation |-> rr]
           qp == m.queues["priority"]
           op == m.rotation["priority"]
           qm == m.queues["main"]
           om == m.rotation["main"]
           gp == Granted(qp, op, live, reserve - p)
           rest == live \ gp
           k  == cap - NormalBusy(n + Cardinality(gp), p + Cardinality(gp), reserve)
           gm == Granted(qm, om, rest, k)
           am == LaneAfter(qm, om, rest, k)
<1>1. Placed(m.queues, m.rotation) /\ Longer(qs["main"], rr["main"], qm, om)
  <2>1. CASE reserve = 0
    <3> DEFINE w == Migrated(qs, rr)
    <3>1. Placed(w.queues, w.rotation)
          /\ Longer(qs["main"], rr["main"], w.queues["main"], w.rotation["main"])
      BY MigrationPlaces, MigrationLengthens
    <3>2. m = w
      BY <2>1
    <3> HIDE DEF m, w
    <3> QED BY <3>1, <3>2
  <2>2. CASE reserve # 0
    <3>1. m.queues = qs /\ m.rotation = rr
      BY <2>2
    <3>2. qs["main"] \in [Clients -> Seq(Requests)]
      BY DEF Placed, LaneOK
    <3>3. Longer(qs["main"], rr["main"], qs["main"], rr["main"])
      BY <3>2, LongerSame
    <3> HIDE DEF m
    <3> QED BY <3>1, <3>3
  <2> QED BY <2>1, <2>2
<1>2. d.main = gm /\ d.queues["main"] = am.queues /\ d.rotation["main"] = am.rotation
  BY DEF Dispatched, LaneAfter
<1> HIDE DEF m
<1>3. LaneOK(qm, om) /\ LaneOK(qp, op)
  BY <1>1 DEF Placed
<1> HIDE DEF qm, om, qp, op
<1>4. Cardinality(gp) \in Nat
  BY <1>3, LaneBounds
<1> HIDE DEF gp
<1>5. k \in Int
  BY <1>4 DEF NormalBusy, Lesser
<1>6. Longer(q, o, qm, om)
  <2>1. qs["main"] \in [Clients -> Seq(Requests)] /\ qm \in [Clients -> Seq(Requests)]
    BY <1>3 DEF Placed, LaneOK
  <2> QED BY <1>1, <2>1, LongerTwice
<1> HIDE DEF k, rest, gm, am
<1>7. Fair(q, o, am.queues, am.rotation, gm)
  <2>1. am = LaneAfter(qm, om, rest, k) /\ gm = Granted(qm, om, rest, k)
    BY DEF am, gm
  <2> QED BY <1>3, <1>5, <1>6, <2>1, LaneIsFair
<1> QED BY <1>2, <1>7

\* The calls that enter the main pool in a step, and RoundRobin of that step.
MainEntrants == {r \in Requests : r \notin Holders /\ r \in Holders' /\ lane'[r] = "main"}
FairStep == Fair(queues["main"], rotation["main"], queues'["main"], rotation'["main"], MainEntrants)

\* A dispatch with its effects is round-robin.
LEMMA CommitIsFair ==
  ASSUME LimiterAssumption, reserve \in Nat, NEW qs, NEW rr, Placed(qs, rr),
         Longer(queues["main"], rotation["main"], qs["main"], rr["main"]),
         NEW st, NEW ln, NEW run, \A r \in Requests : st[r] \in {"granted", "holding"} => r \in Holders,
         NEW live, live \subseteq InQueues(qs), live \cap Holders = {}, live \subseteq Requests,
         NEW n \in Int, NEW p \in Int, NEW cap \in Int,
         Commit(Dispatched(qs, rr, live, n, p, cap), run, st, ln, n, p)
  PROVE  FairStep
<1> DEFINE d == Dispatched(qs, rr, live, n, p, cap)
<1>1. Fair(queues["main"], rotation["main"], d.queues["main"], d.rotation["main"], d.main)
  BY DispatchIsFair
<1>2. Fits(d, qs, live, n, p, cap)
  BY DispatchFits
<1>3. Commit(d, run, st, ln, n, p)
  OBVIOUS
<1> HIDE DEF d
<1>4. d.main \subseteq live /\ d.priority \subseteq live /\ d.main \cap d.priority = {}
  BY <1>2 DEF Fits
<1>5. /\ queues' = d.queues /\ rotation' = d.rotation
      /\ \A r \in Requests : status'[r] = IF r \in d.main \cup d.priority
                                            THEN IF r \in run THEN "holding" ELSE "granted"
                                            ELSE st[r]
      /\ \A r \in Requests : lane'[r] = IF r \in d.priority THEN "priority"
                                        ELSE IF r \in d.main THEN "main" ELSE ln[r]
  BY <1>3 DEF Commit
<1>6. MainEntrants = d.main
  <2>1. ASSUME NEW r \in MainEntrants PROVE r \in d.main
    <3>1. r \in Requests /\ status'[r] \in {"granted", "holding"} /\ r \notin Holders /\ lane'[r] = "main"
      BY DEF MainEntrants, Holders
    <3>2. r \in d.main \cup d.priority
      BY <1>5, <3>1
    <3> QED BY <1>5, <3>1, <3>2
  <2>2. ASSUME NEW r \in d.main PROVE r \in MainEntrants
    <3>1. r \in Requests /\ r \notin Holders /\ r \notin d.priority
      BY <1>4
    <3>2. status'[r] \in {"granted", "holding"} /\ lane'[r] = "main"
      BY <1>5, <3>1
    <3> QED BY <3>1, <3>2 DEF MainEntrants, Holders
  <2> QED BY <2>1, <2>2
<1> QED BY <1>1, <1>5, <1>6 DEF FairStep

\* A step in which nobody enters the main pool keeps to round-robin when it leaves
\* the clients with work in their order.
LEMMA QuietIsFair ==
  ASSUME LimiterAssumption, queues["main"] \in [Clients -> Seq(Requests)], MainEntrants = {},
         \A c, e \in Clients :
           Stays(queues["main"], queues'["main"], c) /\ Stays(queues["main"], queues'["main"], e) =>
             (Before(rotation["main"], c, e) <=> Before(rotation'["main"], c, e))
  PROVE  FairStep
<1> DEFINE q == queues["main"]
           q2 == queues'["main"]
<1>1. ASSUME NEW c \in Clients, NEW e \in Clients
      PROVE  Ahead(q, q2, {}, c, e) <= 0 /\ Ahead(q, q2, {}, c, e) \in Int
  <2>1. q[c] \in Seq(Requests)
    OBVIOUS
  <2>2. Spent(q, q2, c) \subseteq Requests
    BY <2>1 DEF Spent, Elements
  <2>3. Cardinality(Spent(q, q2, c)) \in Nat
    BY <2>2, FS_Subset, FS_CardinalityType DEF LimiterAssumption
  <2>4. {r \in {} : ClientOf[r] = e} = {}
    OBVIOUS
  <2>5. Cardinality({r \in {} : ClientOf[r] = e}) = 0
    BY <2>4, FS_EmptySet
  <2> QED BY <2>3, <2>5 DEF Ahead
<1>2. Fair(q, rotation["main"], q2, rotation'["main"], {})
  <2> SUFFICES ASSUME NEW c \in Clients, NEW e \in Clients, c # e, Stays(q, q2, c)
               PROVE  /\ Ahead(q, q2, {}, c, e) <= 1
                      /\ Ahead(q, q2, {}, c, e) = 1 => Before(rotation'["main"], c, e)
                      /\ Stays(q, q2, e) /\ Spent(q, q2, c) \cup Spent(q, q2, e) = {} =>
                           (Before(rotation["main"], c, e) <=> Before(rotation'["main"], c, e))
    BY DEF Fair
  <2>1. Ahead(q, q2, {}, c, e) <= 0 /\ Ahead(q, q2, {}, c, e) \in Int
    BY <1>1
  <2> QED BY <2>1
<1> QED BY <1>2 DEF FairStep

\* What the two lemmas above ask of the state.
LEMMA StateIsReady ==
  ASSUME LimiterAssumption, LimiterInv
  PROVE  /\ Placed(queues, rotation) /\ queues["main"] \in [Clients -> Seq(Requests)]
         /\ Longer(queues["main"], rotation["main"], queues["main"], rotation["main"])
         /\ Live \subseteq InQueues(queues) /\ Live \cap Holders = {} /\ Live \subseteq Requests
         /\ reserve \in Nat /\ maxConcurrent \in Int /\ inflight \in Int /\ priorityInflight \in Int
<1>1. Placed(queues, rotation) /\ Live \subseteq InQueues(queues)
  BY DEF LimiterInv, Booked
<1>2. queues["main"] \in [Clients -> Seq(Requests)]
  BY <1>1 DEF Placed, LaneOK
<1>3. Longer(queues["main"], rotation["main"], queues["main"], rotation["main"])
  BY <1>2, LongerSame
<1>4. Live \cap Holders = {} /\ Live \subseteq Requests
  BY DEF Live, Holders
<1>5. reserve \in Nat /\ maxConcurrent \in Int /\ inflight \in Int /\ priorityInflight \in Int
  BY DEF LimiterInv, SlotInv, CountersOK, LimiterAssumption
<1> QED BY <1>1, <1>2, <1>3, <1>4, <1>5

\* Whatever a call does is round-robin.
LEMMA RequestStepIsFair ==
  ASSUME LimiterAssumption, LimiterInv, NEW r \in Requests, RequestStep(r)
  PROVE  FairStep
<1>1. ASSUME NEW prio \in BOOLEAN, AcquireUnqueued(r, prio) PROVE FairStep
  <2>1. queues' = queues /\ \A x \in Requests : status[x] # "parked"
    BY <1>1 DEF AcquireUnqueued, queueVars, LimiterInv, QuietUnqueued
  <2>2. InQueues(queues) = {}
    BY <2>1 DEF LimiterInv, Booked
  <2>3. ASSUME NEW c \in Clients PROVE ~Stays(queues["main"], queues'["main"], c)
    <3>1. LaneOK(queues["main"], rotation["main"])
      BY StateIsReady DEF Placed
    <3>2. \A x \in Elements(queues["main"][c]) : x \in Requests /\ ClientOf[x] = c
      BY <3>1 DEF LaneOK, Elements
    <3>3. Elements(queues["main"][c]) = {}
      BY <2>2, <3>2 DEF InQueues, Queued
    <3> QED BY <3>3 DEF Stays
  <2> QED BY <2>3 DEF FairStep, Fair
<1>2. ASSUME NEW prio \in BOOLEAN, Acquire(r, prio) PROVE FairStep
  <2> DEFINE l  == EffectiveLane(prio)
             c  == ClientOf[r]
             qs == [queues EXCEPT ![l][c] = Append(@, r)]
             rr == IF queues[l][c] = <<>> THEN [rotation EXCEPT ![l] = Append(@, c)] ELSE rotation
             st == [status EXCEPT ![r] = "parked"]
             m == Added(queues, rotation, l, r)
  <2>1. /\ status[r] = "idle"
        /\ Commit(Dispatched(qs, rr, Live \cup {r}, inflight, priorityInflight, maxConcurrent), {r},
                  st, lane, inflight, priorityInflight)
    BY <1>2 DEF Acquire
  <2>2. l \in Lanes
    BY DEF EffectiveLane, Lanes
  <2>3. r \notin InQueues(queues) /\ r \notin Holders
    BY <2>1 DEF LimiterInv, Booked, Holders
  <2>4. \A x \in Requests : st[x] \in {"granted", "holding"} => x \in Holders
    <3>1. status \in [Requests -> Statuses]
      BY PoolsOfState
    <3> QED BY <3>1 DEF Holders
  <2>5. qs = m.queues /\ rr = m.rotation
    BY DEF Added
  <2>6. m = Added(queues, rotation, l, r)
    OBVIOUS
  <2> HIDE DEF l, c, qs, rr, st, m
  <2>7. Placed(qs, rr) /\ InQueues(qs) = InQueues(queues) \cup {r}
    BY <2>2, <2>3, <2>5, <2>6, AddingPlaces, StateIsReady
  <2>8. Longer(queues["main"], rotation["main"], qs["main"], rr["main"])
    BY <2>2, <2>5, <2>6, AddingLengthens, StateIsReady
  <2> DEFINE W == Live \cup {r}
  <2>9. W \subseteq InQueues(qs) /\ W \cap Holders = {} /\ W \subseteq Requests
    BY <2>3, <2>7, StateIsReady
  <2>10. Commit(Dispatched(qs, rr, W, inflight, priorityInflight, maxConcurrent), {r},
                st, lane, inflight, priorityInflight)
    BY <2>1
  <2> HIDE DEF W
  <2> QED BY <2>4, <2>7, <2>8, <2>9, <2>10, StateIsReady, CommitIsFair
<1>3. CASE Resume(r) \/ Cancel(r)
  <2>1. queues' = queues /\ rotation' = rotation
    BY <1>3 DEF Resume, Cancel, queueVars
  <2>2. status \in [Requests -> Statuses]
    BY PoolsOfState
  <2>3. MainEntrants = {}
    BY <1>3, <2>2 DEF Resume, Cancel, MainEntrants, Holders
  <2> QED BY <2>1, <2>3, StateIsReady, QuietIsFair
<1>4. CASE CleanUpParked(r)
  <2> DEFINE m == Removed(queues, rotation, r)
             q == queues["main"]
             q2 == queues'["main"]
  <2>1. /\ rotation' = m.rotation /\ queues' = m.queues
        /\ status' = [status EXCEPT ![r] = "idle"] /\ status \in [Requests -> Statuses]
    BY <1>4, PoolsOfState DEF CleanUpParked
  <2>2. MainEntrants = {}
    BY <2>1 DEF MainEntrants, Holders
  <2>3. rotation'["main"] = Keep(rotation["main"], {x \in Clients : q2[x] # <<>>})
    BY <2>1 DEF Removed, Lanes
  <2>4. rotation["main"] \in Seq(Clients)
    BY StateIsReady DEF Placed, LaneOK
  <2>5. \A c \in Clients : Stays(q, q2, c) => q2[c] # <<>>
    BY DEF Stays, Elements
  <2> HIDE DEF q, q2, m
  <2>6. \A c, e \in Clients : Stays(q, q2, c) /\ Stays(q, q2, e) =>
          (Before(rotation["main"], c, e) <=> Before(rotation'["main"], c, e))
    <3> DEFINE S == {x \in Clients : q2[x] # <<>>}
               o == rotation["main"]
    <3>1. o \in Seq(Clients) /\ rotation'["main"] = Keep(o, S)
      BY <2>3, <2>4
    <3>2. \A c \in Clients : Stays(q, q2, c) => c \in S
      BY <2>5
    <3> HIDE DEF S, o
    <3>3. \A c, e \in S : Before(Keep(o, S), c, e) <=> Before(o, c, e)
      BY <3>1, KeepKeeps
    <3>4. \A c, e \in Clients : Stays(q, q2, c) /\ Stays(q, q2, e) =>
            (Before(o, c, e) <=> Before(rotation'["main"], c, e))
      BY <3>1, <3>2, <3>3
    <3> QED BY <3>4 DEF o
  <2> QED BY <2>2, <2>6, StateIsReady, QuietIsFair DEF q, q2
<1>5. CASE CleanUpGranted(r) \/ Release(r)
  <2> DEFINE n == inflight - 1
             p == priorityInflight - (IF lane[r] = "priority" THEN 1 ELSE 0)
             st == [status EXCEPT ![r] = "idle"]
             ln == [lane EXCEPT ![r] = "main"]
  <2>1. Commit(Dispatched(queues, rotation, Live, n, p, maxConcurrent), {}, st, ln, n, p)
    BY <1>5 DEF CleanUpGranted, Release, GiveBack
  <2>2. \A x \in Requests : st[x] \in {"granted", "holding"} => x \in Holders
    <3>1. status \in [Requests -> Statuses]
      BY PoolsOfState
    <3> QED BY <3>1 DEF Holders
  <2>3. n \in Int /\ p \in Int
    BY StateIsReady
  <2> HIDE DEF n, p, st, ln
  <2> QED BY <2>1, <2>2, <2>3, StateIsReady, CommitIsFair
<1> QED BY <1>1, <1>2, <1>3, <1>4, <1>5 DEF RequestStep, TaskStep

\* So is whatever AIMD and the operator do.
LEMMA ControlStepIsFair ==
  ASSUME LimiterAssumption, LimiterInv, SlotInv', ControlStep
  PROVE  FairStep
<1>1. ASSUME NEW cap \in Int,
             Commit(Dispatched(queues, rotation, Live, inflight, priorityInflight, cap), {},
                    status, lane, inflight, priorityInflight)
      PROVE  FairStep
  <2>1. \A x \in Requests : status[x] \in {"granted", "holding"} => x \in Holders
    BY DEF Holders
  <2> QED BY <1>1, <2>1, StateIsReady, CommitIsFair
<1>2. ASSUME UNCHANGED <<status, queues, rotation>> PROVE FairStep
  <2>1. MainEntrants = {}
    BY <1>2 DEF MainEntrants, Holders
  <2> QED BY <1>2, <2>1, StateIsReady, QuietIsFair
<1>3. maxConcurrent' \in Int
  BY DEF SlotInv, CountersOK
<1>4. CASE Shrink \/ (\E n \in Reserves : SetReserve(n)) \/ \E m \in Modes : SwitchMode(m)
  BY <1>2, <1>4 DEF Shrink, SetReserve, SwitchMode, slotVars, queueVars
<1>5. CASE Kick
  BY <1>1, <1>5, StateIsReady DEF Kick
<1>6. CASE Redispatch
  BY <1>1, <1>2, <1>3, <1>6 DEF Redispatch, queueVars
<1> QED BY <1>4, <1>5, <1>6 DEF ControlStep, Grow, RetuneHardMax, RetuneLiveFloor

\* RoundRobin of FairLimiter: between clients that wait the main lane takes turns, through
\* dispatches, arrivals, cancellations and a lane that is closed under parked calls.
THEOREM RoundRobinHolds == Spec => RoundRobin
<1>1. LimiterAssumption
  BY LimiterAssumption
<1>2. Init => LimiterInv
  BY <1>1, InitIsGood
<1>3. LimiterInv /\ [Next]_vars => LimiterInv'
  BY <1>1, StepIsGood
<1> DEFINE Rounds == \A c, d \in Clients : c # d /\ KeepsWaiting(c) =>
       LET ahead == Cardinality(EntersMain(d)) - Cardinality(TurnsUsed(c))
       IN  /\ EntersMain(d) # {} => ahead <= 1
           /\ EntersMain(d) # {} /\ ahead = 1 => Before(rotation'["main"], c, d)
           /\ KeepsWaiting(d) /\ TurnsUsed(c) \cup TurnsUsed(d) = {} =>
                (Before(rotation["main"], c, d) <=> Before(rotation'["main"], c, d))
<1>4. LimiterInv /\ [Next]_vars => [Rounds]_vars
  <2> SUFFICES ASSUME LimiterInv, Next PROVE Rounds
    OBVIOUS
  <2>1. FairStep
    <3>1. LimiterInv'
      BY <1>3
    <3> QED BY <1>1, <3>1, RequestStepIsFair, ControlStepIsFair DEF Next, LimiterInv
  <2> DEFINE q == queues["main"]
             q2 == queues'["main"]
  <2>2. ASSUME NEW c \in Clients
        PROVE  /\ TurnsUsed(c) = Spent(q, q2, c)
               /\ KeepsWaiting(c) => Stays(q, q2, c)
               /\ EntersMain(c) = {r \in MainEntrants : ClientOf[r] = c}
    <3>1. Entries("main", c) = Elements(q[c]) /\ Entries("main", c)' = Elements(q2[c])
      BY DEF Entries, Elements
    <3>2. TurnsUsed(c) = Spent(q, q2, c) /\ (KeepsWaiting(c) => Stays(q, q2, c))
      BY <3>1 DEF TurnsUsed, Spent, KeepsWaiting, Stays
    <3>3. EntersMain(c) = {r \in MainEntrants : ClientOf[r] = c}
      BY DEF EntersMain, MainEntrants
    <3> QED BY <3>2, <3>3
  <2> SUFFICES ASSUME NEW c \in Clients, NEW d \in Clients, c # d, KeepsWaiting(c)
               PROVE  LET ahead == Cardinality(EntersMain(d)) - Cardinality(TurnsUsed(c))
                      IN  /\ EntersMain(d) # {} => ahead <= 1
                          /\ EntersMain(d) # {} /\ ahead = 1 => Before(rotation'["main"], c, d)
                          /\ KeepsWaiting(d) /\ TurnsUsed(c) \cup TurnsUsed(d) = {} =>
                               (Before(rotation["main"], c, d) <=> Before(rotation'["main"], c, d))
    OBVIOUS
  <2>3. /\ Stays(q, q2, c) /\ (KeepsWaiting(d) => Stays(q, q2, d))
        /\ TurnsUsed(c) = Spent(q, q2, c) /\ TurnsUsed(d) = Spent(q, q2, d)
        /\ Cardinality(EntersMain(d)) - Cardinality(TurnsUsed(c)) = Ahead(q, q2, MainEntrants, c, d)
    BY <2>2 DEF Ahead
  <2>4. /\ Ahead(q, q2, MainEntrants, c, d) <= 1
        /\ Ahead(q, q2, MainEntrants, c, d) = 1 => Before(rotation'["main"], c, d)
        /\ Stays(q, q2, d) /\ Spent(q, q2, c) \cup Spent(q, q2, d) = {} =>
             (Before(rotation["main"], c, d) <=> Before(rotation'["main"], c, d))
    BY <2>1, <2>3 DEF FairStep, Fair
  <2> HIDE DEF q, q2
  <2> QED BY <2>3, <2>4
<1> QED BY <1>2, <1>3, <1>4, PTL DEF Spec, RoundRobin
-----------------------------------------------------------------------------
(* The dispatcher as a loop (DispatchLoop). *)

\* A set of numbers has a least.
LEMMA LeastNatural ==
  ASSUME NEW T, T \subseteq Nat, T # {}
  PROVE  \E x \in T : \A y \in T : x <= y
<1> DEFINE R == {p \in Nat \X Nat : p[1] < p[2]}
<1>1. IsWellFoundedOn(R, Nat)
  BY NatLessThanWellFounded, Zenon DEF OpToRel
<1>2. PICK x \in T : \A y \in T : ~(<<y, x>> \in R)
  <2> HIDE DEF R
  <2> QED BY <1>1, WFMin
<1>3. ASSUME NEW y \in T PROVE x <= y
  <2>1. x \in Nat /\ y \in Nat /\ ~(<<y, x>> \in R)
    BY <1>2
  <2> QED BY <2>1
<1> QED BY <1>3

\* Two lists of the same members, once each, in the same order are one list.
LEMMA SameList ==
  ASSUME NEW T, NEW s \in Seq(T), NEW t \in Seq(T), Once(s), Once(t), Elements(s) = Elements(t),
         \A c, e \in Elements(s) : Before(t, c, e) => Before(s, c, e)
  PROVE  s = t
<1>1. /\ DOMAIN s = 1..Len(s) /\ Len(s) \in Nat /\ DOMAIN t = 1..Len(t) /\ Len(t) \in Nat
      /\ \A i \in DOMAIN s : s[i] \in Elements(s)
      /\ \A i \in DOMAIN t : t[i] \in Elements(s)
      /\ \A i, j \in DOMAIN s : s[i] = s[j] => i = j
      /\ \A i, j \in DOMAIN t : t[i] = t[j] => i = j
  <2>1. DOMAIN s = 1..Len(s) /\ Len(s) \in Nat /\ DOMAIN t = 1..Len(t) /\ Len(t) \in Nat
    OBVIOUS
  <2>2. \A i \in DOMAIN s : s[i] \in Elements(s)
    BY DEF Elements
  <2>3. \A i \in DOMAIN t : t[i] \in Elements(t)
    BY DEF Elements
  <2> QED BY <2>1, <2>2, <2>3 DEF Once
<1> DEFINE Differ == {i \in Nat : (i \in DOMAIN s \/ i \in DOMAIN t)
                                  /\ ~(i \in DOMAIN s /\ i \in DOMAIN t /\ s[i] = t[i])}
<1>2. Differ = {}
  <2> SUFFICES ASSUME Differ # {} PROVE FALSE
    OBVIOUS
  <2>1. PICK i \in Differ : \A j \in Differ : i <= j
    <3> HIDE DEF Differ
    <3>1. Differ \subseteq Nat
      BY DEF Differ
    <3> QED BY <3>1, LeastNatural
  <2>2. ASSUME NEW j \in Nat, j < i, j \in DOMAIN s \/ j \in DOMAIN t
        PROVE  j \in DOMAIN s /\ j \in DOMAIN t /\ s[j] = t[j]
    <3>1. j \notin Differ
      <4> HIDE DEF Differ
      <4>1. i \in Nat
        BY DEF Differ
      <4> QED BY <2>1, <2>2, <4>1
    <3> QED BY <2>2, <3>1
  <2>3. i \in Nat /\ (i \in DOMAIN s \/ i \in DOMAIN t)
        /\ ~(i \in DOMAIN s /\ i \in DOMAIN t /\ s[i] = t[i])
    OBVIOUS
  <2> HIDE DEF Differ
  <2>4. ASSUME i \in DOMAIN s
        PROVE  \E m \in DOMAIN t : t[m] = s[i] /\ i < m /\ m \in Nat
    <3>1. PICK m \in DOMAIN t : t[m] = s[i]
      BY <1>1, <2>4 DEF Elements
    <3>2. m \in Nat
      BY <1>1
    <3>3. m # i
      BY <2>3, <2>4, <3>1
    <3>4. ~(m < i)
      BY <1>1, <2>2, <2>4, <3>1, <3>2, <3>3
    <3> QED BY <2>3, <3>1, <3>2, <3>3, <3>4
  <2>5. ASSUME i \in DOMAIN t
        PROVE  \E m \in DOMAIN s : s[m] = t[i] /\ i < m /\ m \in Nat
    <3>1. PICK m \in DOMAIN s : s[m] = t[i]
      BY <1>1, <2>5 DEF Elements
    <3>2. m \in Nat
      BY <1>1
    <3>3. m # i
      BY <2>3, <2>5, <3>1
    <3>4. ~(m < i)
      BY <1>1, <2>2, <2>5, <3>1, <3>2, <3>3
    <3> QED BY <2>3, <3>1, <3>2, <3>3, <3>4
  <2>6. i \in DOMAIN s /\ i \in DOMAIN t
    <3>1. ASSUME i \in DOMAIN s PROVE i \in DOMAIN t
      <4>1. PICK m \in DOMAIN t : i < m /\ m \in Nat
        BY <2>4, <3>1
      <4> QED BY <1>1, <3>1, <4>1
    <3>2. ASSUME i \in DOMAIN t PROVE i \in DOMAIN s
      <4>1. PICK m \in DOMAIN s : i < m /\ m \in Nat
        BY <2>5, <3>2
      <4> QED BY <1>1, <3>2, <4>1
    <3> QED BY <2>3, <3>1, <3>2
  <2>7. PICK m \in DOMAIN t : t[m] = s[i] /\ i < m /\ m \in Nat
    BY <2>4, <2>6
  <2>8. PICK n \in DOMAIN s : s[n] = t[i] /\ i < n /\ n \in Nat
    BY <2>5, <2>6
  <2>9. Before(t, t[i], s[i])
    <3> SUFFICES ASSUME NEW a \in DOMAIN t, NEW b \in DOMAIN t, t[a] = t[i], t[b] = s[i] PROVE a < b
      BY DEF Before
    <3>1. a = i /\ b = m
      BY <1>1, <2>6, <2>7
    <3> QED BY <2>7, <3>1
  <2>10. Before(s, t[i], s[i])
    <3>1. t[i] \in Elements(s) /\ s[i] \in Elements(s)
      BY <1>1, <2>6
    <3> QED BY <2>9, <3>1
  <2>11. n < i
    BY <2>6, <2>8, <2>10 DEF Before
  <2> QED BY <2>3, <2>8, <2>11
<1>3. ASSUME NEW i \in Nat, i \in DOMAIN s \/ i \in DOMAIN t
      PROVE  i \in DOMAIN s /\ i \in DOMAIN t /\ s[i] = t[i]
  BY <1>2, <1>3
<1> HIDE DEF Differ
<1>4. Len(s) = Len(t)
  <2>1. Len(s) > 0 => Len(s) \in DOMAIN s /\ Len(s) \in Nat
    BY <1>1
  <2>2. Len(t) > 0 => Len(t) \in DOMAIN t /\ Len(t) \in Nat
    BY <1>1
  <2>3. Len(s) > 0 => Len(s) <= Len(t)
    BY <1>1, <1>3, <2>1
  <2>4. Len(t) > 0 => Len(t) <= Len(s)
    BY <1>1, <1>3, <2>2
  <2>5. Len(s) \in Nat /\ Len(t) \in Nat
    BY <1>1
  <2> QED BY ONLY <2>3, <2>4, <2>5
<1>5. \A i \in 1..Len(s) : s[i] = t[i]
  BY <1>1, <1>3
<1> QED BY <1>4, <1>5

\* A lane after each number of rounds is what its definition says.
LEMMA RoundsRun ==
  ASSUME LimiterAssumption, NEW order \in Seq(Clients), NEW qs, NEW live, NEW room, NEW f,
         f = LoopRounds(order, qs, live, room)
  PROVE  /\ MaxRounds(order) \in Nat
         /\ f[0] = [order |-> order, qs |-> qs, got |-> {}]
         /\ \A i \in 1..MaxRounds(order) :
              f[i] = IF f[i - 1].order = <<>> \/ Cardinality(f[i - 1].got) \notin room THEN f[i - 1]
                     ELSE Served(f[i - 1], live)
<1> DEFINE base == [order |-> order, qs |-> qs, got |-> {}]
           Next1(s) == IF s.order = <<>> \/ Cardinality(s.got) \notin room THEN s ELSE Served(s, live)
           Solves(g, k) == g = [i \in 0..k |-> IF i = 0 THEN base ELSE Next1(g[i - 1])]
           Bad == {k \in Nat : \A g : ~Solves(g, k)}
           N == MaxRounds(order)
<1>1. N \in Nat
  BY FS_CardinalityType DEF LimiterAssumption, MaxRounds
<1>2. Bad = {}
  <2> HIDE DEF base, Next1
  <2> SUFFICES ASSUME Bad # {} PROVE FALSE
    OBVIOUS
  <2>1. PICK k \in Bad : \A j \in Bad : k <= j
    BY LeastNatural
  <2>2. CASE k = 0
    <3> DEFINE g == [i \in 0..0 |-> base]
    <3>1. g = [i \in 0..0 |-> IF i = 0 THEN base ELSE Next1(g[i - 1])]
      OBVIOUS
    <3>2. Solves(g, 0)
      BY <3>1
    <3> QED BY <2>1, <2>2, <3>2
  <2>3. CASE k # 0
    <3>1. k - 1 \in Nat /\ k - 1 \notin Bad
      <4>1. k \in Nat /\ ~(k <= k - 1)
        BY <2>1
      <4> HIDE DEF Bad
      <4> QED BY <2>1, <2>3, <4>1
    <3>2. PICK h : Solves(h, k - 1)
      BY <3>1
    <3> DEFINE g == [i \in 0..k |-> IF i = 0 THEN base ELSE Next1(h[i - 1])]
    <3>3. ASSUME NEW i \in 0..k, i # 0 PROVE g[i - 1] = h[i - 1]
      <4>1. i - 1 \in 0..(k - 1) /\ i - 1 \in 0..k
        BY <2>1, <3>3
      <4>2. h[i - 1] = IF i - 1 = 0 THEN base ELSE Next1(h[(i - 1) - 1])
        BY <3>2, <4>1
      <4>3. g[i - 1] = IF i - 1 = 0 THEN base ELSE Next1(h[(i - 1) - 1])
        BY <4>1
      <4> QED BY <4>2, <4>3
    <3>4. g = [i \in 0..k |-> IF i = 0 THEN base ELSE Next1(g[i - 1])]
      BY <3>3
    <3>5. Solves(g, k)
      BY <3>4
    <3> QED BY <2>1, <3>5
  <2> QED BY <2>2, <2>3
<1>3. PICK h : Solves(h, N)
  <2>1. N \notin Bad
    BY <1>2
  <2> HIDE DEF base, Next1, N
  <2> QED BY <1>1, <2>1
<1>4. f = CHOOSE g : g = [i \in 0..N |-> IF i = 0 THEN base ELSE Next1(g[i - 1])]
  BY DEF LoopRounds
<1>5. f = [i \in 0..N |-> IF i = 0 THEN base ELSE Next1(f[i - 1])]
  <2> HIDE DEF base, Next1, N
  <2> QED BY <1>3, <1>4
<1>6. ASSUME NEW i \in 0..N PROVE f[i] = IF i = 0 THEN base ELSE Next1(f[i - 1])
  <2> HIDE DEF base, Next1, N
  <2> QED BY <1>5
<1>7. f[0] = base
  <2> HIDE DEF base, Next1, N
  <2> QED BY <1>1, <1>6
<1>8. ASSUME NEW i \in 1..N PROVE f[i] = Next1(f[i - 1])
  <2> HIDE DEF base, Next1, N
  <2> QED BY <1>1, <1>6
<1> HIDE DEF N
<1>9. \A i \in 1..N : f[i] = Next1(f[i - 1])
  BY <1>8
<1> QED BY <1>1, <1>7, <1>9 DEF N

\* The turn the n-th client of the rotation takes next.
NextTurn(order, pop, n) == <<TurnsOf(pop, order, order[n]) + 1, n>>

\* s lists the clients that have work left when the turns of pop are taken, once each, in
\* the order of their next turns.
Lists(s, qs, order, pop) ==
  /\ s \in Seq(Clients) /\ Once(s)
  /\ Elements(s) = {c \in Clients : QueuesAfter(qs, order, pop)[c] # <<>>}
  /\ \A m, n \in DOMAIN order : order[m] \in Elements(s) /\ order[n] \in Elements(s) =>
       (Before(s, order[m], order[n]) <=>
          Earlier(NextTurn(order, pop, m), NextTurn(order, pop, n)))

\* The turns taken and those to come, client by client.
LEMMA TurnsCounted ==
  ASSUME LimiterAssumption, NEW qs, NEW order, LaneOK(qs, order), NEW pop, InOrder(qs, order, pop)
  PROVE  /\ \A n \in DOMAIN order :
              /\ n \in Nat /\ order[n] \in Clients /\ Len(qs[order[n]]) \in Nat
              /\ TurnsOf(pop, order, order[n]) \in Nat
              /\ TurnsOf(pop, order, order[n]) <= Len(qs[order[n]])
              /\ \A i \in 1..Len(qs[order[n]]) : <<i, n>> \in pop <=> i <= TurnsOf(pop, order, order[n])
         /\ \A m, n \in DOMAIN order : order[m] = order[n] => m = n
         /\ \A c \in Clients :
              /\ QueuesAfter(qs, order, pop)[c] # <<>> <=> TurnsOf(pop, order, c) < Len(qs[c])
              /\ QueuesAfter(qs, order, pop)[c] # <<>> => \E n \in DOMAIN order : order[n] = c
<1>1. Taken(qs, order, pop)
  BY TakenInOrder
<1>2. /\ qs \in [Clients -> Seq(Requests)] /\ order \in Seq(Clients) /\ Once(order)
      /\ Elements(order) = {c \in Clients : qs[c] # <<>>}
  BY DEF LaneOK
<1>3. ASSUME NEW c \in Clients
      PROVE  /\ QueuesAfter(qs, order, pop)[c] # <<>> <=> TurnsOf(pop, order, c) < Len(qs[c])
             /\ QueuesAfter(qs, order, pop)[c] # <<>> => \E n \in DOMAIN order : order[n] = c
  <2> DEFINE t == QueuesAfter(qs, order, pop)[c]
             m == TurnsOf(pop, order, c)
  <2>1. t = SubSeq(qs[c], m + 1, Len(qs[c]))
    BY DEF QueuesAfter
  <2>2. m \in 0..Len(qs[c])
    BY <1>1 DEF Taken
  <2>3. qs[c] \in Seq(Requests)
    BY <1>2
  <2>4. t # <<>> <=> m < Len(qs[c])
    <3> HIDE DEF t, m
    <3> QED BY <2>1, <2>2, <2>3, TailKeeps
  <2>5. t # <<>> => qs[c] # <<>>
    <3> HIDE DEF t
    <3> QED BY <2>2, <2>3, <2>4
  <2>6. t # <<>> => c \in Elements(order)
    BY <1>2, <2>5
  <2> QED BY <2>4, <2>6 DEF Elements
<1>4. ASSUME NEW n \in DOMAIN order
      PROVE  /\ n \in Nat /\ order[n] \in Clients /\ Len(qs[order[n]]) \in Nat
             /\ TurnsOf(pop, order, order[n]) \in Nat
             /\ TurnsOf(pop, order, order[n]) <= Len(qs[order[n]])
             /\ \A i \in 1..Len(qs[order[n]]) : <<i, n>> \in pop <=> i <= TurnsOf(pop, order, order[n])
  <2>1. n \in Nat /\ order[n] \in Clients
    BY <1>2
  <2>2. qs[order[n]] \in Seq(Requests)
    BY <1>2, <2>1
  <2>3. Len(qs[order[n]]) \in Nat
    BY <2>2
  <2>4. TurnsOf(pop, order, order[n]) \in 0..Len(qs[order[n]])
    BY <1>1, <2>1 DEF Taken
  <2>5. \A i \in 1..Len(qs[order[n]]) : <<i, n>> \in pop <=> i <= TurnsOf(pop, order, order[n])
    BY <1>1 DEF Taken
  <2> QED BY <2>1, <2>3, <2>4, <2>5
<1>5. \A m, n \in DOMAIN order : order[m] = order[n] => m = n
  BY <1>2 DEF Once
<1> QED BY <1>3, <1>4, <1>5

\* The next turns of clients with work left are turns, not taken, and the first not taken of
\* their clients.
LEMMA NextTurns ==
  ASSUME LimiterAssumption, NEW qs, NEW order, LaneOK(qs, order), NEW pop, InOrder(qs, order, pop),
         NEW n \in DOMAIN order, QueuesAfter(qs, order, pop)[order[n]] # <<>>
  PROVE  /\ NextTurn(order, pop, n) \in Turns(qs, order)
         /\ NextTurn(order, pop, n) \notin pop
         /\ NextTurn(order, pop, n)[1] = TurnsOf(pop, order, order[n]) + 1
         /\ NextTurn(order, pop, n)[2] = n
<1> DEFINE u == TurnsOf(pop, order, order[n])
<1>1. /\ n \in Nat /\ order[n] \in Clients /\ Len(qs[order[n]]) \in Nat /\ u \in Nat
      /\ \A i \in 1..Len(qs[order[n]]) : <<i, n>> \in pop <=> i <= u
      /\ u < Len(qs[order[n]])
  BY TurnsCounted
<1>2. u + 1 \in 1..Len(qs[order[n]]) /\ ~(u + 1 <= u)
  BY <1>1
<1>3. <<u + 1, n>> \in Turns(qs, order)
  BY <1>2, TurnsServe
<1>4. <<u + 1, n>> \notin pop
  BY <1>1, <1>2
<1> QED BY <1>3, <1>4 DEF NextTurn

\* A turn of the n-th client that is not taken is not before the client's next, and the
\* client has work left.
LEMMA UntakenTurns ==
  ASSUME LimiterAssumption, NEW qs, NEW order, LaneOK(qs, order), NEW pop, InOrder(qs, order, pop),
         NEW t \in Turns(qs, order), t \notin pop
  PROVE  /\ t[2] \in DOMAIN order
         /\ QueuesAfter(qs, order, pop)[order[t[2]]] # <<>>
         /\ t = NextTurn(order, pop, t[2]) \/ Earlier(NextTurn(order, pop, t[2]), t)
<1> DEFINE n == t[2]
           u == TurnsOf(pop, order, order[n])
<1>1. /\ t = <<t[1], n>> /\ t[1] \in Nat /\ n \in DOMAIN order /\ order[n] \in Clients
      /\ t[1] \in 1..Len(qs[order[n]])
  BY TurnsServe
<1>2. /\ n \in Nat /\ Len(qs[order[n]]) \in Nat /\ u \in Nat
      /\ \A i \in 1..Len(qs[order[n]]) : <<i, n>> \in pop <=> i <= u
      /\ QueuesAfter(qs, order, pop)[order[n]] # <<>> <=> u < Len(qs[order[n]])
  BY <1>1, TurnsCounted
<1>3. ~(t[1] <= u)
  BY <1>1, <1>2
<1> HIDE DEF u
<1>4. QueuesAfter(qs, order, pop)[order[n]] # <<>>
  BY <1>1, <1>2, <1>3
<1>5. t[1] = u + 1 \/ u + 1 < t[1]
  BY <1>1, <1>2, <1>3
<1>6. NextTurn(order, pop, n) = <<u + 1, n>>
  BY DEF NextTurn, u
<1>7. t = NextTurn(order, pop, n) \/ Earlier(NextTurn(order, pop, n), t)
  BY <1>1, <1>5, <1>6 DEF Earlier
<1> QED BY <1>1, <1>4, <1>7

\* The rotation a dispatch leaves lists the clients by their next turns.
LEMMA RotationLists ==
  ASSUME LimiterAssumption, NEW qs, NEW order, LaneOK(qs, order), NEW pop, InOrder(qs, order, pop)
  PROVE  Lists(RotationAfter(qs, order, pop), qs, order, pop)
<1> DEFINE left == {c \in Clients : QueuesAfter(qs, order, pop)[c] # <<>>}
           last == {c \in left : \A t \in pop : t[1] <= TurnsOf(pop, order, c)}
           s == Keep(order, left \ last)
           u == Keep(order, last)
           used(n) == TurnsOf(pop, order, order[n])
<1>1. RotationAfter(qs, order, pop) = s \o u
  BY DEF RotationAfter
<1>2. order \in Seq(Clients) /\ Once(order)
  BY DEF LaneOK
<1>3. /\ \A n \in DOMAIN order : n \in Nat /\ order[n] \in Clients /\ used(n) \in Nat
      /\ \A m, n \in DOMAIN order : order[m] = order[n] => m = n
      /\ left \subseteq Elements(order) /\ last \subseteq left /\ left \subseteq Clients
  <2>1. left \subseteq Elements(order)
    BY TurnsCounted DEF Elements
  <2>2. last \subseteq left /\ left \subseteq Clients
    OBVIOUS
  <2>3. \A n \in DOMAIN order : n \in Nat /\ order[n] \in Clients /\ used(n) \in Nat
    BY TurnsCounted
  <2>4. \A m, n \in DOMAIN order : order[m] = order[n] => m = n
    BY TurnsCounted
  <2> QED BY <2>1, <2>2, <2>3, <2>4
<1>4. ASSUME NEW n \in DOMAIN order, order[n] \in left
      PROVE  /\ \A t \in pop : t[1] \in Nat /\ t[1] <= used(n) + 1
                               /\ (t[1] = used(n) + 1 => t[2] \in Nat /\ t[2] < n)
             /\ used(n) > 0 => \E t \in pop : t[1] = used(n)
  <2>1. /\ NextTurn(order, pop, n) \in Turns(qs, order) /\ NextTurn(order, pop, n) \notin pop
        /\ NextTurn(order, pop, n)[1] = used(n) + 1 /\ NextTurn(order, pop, n)[2] = n
    BY <1>4, NextTurns
  <2>2. ASSUME NEW t \in pop
        PROVE t[1] \in Nat /\ t[1] <= used(n) + 1 /\ (t[1] = used(n) + 1 => t[2] \in Nat /\ t[2] < n)
    <3>1. t \in Turns(qs, order) /\ t = <<t[1], t[2]>> /\ t[1] \in Nat /\ t[2] \in Nat
      BY TurnsServe DEF InOrder
    <3>2. ~Earlier(NextTurn(order, pop, n), t)
      BY <2>1 DEF InOrder
    <3>3. t # NextTurn(order, pop, n)
      BY <2>1
    <3>4. ~(t[1] = used(n) + 1 /\ t[2] = n)
      BY <3>1, <3>3 DEF NextTurn
    <3> HIDE DEF used
    <3> QED BY <1>3, <2>1, <3>1, <3>2, <3>4 DEF Earlier
  <2>3. used(n) > 0 => <<used(n), n>> \in pop
    <3>1. /\ used(n) \in Nat /\ used(n) <= Len(qs[order[n]]) /\ Len(qs[order[n]]) \in Nat
          /\ \A i \in 1..Len(qs[order[n]]) : <<i, n>> \in pop <=> i <= used(n)
      BY TurnsCounted
    <3> HIDE DEF used
    <3> QED BY <3>1
  <2> HIDE DEF used
  <2> QED BY <2>2, <2>3
<1>5. ASSUME NEW n \in DOMAIN order
      PROVE  /\ order[n] \in last <=> order[n] \in left /\ \A t \in pop : t[1] <= used(n)
             /\ order[n] \in left \ last =>
                  order[n] \in left /\ \E t \in pop : ~(t[1] <= used(n))
  OBVIOUS
<1> HIDE DEF left, last, used
<1>6. /\ s \in Seq(Clients) /\ Elements(s) = Elements(order) \cap (left \ last) /\ Once(s)
      /\ u \in Seq(Clients) /\ Elements(u) = Elements(order) \cap last /\ Once(u)
      /\ \A c, e \in left \ last : Before(s, c, e) <=> Before(order, c, e)
      /\ \A c, e \in last : Before(u, c, e) <=> Before(order, c, e)
  BY <1>2, KeepKeeps
<1> HIDE DEF s, u
<1>7. Elements(s) \cap Elements(u) = {} /\ Elements(s) \cup Elements(u) = left
      /\ Elements(s) = left \ last /\ Elements(u) = last
  BY <1>3, <1>6
<1>8. s \o u \in Seq(Clients) /\ Elements(s \o u) = left /\ Once(s \o u)
  <2>1. s \in Seq(Clients) /\ u \in Seq(Clients)
    BY <1>6
  <2>2. /\ s \o u \in Seq(Clients)
        /\ Elements(s \o u) = Elements(s) \cup Elements(u)
        /\ Once(s) /\ Once(u) /\ Elements(s) \cap Elements(u) = {} => Once(s \o u)
    BY ONLY <2>1, ConcatKeeps
  <2> QED BY <1>6, <1>7, <2>2
<1>9. ASSUME NEW m \in DOMAIN order, NEW n \in DOMAIN order
      PROVE  Before(order, order[m], order[n]) <=> m < n
  BY <1>3 DEF Before
<1>10. ASSUME NEW m \in DOMAIN order, NEW n \in DOMAIN order, order[m] \in left, order[n] \in left
       PROVE  Before(s \o u, order[m], order[n]) <=>
                Earlier(NextTurn(order, pop, m), NextTurn(order, pop, n))
  <2> DEFINE c == order[m]
             e == order[n]
  <2>1. Earlier(NextTurn(order, pop, m), NextTurn(order, pop, n)) <=>
          used(m) < used(n) \/ (used(m) = used(n) /\ m < n)
    <3>1. NextTurn(order, pop, m) = <<used(m) + 1, m>> /\ NextTurn(order, pop, n) = <<used(n) + 1, n>>
      BY DEF NextTurn, used
    <3> QED BY <1>3, <3>1 DEF Earlier
  <2>2. used(m) \in Nat /\ used(n) \in Nat /\ m \in Nat /\ n \in Nat
    BY <1>3
  <2>3. s \in Seq(Clients) /\ u \in Seq(Clients)
    BY <1>6
  <2>4. CASE c \in left \ last /\ e \in left \ last
    <3>1. Before(s \o u, c, e) <=> Before(s, c, e)
      <4>1. c \notin Elements(u) /\ e \notin Elements(u)
        BY <1>7, <2>4
      <4> QED BY <2>3, <4>1, ConcatBefore
    <3>2. Before(s \o u, c, e) <=> m < n
      BY <1>6, <1>9, <2>4, <3>1
    <3>3. PICK t \in pop : ~(t[1] <= used(m))
      BY <1>5, <2>4
    <3>4. PICK v \in pop : ~(v[1] <= used(n))
      BY <1>5, <2>4
    <3>5. /\ t[1] \in Nat /\ t[1] <= used(m) + 1 /\ t[1] <= used(n) + 1
          /\ v[1] \in Nat /\ v[1] <= used(m) + 1 /\ v[1] <= used(n) + 1
      BY <1>4, <1>10
    <3>6. used(m) = used(n)
      BY ONLY <2>2, <3>3, <3>4, <3>5
    <3> QED BY <2>1, <2>2, <3>2, <3>6
  <2>5. CASE c \in last /\ e \in last
    <3>1. Before(s \o u, c, e) <=> Before(u, c, e)
      <4>1. c \notin Elements(s) /\ e \notin Elements(s)
        BY <1>7, <2>5
      <4> QED BY <2>3, <4>1, ConcatBefore
    <3>2. Before(s \o u, c, e) <=> m < n
      BY <1>6, <1>9, <2>5, <3>1
    <3>3. used(m) > 0 => used(m) <= used(n)
      <4>1. \A t \in pop : t[1] <= used(n)
        BY <1>5, <2>5
      <4> QED BY <1>4, <1>10, <4>1
    <3>4. used(n) > 0 => used(n) <= used(m)
      <4>1. \A t \in pop : t[1] <= used(m)
        BY <1>5, <2>5
      <4> QED BY <1>4, <1>10, <4>1
    <3>5. used(m) = used(n)
      BY ONLY <2>2, <3>3, <3>4
    <3> QED BY <2>1, <2>2, <3>2, <3>5
  <2>6. CASE c \in left \ last /\ e \in last
    <3>1. Before(s \o u, c, e)
      <4>1. c \notin Elements(u) /\ e \notin Elements(s)
        BY <1>7, <2>6
      <4> QED BY <2>3, <4>1, ConcatBefore
    <3>2. PICK t \in pop : ~(t[1] <= used(m))
      BY <1>5, <2>6
    <3>3. t[1] <= used(n) /\ t[1] \in Nat
      BY <1>4, <1>5, <1>10, <2>6
    <3>4. used(m) < used(n)
      BY ONLY <2>2, <3>2, <3>3
    <3> QED BY <2>1, <3>1, <3>4
  <2>7. CASE c \in last /\ e \in left \ last
    <3>1. ~Before(s \o u, c, e)
      <4>1. e \notin Elements(u) /\ c \notin Elements(s)
        BY <1>7, <2>7
      <4>2. Before(s \o u, e, c)
        BY <2>3, <4>1, ConcatBefore
      <4>3. c \in Elements(s \o u) /\ e \in Elements(s \o u)
        BY <1>8, <1>10
      <4>4. PICK a \in DOMAIN (s \o u) : (s \o u)[a] = c
        BY <4>3 DEF Elements
      <4>5. PICK b \in DOMAIN (s \o u) : (s \o u)[b] = e
        BY <4>3 DEF Elements
      <4>6. b < a /\ a \in Nat /\ b \in Nat
        <5>1. b < a
          BY <4>2, <4>4, <4>5 DEF Before
        <5>2. DOMAIN (s \o u) = 1..Len(s \o u)
          BY <1>8
        <5> QED BY <5>1, <5>2
      <4>7. ~(a < b)
        BY <4>6
      <4> QED BY <4>4, <4>5, <4>7 DEF Before
    <3>2. PICK t \in pop : ~(t[1] <= used(n))
      BY <1>5, <2>7
    <3>3. t[1] <= used(m) /\ t[1] \in Nat
      BY <1>4, <1>5, <1>10, <2>7
    <3>4. used(n) < used(m)
      BY ONLY <2>2, <3>2, <3>3
    <3> QED BY <2>1, <2>2, <3>1, <3>4
  <2> QED BY <1>10, <2>4, <2>5, <2>6, <2>7
<1>11. left = {c \in Clients : QueuesAfter(qs, order, pop)[c] # <<>>}
  BY DEF left
<1> DEFINE rot == s \o u
<1>12. rot \in Seq(Clients) /\ Once(rot) /\ Elements(rot) = left
       /\ \A m, n \in DOMAIN order : order[m] \in left /\ order[n] \in left =>
            (Before(rot, order[m], order[n]) <=>
               Earlier(NextTurn(order, pop, m), NextTurn(order, pop, n)))
  BY <1>8, <1>10
<1>13. RotationAfter(qs, order, pop) = rot
  BY <1>1
<1> HIDE DEF rot
<1> QED BY <1>11, <1>12, <1>13 DEF Lists

\* One turn more for the m-th client, and no more for any other.
LEMMA TurnAdded ==
  ASSUME LimiterAssumption, NEW qs, NEW order, LaneOK(qs, order), NEW pop, InOrder(qs, order, pop),
         NEW t \in Turns(qs, order), t \notin pop
  PROVE  \A c \in Clients :
           TurnsOf(pop \cup {t}, order, c) =
             IF c = order[t[2]] THEN TurnsOf(pop, order, c) + 1 ELSE TurnsOf(pop, order, c)
<1> SUFFICES ASSUME NEW c \in Clients
             PROVE  TurnsOf(pop \cup {t}, order, c) =
                      IF c = order[t[2]] THEN TurnsOf(pop, order, c) + 1 ELSE TurnsOf(pop, order, c)
  OBVIOUS
<1> DEFINE C == {v \in pop : order[v[2]] = c}
           D == {v \in pop \cup {t} : order[v[2]] = c}
<1>1. IsFiniteSet(C) /\ t \notin C
  <2>1. C \subseteq Turns(qs, order) /\ IsFiniteSet(Turns(qs, order))
    BY TurnsServe DEF InOrder
  <2> HIDE DEF C
  <2>2. IsFiniteSet(C)
    BY <2>1, FS_Subset
  <2> QED BY <2>2 DEF C
<1>2. D = IF c = order[t[2]] THEN C \cup {t} ELSE C
  OBVIOUS
<1>3. Cardinality(C \cup {t}) = Cardinality(C) + 1
  <2> HIDE DEF C
  <2> QED BY <1>1, FS_AddElement
<1>4. TurnsOf(pop, order, c) = Cardinality(C) /\ TurnsOf(pop \cup {t}, order, c) = Cardinality(D)
  BY DEF TurnsOf
<1> HIDE DEF C, D
<1> QED BY <1>2, <1>3, <1>4

\* The head of the list has the next turn of all: the turns before it are those taken.
LEMMA HeadIsNext ==
  ASSUME LimiterAssumption, NEW qs, NEW order, LaneOK(qs, order), NEW pop, InOrder(qs, order, pop),
         NEW s, Lists(s, qs, order, pop), NEW m \in DOMAIN order, s # <<>>, order[m] = Head(s),
         NEW t, t = NextTurn(order, pop, m)
  PROVE  /\ QueuesAfter(qs, order, pop)[order[m]] # <<>>
         /\ t \in Turns(qs, order) /\ t \notin pop /\ t[2] = m
         /\ \A u \in Turns(qs, order) : Earlier(u, t) <=> u \in pop
         /\ InOrder(qs, order, pop \cup {t})
         /\ \A n \in DOMAIN order : order[n] \in Elements(s) /\ n # m =>
              Earlier(t, NextTurn(order, pop, n))
<1>1. /\ s \in Seq(Clients) /\ Once(s)
      /\ Elements(s) = {c \in Clients : QueuesAfter(qs, order, pop)[c] # <<>>}
      /\ \A i, n \in DOMAIN order : order[i] \in Elements(s) /\ order[n] \in Elements(s) =>
           (Before(s, order[i], order[n]) <=>
              Earlier(NextTurn(order, pop, i), NextTurn(order, pop, n)))
  BY DEF Lists
<1>2. 1 \in DOMAIN s /\ s[1] = order[m] /\ DOMAIN s = 1..Len(s) /\ Len(s) \in Nat
  BY <1>1
<1>3. order[m] \in Elements(s)
  BY <1>2 DEF Elements
<1>4. QueuesAfter(qs, order, pop)[order[m]] # <<>>
  BY <1>1, <1>3
<1>5. t \in Turns(qs, order) /\ t \notin pop /\ t[2] = m
  BY <1>4, NextTurns
<1>6. ASSUME NEW n \in DOMAIN order, order[n] \in Elements(s), n # m
      PROVE  Earlier(t, NextTurn(order, pop, n))
  <2>1. order[n] # order[m]
    BY <1>6, TurnsCounted
  <2>2. Before(s, order[m], order[n])
    <3> SUFFICES ASSUME NEW a \in DOMAIN s, NEW b \in DOMAIN s, s[a] = order[m], s[b] = order[n]
                 PROVE  a < b
      BY DEF Before
    <3>1. a = 1 /\ b # 1
      BY <1>1, <1>2, <2>1 DEF Once
    <3> QED BY <1>2, <3>1
  <2> QED BY <1>1, <1>3, <1>6, <2>2
<1>7. \A u \in Turns(qs, order) : u = <<u[1], u[2]>> /\ u[1] \in Nat /\ u[2] \in Nat
  BY TurnsServe
<1>8. ASSUME NEW u \in Turns(qs, order), u \notin pop, u # t PROVE Earlier(t, u)
  <2>1. /\ u[2] \in DOMAIN order
        /\ QueuesAfter(qs, order, pop)[order[u[2]]] # <<>>
        /\ u = NextTurn(order, pop, u[2]) \/ Earlier(NextTurn(order, pop, u[2]), u)
    BY <1>8, UntakenTurns
  <2>2. CASE u[2] = m
    BY <1>8, <2>1, <2>2
  <2>3. CASE u[2] # m
    <3> DEFINE v == NextTurn(order, pop, u[2])
    <3>1. order[u[2]] \in Elements(s)
      BY <1>1, <2>1, TurnsCounted
    <3>2. Earlier(t, v)
      BY <1>6, <2>1, <2>3, <3>1
    <3>3. v \in Turns(qs, order)
      BY <2>1, NextTurns
    <3>4. u = v \/ Earlier(v, u)
      BY <2>1
    <3> HIDE DEF v
    <3> QED BY <1>5, <1>7, <3>2, <3>3, <3>4 DEF Earlier
  <2> QED BY <2>2, <2>3
<1>9. ASSUME NEW u \in Turns(qs, order) PROVE Earlier(u, t) <=> u \in pop
  <2>1. ASSUME u \in pop PROVE Earlier(u, t)
    <3>1. u # t /\ ~Earlier(t, u)
      BY <1>5, <2>1 DEF InOrder
    <3>2. /\ u = <<u[1], u[2]>> /\ u[1] \in Nat /\ u[2] \in Nat
          /\ t = <<t[1], t[2]>> /\ t[1] \in Nat /\ t[2] \in Nat
      BY <1>5, <1>7
    <3>3. u[1] # t[1] \/ u[2] # t[2]
      BY <3>1, <3>2
    <3> QED BY <3>1, <3>2, <3>3 DEF Earlier
  <2>2. ASSUME u \notin pop PROVE ~Earlier(u, t)
    <3>1. u = t \/ Earlier(t, u)
      BY <1>8, <2>2
    <3>2. u[1] \in Nat /\ u[2] \in Nat /\ t[1] \in Nat /\ t[2] \in Nat
      BY <1>5, <1>7
    <3> QED BY <3>1, <3>2 DEF Earlier
  <2> QED BY <2>1, <2>2
<1>10. InOrder(qs, order, pop \cup {t})
  <2>1. pop \cup {t} \subseteq Turns(qs, order)
    BY <1>5 DEF InOrder
  <2>2. ASSUME NEW v \in pop \cup {t}, NEW u \in Turns(qs, order), Earlier(u, v)
        PROVE  u \in pop \cup {t}
    <3>1. CASE v \in pop
      BY <2>2, <3>1 DEF InOrder
    <3>2. CASE v = t
      BY <1>9, <2>2, <3>2
    <3> QED BY <3>1, <3>2
  <2> QED BY <2>1, <2>2 DEF InOrder
<1> QED BY <1>4, <1>5, <1>6, <1>9, <1>10

\* r, the oldest future of client c, has left the queues q1.
Serves(q1, q2, c, r) == q2 = [q1 EXCEPT ![c] = Tail(@)] /\ Head(q1[c]) = r

\* The queues after one turn more: the head's oldest future is gone.
LEMMA QueuesServe ==
  ASSUME LimiterAssumption, NEW qs, NEW order, LaneOK(qs, order), NEW pop, InOrder(qs, order, pop),
         NEW m \in DOMAIN order, NEW t, t = NextTurn(order, pop, m),
         QueuesAfter(qs, order, pop)[order[m]] # <<>>
  PROVE  Serves(QueuesAfter(qs, order, pop), QueuesAfter(qs, order, pop \cup {t}), order[m],
                Future(qs, order, t))
<1> DEFINE c == order[m]
           u == TurnsOf(pop, order, c)
           q1 == QueuesAfter(qs, order, pop)
           q2 == QueuesAfter(qs, order, pop \cup {t})
<1>1. /\ c \in Clients /\ u \in Nat /\ u < Len(qs[c]) /\ Len(qs[c]) \in Nat
      /\ t \in Turns(qs, order) /\ t \notin pop /\ t[1] = u + 1 /\ t[2] = m
  BY TurnsCounted, NextTurns
<1>2. qs[c] \in Seq(Requests)
  BY <1>1 DEF LaneOK
<1>3. q1[c] = SubSeq(qs[c], u + 1, Len(qs[c]))
  BY <1>1 DEF QueuesAfter
<1>4. \A d \in Clients : TurnsOf(pop \cup {t}, order, d) =
                           IF d = c THEN TurnsOf(pop, order, d) + 1 ELSE TurnsOf(pop, order, d)
  BY <1>1, TurnAdded
<1>5. q2[c] = SubSeq(qs[c], (u + 1) + 1, Len(qs[c]))
  <2>1. TurnsOf(pop \cup {t}, order, c) = u + 1
    BY <1>1, <1>4
  <2> QED BY <1>1, <2>1 DEF QueuesAfter
<1>6. \A d \in Clients : d # c => q2[d] = q1[d]
  BY <1>4 DEF QueuesAfter
<1>7. Future(qs, order, t) = qs[c][u + 1]
  BY <1>1 DEF Future
<1>8. q1 = [d \in Clients |-> q1[d]] /\ q2 = [d \in Clients |-> q2[d]]
  BY DEF QueuesAfter
<1> HIDE DEF u, q1, q2, c
<1>9. Head(q1[c]) = qs[c][u + 1] /\ Tail(q1[c]) = q2[c]
  <2> DEFINE q == qs[c]
             a == q1[c]
             b == q2[c]
  <2>1. q \in Seq(Requests) /\ u \in Nat /\ u < Len(q) /\ Len(q) \in Nat
        /\ a = SubSeq(q, u + 1, Len(q)) /\ b = SubSeq(q, (u + 1) + 1, Len(q))
    BY <1>1, <1>2, <1>3, <1>5
  <2> HIDE DEF q, a, b
  <2>2. /\ a \in Seq(Requests) /\ Len(a) = Len(q) - u /\ \A i \in 1..(Len(q) - u) : a[i] = q[u + i]
        /\ b \in Seq(Requests) /\ Len(b) = Len(q) - (u + 1)
        /\ \A i \in 1..(Len(q) - (u + 1)) : b[i] = q[(u + 1) + i]
    BY <2>1
  <2>3. Head(a) = q[u + 1]
    BY <2>1, <2>2
  <2>4. Len(Tail(a)) = Len(b) /\ Tail(a) \in Seq(Requests)
    <3>0. Len(a) # 0
      BY <2>1, <2>2
    <3>1. a # <<>>
      BY <3>0
    <3>2. Tail(a) \in Seq(Requests) /\ Len(Tail(a)) = Len(a) - 1
      BY <2>2, <3>1
    <3> QED BY <2>1, <2>2, <3>2
  <2>5. ASSUME NEW i \in 1..Len(b) PROVE Tail(a)[i] = b[i]
    <3>1. i + 1 \in 1..(Len(q) - u) /\ i \in 1..(Len(q) - (u + 1)) /\ i \in Int
      BY <2>1, <2>2
    <3>2. Tail(a)[i] = a[i + 1]
      BY <2>1, <2>2, <3>1
    <3>3. a[i + 1] = q[u + (i + 1)] /\ b[i] = q[(u + 1) + i]
      BY <2>2, <3>1
    <3>4. u + (i + 1) = (u + 1) + i
      BY <2>1, <3>1
    <3> QED BY <3>2, <3>3, <3>4
  <2>6. Tail(a) = b
    BY <2>2, <2>4, <2>5
  <2> QED BY <2>3, <2>6 DEF q, a, b
<1>10. q2 = [q1 EXCEPT ![c] = Tail(@)]
  BY <1>6, <1>8, <1>9
<1> QED BY <1>7, <1>9, <1>10 DEF Serves, q1, q2, c

\* The members of a joined sequence.
LEMMA JoinedIs ==
  ASSUME NEW T, NEW s \in Seq(T), NEW t \in Seq(T)
  PROVE  /\ s \o t \in Seq(T) /\ Len(s \o t) = Len(s) + Len(t)
         /\ \A i \in 1..Len(s) : (s \o t)[i] = s[i]
         /\ \A i \in 1..Len(t) : (s \o t)[Len(s) + i] = t[i]
OBVIOUS

\* A sequence of one member with another behind it.
LEMMA OneJoined ==
  ASSUME NEW T, NEW o \in Seq(T), NEW r \in Seq(T)
  PROVE  Len(o) = 1 =>
         /\ o \o r \in Seq(T) /\ Len(o \o r) = 1 + Len(r) /\ (o \o r)[1] = o[1]
         /\ \A i \in 1..Len(r) : (o \o r)[1 + i] = r[i]
<1> DEFINE j == o \o r
           n == Len(o)
<1>1. /\ j \in Seq(T) /\ Len(j) = n + Len(r)
      /\ \A i \in 1..n : j[i] = o[i]
      /\ \A i \in 1..Len(r) : j[n + i] = r[i]
  BY JoinedIs
<1> HIDE DEF j, n
<1>2. n = 1 => /\ j \in Seq(T) /\ Len(j) = 1 + Len(r) /\ j[1] = o[1]
               /\ \A i \in 1..Len(r) : j[1 + i] = r[i]
  BY <1>1
<1> QED BY <1>2 DEF j, n

\* Of two members of a list one at most is before the other.
LEMMA BeforeOneWay ==
  ASSUME NEW T, NEW s \in Seq(T), NEW c \in Elements(s), NEW e \in Elements(s), Before(s, c, e)
  PROVE  ~Before(s, e, c)
<1>1. PICK a \in DOMAIN s : s[a] = c
  BY DEF Elements
<1>2. PICK b \in DOMAIN s : s[b] = e
  BY DEF Elements
<1>3. a < b
  BY <1>1, <1>2 DEF Before
<1>4. a \in Nat /\ b \in Nat
  OBVIOUS
<1>5. ~(b < a)
  BY <1>3, <1>4
<1> QED BY <1>1, <1>2, <1>5 DEF Before

\* Taking the head off a list.
LEMMA HeadOff ==
  ASSUME NEW T, NEW s \in Seq(T), s # <<>>, Once(s), NEW c, c = Head(s), NEW r, r = Tail(s)
  PROVE  /\ c \in T /\ c \in Elements(s) /\ r \in Seq(T) /\ Once(r)
         /\ Elements(r) = Elements(s) \ {c}
         /\ \A d, e \in Elements(r) : Before(r, d, e) <=> Before(s, d, e)
<1>1. /\ DOMAIN s = 1..Len(s) /\ Len(s) \in Nat /\ Len(s) # 0 /\ c = s[1]
      /\ \A i \in DOMAIN s : s[i] \in T
  OBVIOUS
<1>2. 1 \in DOMAIN s /\ 1 \in 0..Len(s)
  BY <1>1
<1>3. r = SubSeq(s, 1 + 1, Len(s))
  <2> DEFINE b == SubSeq(s, 1 + 1, Len(s))
  <2>1. r \in Seq(T) /\ Len(r) = Len(s) - 1 /\ \A i \in 1..(Len(s) - 1) : r[i] = s[i + 1]
    BY <1>1
  <2>2. b \in Seq(T) /\ Len(b) = Len(s) - 1 /\ \A i \in 1..(Len(s) - 1) : b[i] = s[1 + i]
    BY <1>1
  <2> HIDE DEF b
  <2>3. \A i \in 1..(Len(s) - 1) : r[i] = b[i]
    BY <1>1, <2>1, <2>2
  <2>4. r = b
    BY <2>1, <2>2, <2>3
  <2> QED BY <2>4 DEF b
<1>4. r \in Seq(T) /\ Elements(r) = {s[i] : i \in (1 + 1)..Len(s)} /\ Once(r)
  BY <1>2, <1>3, TailKeeps
<1>5. \A i \in (1 + 1)..Len(s) : i \in DOMAIN s /\ i # 1
  BY <1>1
<1>6. \A i \in DOMAIN s : i # 1 => i \in (1 + 1)..Len(s)
  BY <1>1
<1>7. Elements(r) = Elements(s) \ {c}
  <2>1. ASSUME NEW x \in Elements(r) PROVE x \in Elements(s) \ {c}
    <3>1. PICK i \in (1 + 1)..Len(s) : x = s[i]
      BY <1>4
    <3>2. x # c
      BY <1>1, <1>2, <1>5, <3>1 DEF Once
    <3> QED BY <1>5, <3>1, <3>2 DEF Elements
  <2>2. ASSUME NEW x \in Elements(s), x # c PROVE x \in Elements(r)
    <3>1. PICK i \in DOMAIN s : x = s[i]
      BY DEF Elements
    <3>2. i # 1
      BY <1>1, <2>2, <3>1
    <3>3. i \in (1 + 1)..Len(s)
      BY <1>6, <3>2
    <3> QED BY <1>4, <3>1, <3>3
  <2> QED BY <2>1, <2>2
<1>8. <<c>> \in Seq(T) /\ Elements(<<c>>) = {c}
  BY <1>1, <1>2 DEF Elements
<1>9. s = <<c>> \o r
  <2>1. r \in Seq(T) /\ Len(r) = Len(s) - 1 /\ \A i \in 1..(Len(s) - 1) : r[i] = s[i + 1]
    BY <1>1
  <2> DEFINE o == <<c>>
             j == o \o r
  <2>2. o \in Seq(T) /\ Len(o) = 1 /\ o[1] = c
    BY <1>8
  <2>3. /\ j \in Seq(T) /\ Len(j) = 1 + Len(r) /\ j[1] = o[1]
        /\ \A i \in 1..Len(r) : j[1 + i] = r[i]
    <3> HIDE DEF o, j
    <3> QED BY <2>1, <2>2, OneJoined DEF j
  <2> HIDE DEF o
  <2> HIDE DEF j
  <2>4. ASSUME NEW i \in 1..Len(s) PROVE j[i] = s[i]
    <3>1. CASE i = 1
      BY <1>1, <2>1, <2>2, <2>3, <3>1
    <3>2. CASE i # 1
      <4>1. i - 1 \in 1..Len(r) /\ i - 1 \in 1..(Len(s) - 1) /\ (i - 1) + 1 = i /\ 1 + (i - 1) = i
        BY <1>1, <2>1, <3>2
      <4>2. r[i - 1] = s[(i - 1) + 1] /\ j[1 + (i - 1)] = r[i - 1]
        BY <2>1, <2>3, <4>1
      <4> QED BY <4>1, <4>2
    <3> QED BY <3>1, <3>2
  <2>5. j = s
    BY <1>1, <2>1, <2>3, <2>4
  <2> QED BY <2>5 DEF o, j
<1>10. ASSUME NEW d \in Elements(r), NEW e \in Elements(r)
       PROVE  Before(r, d, e) <=> Before(s, d, e)
  <2> DEFINE o == <<c>>
  <2>1. d \notin Elements(o) /\ e \notin Elements(o)
    BY <1>7, <1>8
  <2>2. o \in Seq(T) /\ s = o \o r
    BY <1>8, <1>9
  <2> HIDE DEF o
  <2>3. r \in Seq(T)
    BY <1>4
  <2>4. Before(o \o r, d, e) <=> Before(r, d, e)
    BY <2>1, <2>2, <2>3, ConcatBefore
  <2> QED BY <2>2, <2>4
<1>11. c \in T /\ c \in Elements(s)
  BY <1>1, <1>2 DEF Elements
<1> QED BY <1>4, <1>7, <1>10, <1>11

\* The clients of a list in their order, with a new one behind them.
LEMMA OneBehind ==
  ASSUME NEW T, NEW r \in Seq(T), Once(r), NEW c \in T, c \notin Elements(r), NEW s, s = Append(r, c)
  PROVE  /\ s \in Seq(T) /\ Once(s) /\ Elements(s) = Elements(r) \cup {c}
         /\ \A d, e \in Elements(r) : Before(s, d, e) <=> Before(r, d, e)
         /\ \A d \in Elements(r) : Before(s, d, c)
<1>1. s \in Seq(T) /\ Once(s) /\ Elements(s) = Elements(r) \cup {c}
  BY AppendKeeps
<1> DEFINE o == <<c>>
<1>2. o \in Seq(T) /\ Elements(o) = {c} /\ s = r \o o
  BY DEF Elements
<1> HIDE DEF o
<1>3. ASSUME NEW d \in Elements(r), NEW e \in Elements(r) PROVE Before(s, d, e) <=> Before(r, d, e)
  <2>1. d \notin Elements(o) /\ e \notin Elements(o)
    BY <1>2
  <2> QED BY <1>2, <2>1, ConcatBefore
<1>4. ASSUME NEW d \in Elements(r) PROVE Before(s, d, c)
  <2>1. d \notin Elements(o) /\ c \notin Elements(r)
    BY <1>2
  <2> QED BY <1>2, <2>1, ConcatBefore
<1> QED BY <1>1, <1>3, <1>4

\* The list after its head's turn is taken: the head goes behind if it has work left.
LEMMA RotationServes ==
  ASSUME LimiterAssumption, NEW qs, NEW order, LaneOK(qs, order), NEW pop, InOrder(qs, order, pop),
         NEW s, Lists(s, qs, order, pop), NEW m \in DOMAIN order, s # <<>>, order[m] = Head(s),
         NEW pop2, pop2 = pop \cup {NextTurn(order, pop, m)}, NEW q2, q2 = QueuesAfter(qs, order, pop2),
         NEW s2, s2 = IF q2[order[m]] = <<>> THEN Tail(s) ELSE Append(Tail(s), order[m])
  PROVE  Lists(s2, qs, order, pop2)
<1> DEFINE c == order[m]
           r == Tail(s)
           t == NextTurn(order, pop, m)
           q1 == QueuesAfter(qs, order, pop)
           used(n) == TurnsOf(pop, order, order[n])
           used2(n) == TurnsOf(pop2, order, order[n])
<1>1. /\ s \in Seq(Clients) /\ Once(s) /\ Elements(s) = {d \in Clients : q1[d] # <<>>}
      /\ \A i, n \in DOMAIN order : order[i] \in Elements(s) /\ order[n] \in Elements(s) =>
           (Before(s, order[i], order[n]) <=>
              Earlier(NextTurn(order, pop, i), NextTurn(order, pop, n)))
  BY DEF Lists
<1>2. /\ c \in Clients /\ c \in Elements(s) /\ r \in Seq(Clients) /\ Once(r)
      /\ Elements(r) = Elements(s) \ {c}
      /\ \A d, e \in Elements(r) : Before(r, d, e) <=> Before(s, d, e)
  BY <1>1, HeadOff
<1>3. /\ q1[c] # <<>> /\ t \in Turns(qs, order) /\ t \notin pop /\ t[2] = m
      /\ \A u \in Turns(qs, order) : Earlier(u, t) <=> u \in pop
      /\ InOrder(qs, order, pop2)
  BY HeadIsNext
<1>4. q2 = [q1 EXCEPT ![c] = Tail(@)]
  <2>1. QueuesAfter(qs, order, pop \cup {t}) = [q1 EXCEPT ![c] = Tail(@)]
    <3>1. Serves(q1, QueuesAfter(qs, order, pop \cup {t}), order[m], Future(qs, order, t))
      BY <1>3, QueuesServe
    <3> QED BY <3>1 DEF Serves
  <2> QED BY <2>1
<1>5. \A d \in Clients : d # c => q2[d] = q1[d]
  BY <1>2, <1>4 DEF QueuesAfter
<1>6. {d \in Clients : q2[d] # <<>>} = Elements(r) \cup (IF q2[c] = <<>> THEN {} ELSE {c})
  <2> HIDE DEF q1, c, r
  <2> QED BY <1>1, <1>2, <1>5
<1>7. \A i, n \in DOMAIN order : order[i] = order[n] => i = n
  BY TurnsCounted
<1>8. ASSUME NEW n \in DOMAIN order
      PROVE  /\ n \in Nat /\ order[n] \in Clients /\ used(n) \in Nat
             /\ used2(n) = IF n = m THEN used(n) + 1 ELSE used(n)
             /\ NextTurn(order, pop, n) = <<used(n) + 1, n>>
             /\ NextTurn(order, pop2, n) = <<used2(n) + 1, n>>
             /\ n # m => used(n) < used(m) + 1 \/ (used(n) = used(m) + 1 /\ n < m)
  <2>1. /\ n \in Nat /\ order[n] \in Clients /\ used(n) \in Nat /\ used(m) \in Nat /\ m \in Nat
        /\ used(n) <= Len(qs[order[n]]) /\ Len(qs[order[n]]) \in Nat
        /\ \A i \in 1..Len(qs[order[n]]) : <<i, n>> \in pop <=> i <= used(n)
    BY TurnsCounted
  <2>2. used2(n) = IF order[n] = order[t[2]] THEN used(n) + 1 ELSE used(n)
    BY <1>3, <2>1, TurnAdded
  <2>3. used2(n) = IF n = m THEN used(n) + 1 ELSE used(n)
    BY <1>3, <1>7, <2>2
  <2>4. ASSUME n # m PROVE used(n) < used(m) + 1 \/ (used(n) = used(m) + 1 /\ n < m)
    <3>1. CASE used(n) = 0
      BY <2>1, <3>1
    <3>2. CASE used(n) # 0
      <4>1. <<used(n), n>> \in pop
        <5> HIDE DEF used
        <5> QED BY <2>1, <3>2
      <4>2. <<used(n), n>> \in Turns(qs, order)
        BY <4>1, <1>3 DEF InOrder
      <4>3. Earlier(<<used(n), n>>, t)
        BY <1>3, <4>1, <4>2
      <4>4. t = <<used(m) + 1, m>>
        BY DEF NextTurn
      <4> HIDE DEF used, t
      <4> QED BY <2>1, <4>3, <4>4 DEF Earlier
    <3> QED BY <3>1, <3>2
  <2>5. NextTurn(order, pop, n) = <<used(n) + 1, n>> /\ NextTurn(order, pop2, n) = <<used2(n) + 1, n>>
    BY DEF NextTurn
  <2> HIDE DEF used, used2
  <2> QED BY <2>1, <2>3, <2>4, <2>5
<1> HIDE DEF used, used2, q1, t
<1>9. ASSUME NEW i \in DOMAIN order, NEW n \in DOMAIN order, i # m, n # m,
             order[i] \in Elements(r), order[n] \in Elements(r)
      PROVE  Before(r, order[i], order[n]) <=>
               Earlier(NextTurn(order, pop2, i), NextTurn(order, pop2, n))
  <2>1. Before(r, order[i], order[n]) <=>
          Earlier(NextTurn(order, pop, i), NextTurn(order, pop, n))
    BY <1>1, <1>2, <1>9
  <2>2. NextTurn(order, pop2, i) = NextTurn(order, pop, i)
    BY <1>8, <1>9
  <2>3. NextTurn(order, pop2, n) = NextTurn(order, pop, n)
    BY <1>8, <1>9
  <2> QED BY <2>1, <2>2, <2>3
<1>10. \A n \in DOMAIN order : order[n] \in Elements(r) => n # m
  BY <1>2
<1>11. CASE q2[c] = <<>>
  <2>1. s2 = r /\ Elements(r) = {d \in Clients : q2[d] # <<>>}
    BY <1>6, <1>11
  <2>2. \A i, n \in DOMAIN order : order[i] \in Elements(r) /\ order[n] \in Elements(r) =>
          (Before(r, order[i], order[n]) <=>
             Earlier(NextTurn(order, pop2, i), NextTurn(order, pop2, n)))
    BY <1>9, <1>10
  <2>3. r \in Seq(Clients) /\ Once(r)
    BY <1>2
  <2> HIDE DEF r
  <2> QED BY <2>1, <2>2, <2>3 DEF Lists
<1>12. CASE q2[c] # <<>>
  <2> HIDE DEF r, c
  <2>1. s2 = Append(r, c)
    BY <1>12 DEF r, c
  <2>2. /\ s2 \in Seq(Clients) /\ Once(s2) /\ Elements(s2) = Elements(r) \cup {c}
        /\ \A d, e \in Elements(r) : Before(s2, d, e) <=> Before(r, d, e)
        /\ \A d \in Elements(r) : Before(s2, d, c)
    <3>1. c \notin Elements(r)
      BY <1>2
    <3> QED BY <1>2, <2>1, <3>1, OneBehind
  <2>3. Elements(s2) = {d \in Clients : q2[d] # <<>>}
    BY <1>6, <1>12, <2>2
  <2>4. ASSUME NEW i \in DOMAIN order, NEW n \in DOMAIN order,
               order[i] \in Elements(s2), order[n] \in Elements(s2)
        PROVE  Before(s2, order[i], order[n]) <=>
                 Earlier(NextTurn(order, pop2, i), NextTurn(order, pop2, n))
    <3>1. \A a \in DOMAIN order : a = m <=> order[a] = c
      BY <1>7 DEF c
    <3>2. \A a \in DOMAIN order : a # m /\ order[a] \in Elements(s2) => order[a] \in Elements(r)
      BY <2>2, <3>1
    <3>3. CASE i # m /\ n # m
      <4>1. order[i] \in Elements(r) /\ order[n] \in Elements(r)
        BY <2>4, <3>2, <3>3
      <4> QED BY <1>9, <2>2, <3>3, <4>1
    <3>4. CASE i # m /\ n = m
      <4>1. Before(s2, order[i], order[n])
        BY <2>2, <2>4, <3>1, <3>2, <3>4
      <4>2. Earlier(NextTurn(order, pop2, i), NextTurn(order, pop2, n))
        <5>1. /\ i \in Nat /\ n \in Nat /\ used(i) \in Nat /\ used(n) \in Nat /\ used(m) \in Nat
              /\ NextTurn(order, pop2, i) = <<(IF i = m THEN used(m) + 1 ELSE used(i)) + 1, i>>
              /\ NextTurn(order, pop2, n) = <<(IF n = m THEN used(m) + 1 ELSE used(n)) + 1, n>>
              /\ i # m => used(i) < used(m) + 1 \/ (used(i) = used(m) + 1 /\ i < m)
              /\ n # m => used(n) < used(m) + 1 \/ (used(n) = used(m) + 1 /\ n < m)
          BY <1>8
        <5> QED BY <5>1, <3>4 DEF Earlier
      <4> QED BY <4>1, <4>2
    <3>5. CASE i = m /\ n # m
      <4>1. Before(s2, order[n], order[i])
        BY <2>2, <2>4, <3>1, <3>2, <3>5
      <4>2. ~Before(s2, order[i], order[n])
        BY <2>2, <2>4, <4>1, BeforeOneWay
      <4>3. ~Earlier(NextTurn(order, pop2, i), NextTurn(order, pop2, n))
        <5>1. /\ i \in Nat /\ n \in Nat /\ used(i) \in Nat /\ used(n) \in Nat /\ used(m) \in Nat
              /\ NextTurn(order, pop2, i) = <<(IF i = m THEN used(m) + 1 ELSE used(i)) + 1, i>>
              /\ NextTurn(order, pop2, n) = <<(IF n = m THEN used(m) + 1 ELSE used(n)) + 1, n>>
              /\ i # m => used(i) < used(m) + 1 \/ (used(i) = used(m) + 1 /\ i < m)
              /\ n # m => used(n) < used(m) + 1 \/ (used(n) = used(m) + 1 /\ n < m)
          BY <1>8
        <5> QED BY <5>1, <3>5 DEF Earlier
      <4> QED BY <4>2, <4>3
    <3>6. CASE i = m /\ n = m
      <4>1. ~Before(s2, order[i], order[n])
        BY <2>2, <2>4, <3>6, BeforeOneWay
      <4>2. ~Earlier(NextTurn(order, pop2, i), NextTurn(order, pop2, n))
        <5>1. /\ i \in Nat /\ n \in Nat /\ used(i) \in Nat /\ used(n) \in Nat /\ used(m) \in Nat
              /\ NextTurn(order, pop2, i) = <<(IF i = m THEN used(m) + 1 ELSE used(i)) + 1, i>>
              /\ NextTurn(order, pop2, n) = <<(IF n = m THEN used(m) + 1 ELSE used(n)) + 1, n>>
              /\ i # m => used(i) < used(m) + 1 \/ (used(i) = used(m) + 1 /\ i < m)
              /\ n # m => used(n) < used(m) + 1 \/ (used(n) = used(m) + 1 /\ n < m)
          BY <1>8
        <5> QED BY <5>1, <3>6 DEF Earlier
      <4> QED BY <4>1, <4>2
    <3> QED BY <3>3, <3>4, <3>5, <3>6
  <2> QED BY <2>2, <2>3, <2>4 DEF Lists
<1> QED BY <1>11, <1>12

\* The calls resolved by the turns of pop.
Resolved(qs, order, live, pop) == {Future(qs, order, t) : t \in pop \cap LiveTurns(qs, order, live)}

\* The live turns before turn t.
LiveBefore(qs, order, live, t) == Cardinality({u \in LiveTurns(qs, order, live) : Earlier(u, t)})

\* A lane the loop has brought as far as the turns of pop.
Reached(s, qs, order, live, pop) ==
  /\ InOrder(qs, order, pop)
  /\ Lists(s.order, qs, order, pop)
  /\ s.qs = QueuesAfter(qs, order, pop)
  /\ s.got = Resolved(qs, order, live, pop)
  /\ s = [order |-> s.order, qs |-> s.qs, got |-> s.got]

\* Turn t is the next one.
Follows(qs, order, pop, t) ==
  t \in Turns(qs, order) /\ t \notin pop /\ \A u \in Turns(qs, order) : Earlier(u, t) <=> u \in pop

\* As many calls are resolved as there are live turns taken.
LEMMA ResolvedCounts ==
  ASSUME LimiterAssumption, NEW qs, NEW order, LaneOK(qs, order), NEW live, NEW pop,
         pop \subseteq Turns(qs, order), NEW got, got = Resolved(qs, order, live, pop)
  PROVE  /\ got \subseteq Requests /\ Cardinality(got) \in 0..Cardinality(Requests)
         /\ Cardinality(Requests) \in Nat
         /\ Cardinality(pop \cap LiveTurns(qs, order, live)) = Cardinality(got)
<1> DEFINE D == pop \cap LiveTurns(qs, order, live)
           g == [t \in D |-> Future(qs, order, t)]
<1>1. D \subseteq Turns(qs, order) /\ IsFiniteSet(D)
  <2>1. IsFiniteSet(Turns(qs, order)) /\ D \subseteq Turns(qs, order)
    BY TurnsServe
  <2> HIDE DEF D
  <2> QED BY <2>1, FS_Subset
<1>2. got = {Future(qs, order, t) : t \in D}
  BY DEF Resolved
<1> HIDE DEF D
<1>3. \A t \in D : Future(qs, order, t) \in Requests
  BY <1>1, TurnsServe
<1>4. got \subseteq Requests
  BY <1>2, <1>3
<1>5. \A t, u \in D : Future(qs, order, t) = Future(qs, order, u) => t = u
  BY <1>1, TurnsServe
<1>6. g \in Bijection(D, got)
  <2>1. g \in [D -> got] /\ \A t \in D : g[t] = Future(qs, order, t)
    BY <1>2
  <2>2. \A r \in got : \E t \in D : g[t] = r
    BY <1>2, <2>1
  <2>3. \A t, u \in D : g[t] = g[u] => t = u
    BY <1>5, <2>1
  <2> HIDE DEF g
  <2> QED BY <2>1, <2>2, <2>3 DEF Bijection, Injection, Surjection, IsInjective
<1>7. Cardinality(got) = Cardinality(D)
  <2>1. ExistsBijection(D, got)
    BY <1>6 DEF ExistsBijection
  <2> QED BY <1>1, <2>1, FS_Bijection
<1>8. /\ Cardinality(got) \in Nat /\ Cardinality(Requests) \in Nat
      /\ Cardinality(got) <= Cardinality(Requests)
  <2>1. IsFiniteSet(Requests)
    BY DEF LimiterAssumption
  <2> QED BY <1>4, <2>1, FS_Subset, FS_CardinalityType
<1> QED BY <1>4, <1>7, <1>8 DEF D

\* There are no more turns than requests.
LEMMA TurnsAreFew ==
  ASSUME LimiterAssumption, NEW qs, NEW order, LaneOK(qs, order), NEW pop, pop \subseteq Turns(qs, order)
  PROVE  IsFiniteSet(pop) /\ Cardinality(pop) \in Nat /\ Cardinality(pop) <= Cardinality(Requests)
<1> DEFINE g == [t \in pop |-> Future(qs, order, t)]
<1>1. IsFiniteSet(pop)
  <2>1. IsFiniteSet(Turns(qs, order))
    BY TurnsServe
  <2> QED BY <2>1, FS_Subset
<1>2. \A t \in pop : Future(qs, order, t) \in Requests
  BY TurnsServe
<1>3. \A t, u \in pop : Future(qs, order, t) = Future(qs, order, u) => t = u
  BY TurnsServe
<1>4. g \in Injection(pop, Requests)
  <2>1. g \in [pop -> Requests] /\ \A t \in pop : g[t] = Future(qs, order, t)
    BY <1>2
  <2>2. \A t, u \in pop : g[t] = g[u] => t = u
    BY <1>3, <2>1
  <2> HIDE DEF g
  <2> QED BY <2>1, <2>2 DEF Injection, IsInjective
<1>5. IsFiniteSet(Requests)
  BY DEF LimiterAssumption
<1> HIDE DEF g
<1>6. Cardinality(pop) <= Cardinality(Requests)
  BY <1>4, <1>5, FS_Injection DEF ExistsInjection
<1> QED BY <1>1, <1>6, FS_CardinalityType

\* One round: the next turn is taken.
LEMMA RoundServes ==
  ASSUME LimiterAssumption, NEW qs, NEW order, LaneOK(qs, order), NEW live, NEW pop, NEW s,
         Reached(s, qs, order, live, pop), s.order # <<>>
  PROVE  \E t : /\ Follows(qs, order, pop, t)
                /\ Reached(Served(s, live), qs, order, live, pop \cup {t})
<1> DEFINE c == Head(s.order)
           q1 == QueuesAfter(qs, order, pop)
           z == s.order
<1>1. /\ InOrder(qs, order, pop) /\ Lists(z, qs, order, pop) /\ z # <<>>
      /\ s.qs = q1 /\ s.got = Resolved(qs, order, live, pop)
  BY DEF Reached
<1>2. z \in Seq(Clients) /\ Once(z) /\ Elements(z) = {d \in Clients : q1[d] # <<>>}
  BY <1>1 DEF Lists
<1> HIDE DEF z
<1>3. Head(z) \in Clients /\ Head(z) \in Elements(z)
  BY <1>1, <1>2, HeadOff
<1>4. c \in Clients /\ q1[c] # <<>>
  BY <1>2, <1>3 DEF z
<1>5. PICK m \in DOMAIN order : order[m] = c
  BY <1>1, <1>4, TurnsCounted
<1> DEFINE t == NextTurn(order, pop, m)
           pop2 == pop \cup {t}
           q2 == QueuesAfter(qs, order, pop2)
<1>6. order[m] = Head(z)
  BY <1>5 DEF z
<1>7. /\ t \in Turns(qs, order) /\ t \notin pop
      /\ \A u \in Turns(qs, order) : Earlier(u, t) <=> u \in pop
      /\ InOrder(qs, order, pop2)
  <2>1. t = NextTurn(order, pop, m) /\ pop2 = pop \cup {t}
    OBVIOUS
  <2> HIDE DEF t, pop2
  <2>2. /\ t \in Turns(qs, order) /\ t \notin pop
        /\ \A u \in Turns(qs, order) : Earlier(u, t) <=> u \in pop
        /\ InOrder(qs, order, pop \cup {t})
    BY <1>1, <1>5, <1>6, <2>1, HeadIsNext
  <2> QED BY <2>1, <2>2
<1>8. Serves(q1, q2, order[m], Future(qs, order, t))
  BY <1>1, <1>4, <1>5, QueuesServe
<1>9. q2 = [q1 EXCEPT ![c] = Tail(@)] /\ Head(q1[c]) = Future(qs, order, t)
  BY <1>5, <1>8 DEF Serves
<1>10. q2[c] = Tail(q1[c])
  <2>1. c \in DOMAIN q1
    BY <1>4 DEF QueuesAfter
  <2> HIDE DEF q1, q2, c
  <2> QED BY <1>9, <2>1
<1> DEFINE s2 == IF q2[order[m]] = <<>> THEN Tail(z) ELSE Append(Tail(z), order[m])
<1>11. Lists(s2, qs, order, pop2)
  BY <1>1, <1>5, <1>6, RotationServes
<1>12. Resolved(qs, order, live, pop2) =
         Resolved(qs, order, live, pop) \cup ({Future(qs, order, t)} \cap live)
  <2>1. t \in LiveTurns(qs, order, live) <=> Future(qs, order, t) \in live
    BY <1>7 DEF LiveTurns
  <2> HIDE DEF t
  <2> QED BY <2>1 DEF Resolved
<1>13. Served(s, live) = [order |-> IF Tail(q1[c]) = <<>> THEN Tail(z) ELSE Append(Tail(z), c),
                          qs |-> [q1 EXCEPT ![c] = Tail(@)],
                          got |-> Resolved(qs, order, live, pop) \cup ({Head(q1[c])} \cap live)]
  <2>1. s.qs[c] # <<>> /\ s.qs = q1 /\ s.got = Resolved(qs, order, live, pop) /\ z = s.order
    BY <1>1, <1>4 DEF z
  <2> HIDE DEF q1
  <2> QED BY <2>1 DEF Served
<1>14. Served(s, live) = [order |-> s2, qs |-> q2, got |-> Resolved(qs, order, live, pop2)]
  <2> HIDE DEF q1, q2, t, c, z
  <2> QED BY <1>5, <1>9, <1>10, <1>12, <1>13
<1>15. Reached(Served(s, live), qs, order, live, pop2)
  <2> HIDE DEF q2, s2, pop2
  <2> QED BY <1>7, <1>11, <1>14 DEF Reached, q2
<1>16. Follows(qs, order, pop, t)
  BY <1>7 DEF Follows
<1> HIDE DEF t
<1> QED BY <1>15, <1>16

\* Before the turn to come are the live turns taken.
LEMMA LiveBeforeNext ==
  ASSUME LimiterAssumption, NEW qs, NEW order, LaneOK(qs, order), NEW live, NEW pop,
         pop \subseteq Turns(qs, order), NEW t, Follows(qs, order, pop, t)
  PROVE  LiveBefore(qs, order, live, t) = Cardinality(Resolved(qs, order, live, pop))
<1>1. {u \in LiveTurns(qs, order, live) : Earlier(u, t)} = pop \cap LiveTurns(qs, order, live)
  BY DEF Follows, LiveTurns
<1>2. Cardinality(pop \cap LiveTurns(qs, order, live)) = Cardinality(Resolved(qs, order, live, pop))
  BY ResolvedCounts
<1> QED BY <1>1, <1>2 DEF LiveBefore

\* The loop starts with no turn taken.
LEMMA FirstRound ==
  ASSUME LimiterAssumption, NEW qs, NEW order, LaneOK(qs, order), NEW live
  PROVE  Reached([order |-> order, qs |-> qs, got |-> {}], qs, order, live, {})
<1>1. InOrder(qs, order, {})
  BY DEF InOrder
<1>2. \A c \in Clients : TurnsOf({}, order, c) = 0
  BY FS_EmptySet DEF TurnsOf
<1>3. ASSUME NEW c \in Clients PROVE QueuesAfter(qs, order, {})[c] = qs[c]
  <2>1. qs[c] \in Seq(Requests)
    BY DEF LaneOK
  <2>2. QueuesAfter(qs, order, {})[c] = SubSeq(qs[c], 0 + 1, Len(qs[c]))
    BY <1>2 DEF QueuesAfter
  <2> DEFINE q == qs[c]
  <2> HIDE DEF q
  <2>3. q \in Seq(Requests)
    BY <2>1 DEF q
  <2>4. SubSeq(q, 0 + 1, Len(q)) = q
    BY <2>3
  <2> QED BY <2>2, <2>4 DEF q
<1>4. QueuesAfter(qs, order, {}) = qs
  <2>1. qs \in [Clients -> Seq(Requests)]
    BY DEF LaneOK
  <2>2. qs = [c \in Clients |-> qs[c]]
    BY <2>1
  <2>3. QueuesAfter(qs, order, {}) = [c \in Clients |-> QueuesAfter(qs, order, {})[c]]
    BY DEF QueuesAfter
  <2> QED BY <1>3, <2>2, <2>3
<1>5. ASSUME NEW m \in DOMAIN order, NEW n \in DOMAIN order
      PROVE  Before(order, order[m], order[n]) <=>
               Earlier(NextTurn(order, {}, m), NextTurn(order, {}, n))
  <2>1. order[m] \in Clients /\ order[n] \in Clients /\ Once(order) /\ m \in Nat /\ n \in Nat
    BY DEF LaneOK
  <2>2. NextTurn(order, {}, m) = <<1, m>> /\ NextTurn(order, {}, n) = <<1, n>>
    BY <1>2, <2>1 DEF NextTurn
  <2>3. Earlier(NextTurn(order, {}, m), NextTurn(order, {}, n)) <=> m < n
    BY <2>1, <2>2 DEF Earlier
  <2>4. Before(order, order[m], order[n]) <=> m < n
    BY <2>1 DEF Before, Once
  <2> QED BY <2>3, <2>4
<1>6. Lists(order, qs, order, {})
  BY <1>4, <1>5 DEF Lists, LaneOK
<1>7. Resolved(qs, order, live, {}) = {}
  BY DEF Resolved
<1> QED BY <1>1, <1>4, <1>6, <1>7 DEF Reached

\* The loop goes no further from s.
Stopped(s, room) == s.order = <<>> \/ Cardinality(s.got) \notin room

\* Where the loop stands after i rounds.
Walked(s, i, qs, order, live, room, pop) ==
  /\ Reached(s, qs, order, live, pop)
  /\ \A t \in pop : LiveBefore(qs, order, live, t) \in room
  /\ Stopped(s, room) \/ Cardinality(pop) = i

\* After every round the loop stands there, the turns taken so far being the first in order.
LEMMA LoopWalks ==
  ASSUME LimiterAssumption, NEW qs, NEW order, LaneOK(qs, order), NEW live, NEW room, NEW f,
         f = LoopRounds(order, qs, live, room)
  PROVE  \A i \in 0..MaxRounds(order) : \E pop : Walked(f[i], i, qs, order, live, room, pop)
<1> DEFINE N == MaxRounds(order)
           Good(i) == \E pop : Walked(f[i], i, qs, order, live, room, pop)
           Bad == {i \in 0..N : ~Good(i)}
<1>1. /\ N \in Nat /\ f[0] = [order |-> order, qs |-> qs, got |-> {}]
      /\ \A i \in 1..N : f[i] = IF f[i - 1].order = <<>> \/ Cardinality(f[i - 1].got) \notin room
                                THEN f[i - 1] ELSE Served(f[i - 1], live)
  <2>1. order \in Seq(Clients)
    BY DEF LaneOK
  <2> QED BY <2>1, RoundsRun
<1> HIDE DEF N
<1>2. Good(0)
  <2>1. Reached(f[0], qs, order, live, {})
    BY <1>1, FirstRound
  <2>2. Walked(f[0], 0, qs, order, live, room, {})
    BY <2>1, FS_EmptySet DEF Walked
  <2> QED BY <2>2
<1>3. ASSUME NEW i \in 1..N, Good(i - 1) PROVE Good(i)
  <2>1. PICK pop : Walked(f[i - 1], i - 1, qs, order, live, room, pop)
    BY <1>3
  <2> DEFINE s == f[i - 1]
  <2>2. CASE Stopped(s, room)
    <3>1. f[i] = s
      BY <1>1, <2>2 DEF Stopped
    <3>2. Walked(f[i], i, qs, order, live, room, pop)
      <4> HIDE DEF s
      <4> QED BY <2>1, <2>2, <3>1 DEF Walked, s
    <3> QED BY <3>2
  <2>3. CASE ~Stopped(s, room)
    <3>1. f[i] = Served(s, live) /\ s.order # <<>> /\ Cardinality(s.got) \in room
      BY <1>1, <2>3 DEF Stopped
    <3>2. /\ Reached(s, qs, order, live, pop) /\ Cardinality(pop) = i - 1
          /\ \A t \in pop : LiveBefore(qs, order, live, t) \in room
      BY <2>1, <2>3 DEF Walked
    <3> HIDE DEF s
    <3>3. PICK t : /\ Follows(qs, order, pop, t)
                   /\ Reached(Served(s, live), qs, order, live, pop \cup {t})
      BY <3>1, <3>2, RoundServes
    <3>4. pop \subseteq Turns(qs, order) /\ s.got = Resolved(qs, order, live, pop)
      BY <3>2 DEF Reached, InOrder
    <3>5. LiveBefore(qs, order, live, t) \in room
      BY <3>1, <3>3, <3>4, LiveBeforeNext
    <3>6. Cardinality(pop \cup {t}) = i
      <4>1. IsFiniteSet(pop) /\ t \notin pop /\ Cardinality(pop) \in Nat
        BY <3>3, <3>4, TurnsAreFew DEF Follows
      <4>2. Cardinality(pop \cup {t}) = Cardinality(pop) + 1
        BY <4>1, FS_AddElement
      <4> QED BY <1>1, <3>2, <4>2
    <3>7. Walked(f[i], i, qs, order, live, room, pop \cup {t})
      BY <3>1, <3>2, <3>3, <3>5, <3>6 DEF Walked
    <3> QED BY <3>7
  <2> QED BY <2>2, <2>3
<1> HIDE DEF Good
<1>4. Bad = {}
  <2> SUFFICES ASSUME Bad # {} PROVE FALSE
    OBVIOUS
  <2>1. PICK i \in Bad : \A j \in Bad : i <= j
    <3>1. Bad \subseteq Nat
      BY <1>1
    <3> HIDE DEF Bad
    <3> QED BY <3>1, LeastNatural
  <2>2. i \in 0..N /\ ~Good(i)
    OBVIOUS
  <2>3. i - 1 \notin Bad
    <3>1. i \in Int
      BY <1>1, <2>2
    <3>2. ~(i <= i - 1)
      BY <3>1
    <3> HIDE DEF Bad
    <3> QED BY <2>1, <3>2
  <2>4. i # 0
    BY <1>2, <2>2
  <2>5. i \in 1..N /\ i - 1 \in 0..N
    BY <1>1, <2>2, <2>4
  <2> QED BY <1>3, <2>2, <2>3, <2>5
<1>5. \A i \in 0..N : Good(i)
  <2> HIDE DEF N
  <2> QED BY <1>4
<1> QED BY <1>5 DEF N, Good

\* The loop ends.
LEMMA LoopEnds ==
  ASSUME LimiterAssumption, NEW qs, NEW order, LaneOK(qs, order), NEW live, NEW room, NEW s,
         s = Loop(order, qs, live, room)
  PROVE  \E pop : /\ Reached(s, qs, order, live, pop) /\ Stopped(s, room)
                  /\ \A t \in pop : LiveBefore(qs, order, live, t) \in room
<1> DEFINE N == MaxRounds(order)
<1>1. N \in Nat /\ Cardinality(Requests) \in Nat /\ N >= Cardinality(Requests)
  <2>1. order \in Seq(Clients) /\ IsFiniteSet(Requests)
    BY DEF LaneOK, LimiterAssumption
  <2>2. Len(order) \in Nat /\ Cardinality(Requests) \in Nat
    BY <2>1, FS_CardinalityType
  <2> QED BY <2>2 DEF MaxRounds
<1>2. PICK pop : Walked(s, N, qs, order, live, room, pop)
  <2>1. N \in 0..N /\ s = LoopRounds(order, qs, live, room)[N]
    BY <1>1 DEF Loop
  <2> QED BY <2>1, LoopWalks
<1>3. Stopped(s, room)
  <2> SUFFICES ASSUME ~Stopped(s, room) PROVE FALSE
    OBVIOUS
  <2>1. Reached(s, qs, order, live, pop) /\ Cardinality(pop) = N /\ s.order # <<>>
    BY <1>2 DEF Walked, Stopped
  <2>2. PICK t : Follows(qs, order, pop, t)
    BY <2>1, RoundServes
  <2>3. pop \subseteq Turns(qs, order) /\ t \in Turns(qs, order) /\ t \notin pop
    BY <2>1, <2>2 DEF Follows, Reached, InOrder
  <2>4. IsFiniteSet(pop)
    BY <2>3, TurnsAreFew
  <2>5. Cardinality(pop \cup {t}) = N + 1
    BY <2>1, <2>3, <2>4, FS_AddElement
  <2>6. Cardinality(pop \cup {t}) <= Cardinality(Requests)
    <3>1. pop \cup {t} \subseteq Turns(qs, order)
      BY <2>3
    <3> QED BY <3>1, TurnsAreFew
  <2> HIDE DEF N
  <2> QED BY <1>1, <2>5, <2>6
<1> QED BY <1>2, <1>3 DEF Walked

\* The turns the loop takes for k calls are those of the closed form.
LEMMA LoopPops ==
  ASSUME LimiterAssumption, NEW qs, NEW order, LaneOK(qs, order), NEW live, NEW k \in Int, NEW s,
         NEW pop, Reached(s, qs, order, live, pop), NEW room, room = {g \in Counts : g < k},
         Stopped(s, room), \A t \in pop : LiveBefore(qs, order, live, t) \in room
  PROVE  pop = Popped(qs, order, live, k)
<1>1. /\ InOrder(qs, order, pop) /\ pop \subseteq Turns(qs, order)
      /\ Lists(s.order, qs, order, pop) /\ s.got = Resolved(qs, order, live, pop)
  BY DEF Reached, InOrder
<1>2. ASSUME NEW t \in pop PROVE t \in Popped(qs, order, live, k)
  <2>1. LiveBefore(qs, order, live, t) < k
    BY <1>2
  <2> QED BY <1>1, <2>1 DEF Popped, LiveBefore
<1>3. ASSUME NEW v \in Popped(qs, order, live, k), v \notin pop PROVE FALSE
  <2>1. v \in Turns(qs, order)
    BY DEF Popped
  <2>2. s.order # <<>>
    <3>1. /\ v[2] \in DOMAIN order
          /\ QueuesAfter(qs, order, pop)[order[v[2]]] # <<>>
      BY <1>1, <1>3, <2>1, UntakenTurns
    <3>2. order[v[2]] \in Clients
      BY <2>1, TurnsServe
    <3>3. order[v[2]] \in Elements(s.order)
      BY <1>1, <3>1, <3>2 DEF Lists
    <3>4. Elements(<<>>) = {}
      BY DEF Elements
    <3> QED BY <3>3, <3>4
  <2>3. PICK t : Follows(qs, order, pop, t)
    BY <2>2, RoundServes
  <2>4. Cardinality(s.got) \notin room
    BY <2>2 DEF Stopped
  <2>5. LiveBefore(qs, order, live, t) = Cardinality(s.got)
    BY <1>1, <2>3, LiveBeforeNext
  <2>6. Cardinality(s.got) \in Counts
    BY <1>1, ResolvedCounts DEF Counts
  <2>7. ~(LiveBefore(qs, order, live, t) < k)
    BY <2>4, <2>5, <2>6
  <2>8. t \notin Popped(qs, order, live, k)
    BY <2>7 DEF Popped, LiveBefore
  <2>9. ~Earlier(t, v) /\ t # v
    BY <2>3, <2>8, PoppedInOrder DEF Follows
  <2>10. ~Earlier(v, t)
    BY <1>3, <2>1, <2>3 DEF Follows
  <2>11. /\ t = <<t[1], t[2]>> /\ t[1] \in Nat /\ t[2] \in Nat
         /\ v = <<v[1], v[2]>> /\ v[1] \in Nat /\ v[2] \in Nat
    <3>1. t \in Turns(qs, order)
      BY <2>3 DEF Follows
    <3> QED BY <2>1, <3>1, TurnsServe
  <2>12. t[1] # v[1] \/ t[2] # v[2]
    BY <2>9, <2>11
  <2> QED BY <2>9, <2>10, <2>11, <2>12 DEF Earlier
<1> QED BY <1>2, <1>3

\* Two lists of the clients with work left are one list.
LEMMA ListsOnce ==
  ASSUME LimiterAssumption, NEW qs, NEW order, LaneOK(qs, order), NEW pop, InOrder(qs, order, pop),
         NEW s, NEW u, Lists(s, qs, order, pop), Lists(u, qs, order, pop)
  PROVE  s = u
<1>1. s \in Seq(Clients) /\ u \in Seq(Clients) /\ Once(s) /\ Once(u) /\ Elements(s) = Elements(u)
  BY DEF Lists
<1>2. ASSUME NEW c \in Elements(s), NEW e \in Elements(s), Before(u, c, e) PROVE Before(s, c, e)
  <2>1. /\ c \in Clients /\ QueuesAfter(qs, order, pop)[c] # <<>>
        /\ e \in Clients /\ QueuesAfter(qs, order, pop)[e] # <<>>
    BY DEF Lists
  <2>2. PICK m \in DOMAIN order : order[m] = c
    BY <2>1, TurnsCounted
  <2>3. PICK n \in DOMAIN order : order[n] = e
    BY <2>1, TurnsCounted
  <2>4. Earlier(NextTurn(order, pop, m), NextTurn(order, pop, n))
    BY <1>1, <1>2, <2>2, <2>3 DEF Lists
  <2> QED BY <2>2, <2>3, <2>4 DEF Lists
<1> QED BY <1>1, <1>2, SameList

\* The loop, resolving calls while there are fewer than k, is the closed form.
LEMMA LoopIs ==
  ASSUME LimiterAssumption, NEW qs, NEW order, LaneOK(qs, order), NEW live, NEW k \in Int,
         NEW room, room = {g \in Counts : g < k}, NEW s, s = Loop(order, qs, live, room)
  PROVE  /\ s.order = RotationAfter(qs, order, Popped(qs, order, live, k))
         /\ s.qs = QueuesAfter(qs, order, Popped(qs, order, live, k))
         /\ s.got = Granted(qs, order, live, k)
<1>1. PICK pop : /\ Reached(s, qs, order, live, pop) /\ Stopped(s, room)
                 /\ \A t \in pop : LiveBefore(qs, order, live, t) \in room
  BY LoopEnds
<1>2. pop = Popped(qs, order, live, k)
  BY <1>1, LoopPops
<1>3. s.order = RotationAfter(qs, order, pop)
  <2>1. InOrder(qs, order, pop) /\ Lists(s.order, qs, order, pop)
    BY <1>1 DEF Reached
  <2> QED BY <2>1, RotationLists, ListsOnce
<1>4. s.qs = QueuesAfter(qs, order, pop) /\ s.got = Resolved(qs, order, live, pop)
  BY <1>1 DEF Reached
<1> QED BY <1>2, <1>3, <1>4 DEF Granted, Resolved

\* The clients of the closed lane moved so far: m after i of them.
MovedSoFar(m, i, qs, rr) ==
  /\ m = [qs |-> m.qs, order |-> m.order]
  /\ m.qs = [c \in Clients |-> IF \E j \in 1..i : rr["priority"][j] = c
                               THEN qs["main"][c] \o qs["priority"][c] ELSE qs["main"][c]]
  /\ m.order \in Seq(Clients) /\ Once(m.order)
  /\ Elements(m.order) = Elements(rr["main"]) \cup {rr["priority"][j] : j \in 1..i}
  /\ \A c, e \in Elements(m.order) :
       /\ c \in Elements(rr["main"]) /\ (e \in Elements(rr["main"]) => Before(rr["main"], c, e)) =>
            Before(m.order, c, e)
       /\ c \notin Elements(rr["main"]) /\ e \notin Elements(rr["main"])
            /\ Before(rr["priority"], c, e) => Before(m.order, c, e)

\* One client of the closed lane moves.
MoveClient(m, c, qs) ==
  IF qs["priority"][c] = <<>> THEN m
  ELSE [qs    |-> [m.qs EXCEPT ![c] = @ \o qs["priority"][c]],
        order |-> IF \E n \in DOMAIN m.order : m.order[n] = c THEN m.order ELSE Append(m.order, c)]

\* List s is r with a new member c at its end.
Behind(r, c, s) ==
  /\ s \in Seq(Clients) /\ Once(s) /\ Elements(s) = Elements(r) \cup {c}
  /\ \A d, e \in Elements(r) : Before(s, d, e) <=> Before(r, d, e)
  /\ \A d \in Elements(r) : Before(s, d, c)

\* Appending is one way to get there.
LEMMA ClientBehind ==
  ASSUME NEW r \in Seq(Clients), Once(r), NEW c \in Clients, c \notin Elements(r)
  PROVE  Behind(r, c, Append(r, c))
BY OneBehind DEF Behind

\* One client more is moved with all its calls.
LEMMA ClientMoves ==
  ASSUME LimiterAssumption, NEW qs, NEW rr, Placed(qs, rr),
         NEW i \in 1..Len(rr["priority"]), NEW m, MovedSoFar(m, i - 1, qs, rr)
  PROVE  MovedSoFar(MoveClient(m, rr["priority"][i], qs), i, qs, rr)
<1> DEFINE om == rr["main"]
           op == rr["priority"]
           qm == qs["main"]
           qp == qs["priority"]
           c == op[i]
           o2 == IF c \in Elements(m.order) THEN m.order ELSE Append(m.order, c)
           m2 == MoveClient(m, c, qs)
<1>1. /\ om \in Seq(Clients) /\ op \in Seq(Clients) /\ Once(om) /\ Once(op)
      /\ Elements(op) = {d \in Clients : qp[d] # <<>>}
      /\ DOMAIN op = 1..Len(op) /\ Len(op) \in Nat /\ i \in 1..Len(op)
  BY DEF Placed, LaneOK
<1>2. i \in Nat /\ i - 1 \in Nat /\ \A j : j \in 1..i <=> j \in 1..(i - 1) \/ j = i
  BY <1>1
<1>3. /\ m = [qs |-> m.qs, order |-> m.order]
      /\ m.qs = [d \in Clients |-> IF \E j \in 1..(i - 1) : op[j] = d THEN qm[d] \o qp[d] ELSE qm[d]]
      /\ m.order \in Seq(Clients) /\ Once(m.order)
      /\ Elements(m.order) = Elements(om) \cup {op[j] : j \in 1..(i - 1)}
      /\ \A d, e \in Elements(m.order) :
           /\ d \in Elements(om) /\ (e \in Elements(om) => Before(om, d, e)) => Before(m.order, d, e)
           /\ d \notin Elements(om) /\ e \notin Elements(om) /\ Before(op, d, e) =>
                Before(m.order, d, e)
  BY DEF MovedSoFar
<1>4. c \in Clients /\ c \in Elements(op) /\ qp[c] # <<>>
  BY <1>1 DEF Elements
<1>5. ASSUME NEW j \in 1..(i - 1) PROVE op[j] # c /\ j \in DOMAIN op
  <2>1. j \in DOMAIN op /\ j # i /\ i \in DOMAIN op
    BY <1>1, <1>2
  <2> QED BY <1>1, <2>1 DEF Once
<1>6. m2 = [qs |-> [m.qs EXCEPT ![c] = @ \o qp[c]], order |-> o2]
  <2>1. (\E n \in DOMAIN m.order : m.order[n] = c) <=> c \in Elements(m.order)
    BY DEF Elements
  <2> HIDE DEF c
  <2> QED BY <1>4, <2>1 DEF MoveClient
<1>7. m2.qs = [d \in Clients |-> IF \E j \in 1..i : op[j] = d THEN qm[d] \o qp[d] ELSE qm[d]]
  <2>1. \A d \in Clients : (\E j \in 1..i : op[j] = d) <=> (\E j \in 1..(i - 1) : op[j] = d) \/ d = c
    BY <1>2
  <2>2. ~\E j \in 1..(i - 1) : op[j] = c
    BY <1>5
  <2> DEFINE P(d) == \E j \in 1..(i - 1) : op[j] = d
             R(d) == \E j \in 1..i : op[j] = d
  <2>3. (\A d \in Clients : R(d) <=> P(d) \/ d = c) /\ ~P(c)
        /\ m.qs = [d \in Clients |-> IF P(d) THEN qm[d] \o qp[d] ELSE qm[d]]
    BY <1>3, <2>1, <2>2
  <2>4. m2.qs = [m.qs EXCEPT ![c] = @ \o qp[c]]
    BY <1>6
  <2> HIDE DEF P, R, m2, c, op, qm, qp
  <2>5. m2.qs = [d \in Clients |-> IF R(d) THEN qm[d] \o qp[d] ELSE qm[d]]
    BY <1>4, <2>3, <2>4
  <2> QED BY <2>5 DEF R
<1>8. {op[j] : j \in 1..i} = {op[j] : j \in 1..(i - 1)} \cup {c}
  BY <1>2
<1> DEFINE old == {op[j] : j \in 1..(i - 1)}
<1>9. \A e \in old : e # c /\ Before(op, e, c) /\ ~Before(op, c, e)
  <2> SUFFICES ASSUME NEW j \in 1..(i - 1)
               PROVE  op[j] # c /\ Before(op, op[j], c) /\ ~Before(op, c, op[j])
    OBVIOUS
  <2>1. op[j] # c /\ j \in DOMAIN op /\ i \in DOMAIN op /\ j < i
    BY <1>1, <1>2, <1>5
  <2>2. Before(op, op[j], c)
    BY <1>1, <2>1 DEF Before, Once
  <2>3. op[j] \in Elements(op)
    BY <2>1 DEF Elements
  <2> QED BY <1>1, <1>4, <2>1, <2>2, <2>3, BeforeOneWay
<1>10. /\ o2 \in Seq(Clients) /\ Once(o2) /\ Elements(o2) = Elements(om) \cup old \cup {c}
       /\ \A d, e \in Elements(m.order) : Before(o2, d, e) <=> Before(m.order, d, e)
       /\ c \notin Elements(m.order) => \A d \in Elements(m.order) : Before(o2, d, c)
       /\ Elements(m.order) = Elements(om) \cup old
  <2>1. CASE c \in Elements(m.order)
    <3> HIDE DEF old, c
    <3> QED BY <1>3, <2>1 DEF old
  <2>2. CASE c \notin Elements(m.order)
    <3> DEFINE b == m.order
    <3>1. b \in Seq(Clients) /\ Once(b) /\ c \notin Elements(b) /\ o2 = Append(b, c) /\ c \in Clients
      BY <1>3, <1>4, <2>2
    <3> HIDE DEF b, o2, c
    <3>2. Behind(b, c, o2)
      BY <3>1, ClientBehind
    <3> HIDE DEF old
    <3> QED BY <1>3, <3>2 DEF b, old, Behind
  <2> QED BY <2>1, <2>2
<1>11. ASSUME NEW d \in Elements(o2), NEW e \in Elements(o2),
              d \in Elements(om), e \in Elements(om) => Before(om, d, e)
       PROVE  Before(o2, d, e)
  <2> HIDE DEF o2, old, c, om, op
  <2>1. d \in Elements(m.order)
    BY <1>10, <1>11
  <2>2. CASE e \in Elements(m.order)
    BY <1>3, <1>10, <1>11, <2>1, <2>2
  <2>3. CASE e \notin Elements(m.order)
    BY <1>10, <2>1, <2>3
  <2> QED BY <2>2, <2>3
<1>12. ASSUME NEW d \in Elements(o2), NEW e \in Elements(o2),
              d \notin Elements(om), e \notin Elements(om), Before(op, d, e)
       PROVE  Before(o2, d, e)
  <2>1. ~Before(op, c, c)
    <3>1. i \in DOMAIN op /\ i \in Nat
      BY <1>1, <1>2
    <3>2. ~(i < i)
      BY <3>1
    <3> QED BY <3>1, <3>2 DEF Before
  <2> HIDE DEF o2, old, c, om, op
  <2>2. d \in old
    BY <1>9, <1>10, <1>12, <2>1
  <2>3. d \in Elements(m.order)
    BY <1>10, <2>2
  <2>4. CASE e \in Elements(m.order)
    BY <1>3, <1>10, <1>12, <2>3, <2>4
  <2>5. CASE e \notin Elements(m.order)
    BY <1>10, <2>3, <2>5
  <2> QED BY <2>4, <2>5
<1>13. m2.order = o2 /\ m2 = [qs |-> m2.qs, order |-> m2.order]
  <2> HIDE DEF o2
  <2> QED BY <1>6
<1>14. Elements(o2) = Elements(om) \cup {op[j] : j \in 1..i}
  BY <1>8, <1>10
<1>15. MovedSoFar(m2, i, qs, rr)
  <2>1. /\ m2 = [qs |-> m2.qs, order |-> m2.order] /\ m2.order = o2
        /\ m2.qs = [d \in Clients |-> IF \E j \in 1..i : op[j] = d THEN qm[d] \o qp[d] ELSE qm[d]]
        /\ o2 \in Seq(Clients) /\ Once(o2)
    BY <1>7, <1>10, <1>13
  <2>2. \A d, e \in Elements(o2) :
          /\ d \in Elements(om) /\ (e \in Elements(om) => Before(om, d, e)) => Before(o2, d, e)
          /\ d \notin Elements(om) /\ e \notin Elements(om) /\ Before(op, d, e) => Before(o2, d, e)
    BY <1>11, <1>12
  <2> HIDE DEF m2, o2
  <2> QED BY <1>14, <2>1, <2>2 DEF MovedSoFar
<1> QED BY <1>15

\* The lane closed one client after the other.
LEMMA MovesRun ==
  ASSUME LimiterAssumption, NEW qs, NEW rr, Placed(qs, rr), NEW m, m = MigrateLoop(qs, rr)
  PROVE  MovedSoFar(m, Len(rr["priority"]), qs, rr)
<1> DEFINE op == rr["priority"]
           N == Len(op)
           base == [qs |-> qs["main"], order |-> rr["main"]]
           Step(s, i) == MoveClient(s, op[i], qs)
           Solves(g, k) == g = [i \in 0..k |-> IF i = 0 THEN base ELSE Step(g[i - 1], i)]
           Good(k) == \E g : Solves(g, k) /\ MovedSoFar(g[k], k, qs, rr)
           Bad == {k \in 0..N : ~Good(k)}
<1>1. N \in Nat /\ rr["main"] \in Seq(Clients) /\ op \in Seq(Clients) /\ Once(rr["main"])
  BY DEF Placed, LaneOK
<1>2. Good(0)
  <2> DEFINE g == [i \in 0..0 |-> base]
  <2>1. g = [i \in 0..0 |-> IF i = 0 THEN base ELSE Step(g[i - 1], i)] /\ g[0] = base
    <3> HIDE DEF base, Step
    <3> QED OBVIOUS
  <2>2. Solves(g, 0)
    BY <2>1
  <2>3. MovedSoFar(base, 0, qs, rr)
    <3>1. 1..0 = {}
      OBVIOUS
    <3>2. qs["main"] = [c \in Clients |-> qs["main"][c]]
      BY DEF Placed, LaneOK
    <3> QED BY <1>1, <3>1, <3>2 DEF MovedSoFar
  <2> HIDE DEF g, base, Solves
  <2> QED BY <2>1, <2>2, <2>3
<1>3. ASSUME NEW k \in 1..N, Good(k - 1) PROVE Good(k)
  <2>1. k \in Nat /\ k # 0 /\ k - 1 \in Nat
    BY <1>1
  <2>2. PICK h : Solves(h, k - 1) /\ MovedSoFar(h[k - 1], k - 1, qs, rr)
    BY <1>3
  <2> HIDE DEF base
  <2> DEFINE g == [i \in 0..k |-> IF i = 0 THEN base ELSE Step(h[i - 1], i)]
  <2>3. ASSUME NEW i \in 0..k, i # 0 PROVE g[i - 1] = h[i - 1]
    <3> HIDE DEF Step
    <3>1. i - 1 \in 0..(k - 1) /\ i - 1 \in 0..k
      BY <2>1, <2>3
    <3>2. h[i - 1] = IF i - 1 = 0 THEN base ELSE Step(h[(i - 1) - 1], i - 1)
      BY <2>2, <3>1
    <3>3. g[i - 1] = IF i - 1 = 0 THEN base ELSE Step(h[(i - 1) - 1], i - 1)
      BY <3>1
    <3> QED BY <3>2, <3>3
  <2>4. g = [i \in 0..k |-> IF i = 0 THEN base ELSE Step(g[i - 1], i)]
    <3> HIDE DEF Step
    <3> QED BY <2>3
  <2>5. g[k] = Step(h[k - 1], k)
    <3> HIDE DEF Step
    <3> QED BY <2>1
  <2>6. MovedSoFar(g[k], k, qs, rr)
    <3>1. k \in 1..Len(rr["priority"])
      OBVIOUS
    <3> QED BY <2>2, <2>5, <3>1, ClientMoves
  <2> HIDE DEF g
  <2>7. Solves(g, k)
    BY <2>4
  <2> HIDE DEF Solves
  <2> QED BY <2>6, <2>7
<1> HIDE DEF Good, N
<1>4. Bad = {}
  <2> SUFFICES ASSUME Bad # {} PROVE FALSE
    OBVIOUS
  <2>1. PICK i \in Bad : \A j \in Bad : i <= j
    <3>1. Bad \subseteq Nat
      BY <1>1
    <3> HIDE DEF Bad
    <3> QED BY <3>1, LeastNatural
  <2>2. i \in 0..N /\ ~Good(i)
    OBVIOUS
  <2>3. i - 1 \notin Bad
    <3>1. i \in Int
      BY <1>1, <2>2
    <3>2. ~(i <= i - 1)
      BY <3>1
    <3> HIDE DEF Bad
    <3> QED BY <2>1, <3>2
  <2>4. i # 0
    BY <1>2, <2>2
  <2>5. i \in 1..N /\ i - 1 \in 0..N
    BY <1>1, <2>2, <2>4
  <2> QED BY <1>3, <2>2, <2>3, <2>5
<1>5. Good(N)
  <2>1. N \in 0..N /\ N \notin Bad
    BY <1>1, <1>4
  <2> HIDE DEF Bad
  <2> QED BY <1>4, <2>1 DEF Bad
<1>6. PICK g : Solves(g, N) /\ MovedSoFar(g[N], N, qs, rr)
  BY <1>5 DEF Good
<1> DEFINE f == CHOOSE g1 : Solves(g1, N)
<1>7. Solves(f, N)
  <2> HIDE DEF Solves
  <2> QED BY <1>6
<1>8. m = f[N]
  <2>1. m = (CHOOSE g1 : g1 = [i \in 0..N |-> IF i = 0 THEN base
                                            ELSE Step(g1[i - 1], i)])[N]
    BY DEF MigrateLoop, MoveClient, N
  <2> QED BY <2>1
<1> HIDE DEF f
<1>9. f = g
  <2> DEFINE Off == {i \in 0..N : f[i] # g[i]}
  <2>1. Off = {}
    <3> SUFFICES ASSUME Off # {} PROVE FALSE
      OBVIOUS
    <3>1. PICK i \in Off : \A j \in Off : i <= j
      <4>1. Off \subseteq Nat
        BY <1>1
      <4> HIDE DEF Off
      <4> QED BY <4>1, LeastNatural
    <3>2. i \in 0..N /\ f[i] # g[i] /\ i \in Nat
      BY <1>1
    <3>3. i # 0
      <4>1. 0 \in 0..N
        BY <1>1
      <4> HIDE DEF base, Step
      <4>2. f[0] = base /\ g[0] = base
        BY <1>6, <1>7, <4>1
      <4> QED BY <3>2, <4>2
    <3>4. i - 1 \in 0..N /\ i - 1 \notin Off
      <4>1. i - 1 \in 0..N /\ ~(i <= i - 1)
        BY <1>1, <3>2, <3>3
      <4> HIDE DEF Off
      <4> QED BY <3>1, <4>1
    <3>5. f[i - 1] = g[i - 1]
      BY <3>4
    <3>6. f[i] = Step(f[i - 1], i) /\ g[i] = Step(g[i - 1], i)
      <4> HIDE DEF base, Step
      <4> QED BY <1>6, <1>7, <3>2, <3>3
    <3> HIDE DEF Step
    <3> QED BY <3>2, <3>5, <3>6
  <2>2. \A i \in 0..N : f[i] = g[i]
    <3> HIDE DEF N
    <3> QED BY <2>1
  <2> DEFINE A == [i \in 0..N |-> IF i = 0 THEN base ELSE Step(f[i - 1], i)]
             B == [i \in 0..N |-> IF i = 0 THEN base ELSE Step(g[i - 1], i)]
  <2>3. f = A /\ g = B
    BY <1>6, <1>7
  <2>4. f = [i \in 0..N |-> f[i]] /\ g = [i \in 0..N |-> g[i]]
    <3>1. A = [i \in 0..N |-> A[i]] /\ B = [i \in 0..N |-> B[i]]
      <4> HIDE DEF base, Step
      <4> QED OBVIOUS
    <3> HIDE DEF A, B
    <3> QED BY <2>3, <3>1
  <2> HIDE DEF A, B
  <2> QED BY <2>2, <2>4
<1> QED BY <1>6, <1>8, <1>9 DEF N

\* Closing the lane client by client is closing it at once.
LEMMA MigrationIs ==
  ASSUME LimiterAssumption, NEW qs, NEW rr, Placed(qs, rr), NEW m, m = MigrateLoop(qs, rr)
  PROVE  m.qs = Migrated(qs, rr).queues["main"] /\ m.order = Migrated(qs, rr).rotation["main"]
<1> DEFINE om == rr["main"]
           op == rr["priority"]
           qm == qs["main"]
           qp == qs["priority"]
           S == {c \in Clients : qm[c] = <<>>}
           new == Keep(op, S)
           N == Len(op)
<1>1. /\ om \in Seq(Clients) /\ op \in Seq(Clients) /\ Once(om) /\ Once(op)
      /\ Elements(om) = {c \in Clients : qm[c] # <<>>}
      /\ Elements(op) = {c \in Clients : qp[c] # <<>>}
      /\ \A c \in Clients : qm[c] \in Seq(Requests)
      /\ DOMAIN op = 1..N
  BY DEF Placed, LaneOK
<1>2. MovedSoFar(m, N, qs, rr)
  BY MovesRun
<1>3. {op[j] : j \in 1..N} = Elements(op)
  BY <1>1 DEF Elements
<1>4. /\ m.qs = [c \in Clients |-> IF \E j \in 1..N : op[j] = c THEN qm[c] \o qp[c] ELSE qm[c]]
      /\ m.order \in Seq(Clients) /\ Once(m.order)
      /\ Elements(m.order) = Elements(om) \cup Elements(op)
      /\ \A c, e \in Elements(m.order) :
           /\ c \in Elements(om) /\ (e \in Elements(om) => Before(om, c, e)) => Before(m.order, c, e)
           /\ c \notin Elements(om) /\ e \notin Elements(om) /\ Before(op, c, e) =>
                Before(m.order, c, e)
  BY <1>2, <1>3 DEF MovedSoFar
<1>5. ASSUME NEW c \in Clients, ~\E j \in 1..N : op[j] = c PROVE qm[c] = qm[c] \o qp[c]
  <2>1. qp[c] = <<>>
    BY <1>1, <1>5 DEF Elements
  <2> DEFINE q == qm[c]
  <2>2. q \in Seq(Requests)
    BY <1>1
  <2> HIDE DEF q
  <2>3. q = q \o <<>>
    BY <2>2
  <2> QED BY <2>1, <2>3 DEF q
<1>6. m.qs = [c \in Clients |-> qm[c] \o qp[c]]
  <2> HIDE DEF qm, qp, op, N
  <2> QED BY <1>4, <1>5
<1>7. /\ new \in Seq(Clients) /\ Elements(new) = Elements(op) \cap S /\ Once(new)
      /\ \A c, e \in S : Before(new, c, e) <=> Before(op, c, e)
  <2> HIDE DEF op, S
  <2> QED BY <1>1, KeepKeeps
<1> DEFINE j == om \o new
<1>8. j \in Seq(Clients) /\ Once(j) /\ Elements(j) = Elements(m.order)
  <2> HIDE DEF om, op, new
  <2>1. Elements(om) \cap Elements(new) = {}
    BY <1>1, <1>7
  <2>2. j \in Seq(Clients) /\ Once(j) /\ Elements(j) = Elements(om) \cup Elements(new)
    BY <1>1, <1>7, <2>1, ConcatKeeps
  <2> QED BY <1>1, <1>4, <1>7, <2>2
<1>9. ASSUME NEW c \in Elements(m.order), NEW e \in Elements(m.order), Before(j, c, e)
      PROVE  Before(m.order, c, e)
  <2> DEFINE a == Elements(om)
  <2>1. \A d \in Elements(m.order) : d \notin a => d \in S /\ d \in Elements(new) /\ d \notin a
    BY <1>1, <1>4, <1>7
  <2>2. \A d \in a : d \notin Elements(new)
    BY <1>1, <1>7
  <2> HIDE DEF S
  <2>3. CASE c \in a /\ e \in a
    <3>1. Before(j, c, e) <=> Before(om, c, e)
      <4>1. c \notin Elements(new) /\ e \notin Elements(new)
        BY <2>2, <2>3
      <4> HIDE DEF om, new
      <4> QED BY <1>1, <1>7, <4>1, ConcatBefore
    <3> QED BY <1>4, <1>9, <2>3, <3>1
  <2>4. CASE c \in a /\ e \notin a
    BY <1>4, <2>4
  <2>5. CASE c \notin a /\ e \in a
    <3>1. Before(j, e, c)
      <4>1. e \notin Elements(new) /\ c \notin Elements(om)
        BY <2>2, <2>5
      <4> HIDE DEF om, new
      <4> QED BY <1>1, <1>7, <4>1, ConcatBefore
    <3>2. e \in Elements(j) /\ c \in Elements(j) /\ j \in Seq(Clients)
      BY <1>8
    <3> HIDE DEF j
    <3> QED BY <1>9, <3>1, <3>2, BeforeOneWay
  <2>6. CASE c \notin a /\ e \notin a
    <3>1. c \in S /\ e \in S /\ c \notin Elements(om) /\ e \notin Elements(om)
      BY <2>1, <2>6
    <3>2. Before(j, c, e) <=> Before(new, c, e)
      <4> HIDE DEF om, new
      <4> QED BY <1>1, <1>7, <3>1, ConcatBefore
    <3>3. Before(op, c, e)
      BY <1>7, <1>9, <3>1, <3>2
    <3> QED BY <1>4, <3>1, <3>3
  <2> QED BY <2>3, <2>4, <2>5, <2>6
<1>10. m.order = j
  <2> HIDE DEF j
  <2> QED BY <1>4, <1>8, <1>9, SameList
<1> QED BY <1>6, <1>10 DEF Migrated

\* A lane closed with nobody in it leaves the other as it was.
LEMMA NobodyMigrates ==
  ASSUME LimiterAssumption, NEW qs, NEW rr, Placed(qs, rr), rr["priority"] = <<>>,
         NEW m, m = Migrated(qs, rr)
  PROVE  /\ m.queues["main"] = qs["main"] /\ m.rotation["main"] = rr["main"]
<1> DEFINE om == rr["main"]
           qm == qs["main"]
           qp == qs["priority"]
           new == Keep(rr["priority"], {c \in Clients : qm[c] = <<>>})
<1>1. /\ om \in Seq(Clients) /\ rr["priority"] \in Seq(Clients)
      /\ Elements(rr["priority"]) = {c \in Clients : qp[c] # <<>>}
      /\ \A c \in Clients : qm[c] \in Seq(Requests) /\ qm = [d \in Clients |-> qm[d]]
  BY DEF Placed, LaneOK
<1>2. Elements(<<>>) = {}
  BY DEF Elements
<1>3. ASSUME NEW c \in Clients PROVE qm[c] \o qp[c] = qm[c]
  <2>1. qp[c] = <<>>
    BY <1>1, <1>2
  <2> DEFINE q == qm[c]
  <2>2. q \in Seq(Requests)
    BY <1>1
  <2> HIDE DEF q
  <2>3. q = q \o <<>>
    BY <2>2
  <2> QED BY <2>1, <2>3 DEF q
<1>4. qm = [d \in Clients |-> qm[d]]
  BY DEF Placed, LaneOK
<1>5. [c \in Clients |-> qm[c] \o qp[c]] = qm
  <2> HIDE DEF qm, qp
  <2> QED BY <1>3, <1>4
<1>6. new = <<>>
  <2>1. new \in Seq(Clients) /\ Elements(new) = {}
    <3> DEFINE op == rr["priority"]
               S == {c \in Clients : qm[c] = <<>>}
    <3>1. op \in Seq(Clients) /\ Elements(op) = {} /\ new = Keep(op, S)
      BY <1>1, <1>2
    <3> HIDE DEF op, S, new
    <3>2. Keep(op, S) \in Seq(Clients) /\ Elements(Keep(op, S)) = Elements(op) \cap S
      BY <3>1, KeepKeeps
    <3> QED BY <3>1, <3>2
  <2> HIDE DEF new
  <2>2. \A i \in DOMAIN new : FALSE
    BY <2>1 DEF Elements
  <2>3. Len(new) = 0
    <3>1. DOMAIN new = 1..Len(new) /\ Len(new) \in Nat
      BY <2>1
    <3>2. Len(new) # 0 => 1 \in DOMAIN new
      BY <3>1
    <3> QED BY <2>2, <3>2
  <2> QED BY <2>1, <2>3
<1>7. om \o new = om
  <2> HIDE DEF om, new
  <2> QED BY <1>1, <1>6
<1> QED BY <1>5, <1>7 DEF Migrated

\* The other lane's calls do not matter to a lane.
LEMMA LiveElsewhere ==
  ASSUME LimiterAssumption, NEW qs, NEW order, LaneOK(qs, order), NEW live, NEW gone,
         gone \cap Queued(qs) = {}, NEW k
  PROVE  /\ Popped(qs, order, live \ gone, k) = Popped(qs, order, live, k)
         /\ Granted(qs, order, live \ gone, k) = Granted(qs, order, live, k)
<1>1. ASSUME NEW t \in Turns(qs, order) PROVE Future(qs, order, t) \notin gone
  <2>1. /\ Future(qs, order, t) \in Requests
        /\ Future(qs, order, t) \in Elements(qs[order[t[2]]])
        /\ ClientOf[Future(qs, order, t)] = order[t[2]]
    BY TurnsServe
  <2> QED BY <2>1 DEF Queued
<1>2. LiveTurns(qs, order, live \ gone) = LiveTurns(qs, order, live)
  BY <1>1 DEF LiveTurns
<1> QED BY <1>2 DEF Popped, Granted

\* Every dispatch is what the loops do, from any lanes in order.
LEMMA DispatchIsLoop ==
  ASSUME LimiterAssumption, reserve \in Nat, Placed(queues, rotation),
         NEW live, NEW n \in Nat, NEW p \in Nat, NEW cap \in Nat
  PROVE  Dispatched(queues, rotation, live, n, p, cap) = TryDispatchLoop(live, n, p, cap)
<1> DEFINE m  == IF reserve = 0 THEN Migrated(queues, rotation)
                 ELSE [queues |-> queues, rotation |-> rotation]
           closed == reserve = 0 /\ rotation["priority"] # <<>>
           mig == MigrateLoop(queues, rotation)
           none == [c \in Clients |-> <<>>]
           qp == m.queues["priority"]
           op == m.rotation["priority"]
           qm == m.queues["main"]
           om == m.rotation["main"]
<1>1. Placed(m.queues, m.rotation)
  <2>1. CASE reserve = 0
    <3> DEFINE g == Migrated(queues, rotation)
    <3>1. Placed(g.queues, g.rotation)
      BY MigrationPlaces
    <3>2. m = g
      BY <2>1
    <3> HIDE DEF m, g
    <3> QED BY <3>1, <3>2
  <2>2. CASE reserve # 0
    <3>1. m.queues = queues /\ m.rotation = rotation
      BY <2>2
    <3> HIDE DEF m
    <3> QED BY <3>1
  <2> QED BY <2>1, <2>2
<1>2. LaneOK(qm, om) /\ LaneOK(qp, op) /\ Queued(qm) \cap Queued(qp) = {}
  BY <1>1 DEF Placed
<1>3. /\ qm = IF closed THEN mig.qs ELSE queues["main"]
      /\ om = IF closed THEN mig.order ELSE rotation["main"]
      /\ qp = IF closed THEN none ELSE queues["priority"]
      /\ op = IF closed THEN <<>> ELSE rotation["priority"]
  <2>1. CASE closed
    <3> DEFINE g == Migrated(queues, rotation)
    <3>1. mig.qs = g.queues["main"] /\ mig.order = g.rotation["main"]
      BY MigrationIs
    <3>2. g.queues["priority"] = none /\ g.rotation["priority"] = <<>>
      BY DEF Migrated
    <3>3. m = g
      BY <2>1
    <3> HIDE DEF m, g, mig, none
    <3> QED BY <2>1, <3>1, <3>2, <3>3
  <2>2. CASE reserve # 0
    BY <2>2
  <2>3. CASE reserve = 0 /\ rotation["priority"] = <<>>
    <3> DEFINE g == Migrated(queues, rotation)
    <3>1. g.queues["main"] = queues["main"] /\ g.rotation["main"] = rotation["main"]
      BY <2>3, NobodyMigrates
    <3>2. g.queues["priority"] = none /\ g.rotation["priority"] = <<>>
      BY DEF Migrated
    <3>3. queues["priority"] = none
      <4>1. queues["priority"] \in [Clients -> Seq(Requests)]
            /\ Elements(<<>>) = {c \in Clients : queues["priority"][c] # <<>>}
        BY <2>3 DEF Placed, LaneOK
      <4>2. \A c \in Clients : queues["priority"][c] = <<>>
        BY <4>1 DEF Elements
      <4> QED BY <4>1, <4>2
    <3>4. m = g
      BY <2>3
    <3> HIDE DEF m, g, none
    <3> QED BY <2>3, <3>1, <3>2, <3>3, <3>4
  <2> QED BY <2>1, <2>2, <2>3
<1> DEFINE roomP == {g \in Counts : p + g < reserve}
           pr == Loop(op, qp, live, roomP)
           gp == Granted(qp, op, live, reserve - p)
           b == Cardinality(gp)
           k == cap - NormalBusy(n + b, p + b, reserve)
           roomM == {g \in Counts : NormalBusy(n + b + g, p + b, reserve) < cap}
           mn == Loop(om, qm, live, roomM)
           rest == live \ gp
<1>4. Dispatched(queues, rotation, live, n, p, cap) =
        [queues   |-> [main     |-> QueuesAfter(qm, om, Popped(qm, om, rest, k)),
                       priority |-> QueuesAfter(qp, op, Popped(qp, op, live, reserve - p))],
         rotation |-> [main     |-> RotationAfter(qm, om, Popped(qm, om, rest, k)),
                       priority |-> RotationAfter(qp, op, Popped(qp, op, live, reserve - p))],
         main     |-> Granted(qm, om, rest, k),
         priority |-> gp]
  BY DEF Dispatched
<1> HIDE DEF m
<1>5. Counts \subseteq Nat
  BY FS_CardinalityType DEF Counts, LimiterAssumption
<1> HIDE DEF qm, om, qp, op
<1>6. roomP = {g \in Counts : g < reserve - p} /\ reserve - p \in Int
  <2>1. \A g \in Nat : p + g < reserve <=> g < reserve - p
    OBVIOUS
  <2>2. reserve - p \in Int
    OBVIOUS
  <2> QED BY <1>5, <2>1, <2>2
<1>7. /\ pr.order = RotationAfter(qp, op, Popped(qp, op, live, reserve - p))
      /\ pr.qs = QueuesAfter(qp, op, Popped(qp, op, live, reserve - p))
      /\ pr.got = gp
  <2> DEFINE j == reserve - p
  <2> HIDE DEF roomP, j
  <2>1. j \in Int /\ roomP = {g \in Counts : g < j}
    BY <1>6 DEF j
  <2> HIDE DEF pr
  <2>2. pr = Loop(op, qp, live, roomP)
    BY DEF pr
  <2> QED BY <1>2, <2>1, <2>2, LoopIs DEF j
<1>8. b \in Nat /\ gp \cap Queued(qm) = {}
  <2>1. b \in Nat
    BY <1>2, <1>6, LaneBounds
  <2>2. gp \subseteq live \cap Queued(qp)
    BY <1>2, <1>6, LaneStaysOK
  <2> HIDE DEF gp
  <2> QED BY <1>2, <2>1, <2>2
<1>9. TryDispatchLoop(live, n, p, cap) =
        [queues   |-> [main |-> mn.qs, priority |-> pr.qs],
         rotation |-> [main |-> mn.order, priority |-> pr.order],
         main     |-> mn.got,
         priority |-> pr.got]
  <2> DEFINE qm0 == IF closed THEN mig.qs ELSE queues["main"]
             om0 == IF closed THEN mig.order ELSE rotation["main"]
             qp0 == IF closed THEN none ELSE queues["priority"]
             op0 == IF closed THEN <<>> ELSE rotation["priority"]
             pr0 == Loop(op0, qp0, live, roomP)
             b0 == Cardinality(pr0.got)
             roomM0 == {g \in Counts : NormalBusy(n + b0 + g, p + b0, reserve) < cap}
             mn0 == Loop(om0, qm0, live, roomM0)
  <2>1. TryDispatchLoop(live, n, p, cap) =
          [queues   |-> [main |-> mn0.qs, priority |-> pr0.qs],
           rotation |-> [main |-> mn0.order, priority |-> pr0.order],
           main     |-> mn0.got,
           priority |-> pr0.got]
    BY DEF TryDispatchLoop
  <2>2. qm0 = qm /\ om0 = om /\ qp0 = qp /\ op0 = op
    BY <1>3
  <2> HIDE DEF qm0, om0, qp0, op0, roomP
  <2>3. pr0 = pr
    BY <2>2
  <2> HIDE DEF pr0, pr, gp
  <2>4. b0 = b
    BY <1>7, <2>3
  <2> HIDE DEF b0, b
  <2>5. roomM0 = roomM
    BY <2>4
  <2> HIDE DEF roomM0, roomM
  <2>6. mn0 = mn
    BY <2>2, <2>5
  <2> HIDE DEF mn0, mn
  <2> QED BY <2>1, <2>3, <2>6
<1> HIDE DEF pr, gp, b, closed, mig, none
<1>10. k \in Int /\ roomM = {g \in Counts : g < k}
  <2> DEFINE u == n + b
             v == p + b
             x == Lesser(v, reserve)
  <2>1. u \in Nat /\ v \in Nat
    BY <1>8
  <2>2. x \in Nat
    <3> HIDE DEF v
    <3> QED BY <2>1 DEF Lesser
  <2>3. k = cap - (u - x) /\ \A g : NormalBusy(n + b + g, p + b, reserve) = (n + b + g) - x
    BY DEF NormalBusy
  <2> HIDE DEF x, k
  <2>4. k \in Int
    BY <2>1, <2>2, <2>3
  <2>5. \A g \in Nat : (n + b + g) - x < cap <=> g < cap - ((n + b) - x)
    BY <1>8, <2>2
  <2>6. \A g \in Nat : NormalBusy(n + b + g, p + b, reserve) < cap <=> g < k
    BY <2>3, <2>5
  <2> QED BY <1>5, <2>4, <2>6
<1> HIDE DEF k, roomM
<1>11. /\ mn.order = RotationAfter(qm, om, Popped(qm, om, live, k))
       /\ mn.qs = QueuesAfter(qm, om, Popped(qm, om, live, k))
       /\ mn.got = Granted(qm, om, live, k)
  <2> HIDE DEF mn
  <2>1. mn = Loop(om, qm, live, roomM)
    BY DEF mn
  <2> QED BY <1>2, <1>10, <2>1, LoopIs
<1>12. Popped(qm, om, rest, k) = Popped(qm, om, live, k) /\ Granted(qm, om, rest, k) = Granted(qm, om, live, k)
  BY <1>2, <1>8, LiveElsewhere
<1> HIDE DEF mn, rest
<1> QED BY <1>4, <1>7, <1>9, <1>11, <1>12

\* In every state the limiter reaches the closed forms are the loop.
LEMMA ClosedFormHolds ==
  ASSUME LimiterAssumption, LoopAssumption, LimiterInv
  PROVE  ClosedFormIsTheLoop
<1>1. reserve \in Nat /\ Placed(queues, rotation)
  BY DEF LimiterInv, SlotInv, CountersOK, Booked
<1>2. ASSUME NEW n \in 0..MaxSlots, NEW p \in 0..MaxSlots, NEW cap \in 1..MaxSlots
      PROVE  Dispatched(queues, rotation, Live, n, p, cap) = TryDispatchLoop(Live, n, p, cap)
  <2>1. n \in Nat /\ p \in Nat /\ cap \in Nat
    BY DEF LoopAssumption
  <2> QED BY <1>1, <2>1, DispatchIsLoop
<1> QED BY <1>2 DEF ClosedFormIsTheLoop

\* What TurnsServe says of one turn.
LEMMA TurnOf ==
  ASSUME LimiterAssumption, NEW qs, NEW order, LaneOK(qs, order), NEW t \in Turns(qs, order)
  PROVE  /\ t = <<t[1], t[2]>> /\ t[1] \in Nat /\ t[2] \in Nat
         /\ t[2] \in DOMAIN order /\ order[t[2]] \in Clients
         /\ t[1] \in 1..Len(qs[order[t[2]]])
         /\ Future(qs, order, t) \in Requests
         /\ Future(qs, order, t) \in Elements(qs[order[t[2]]])
         /\ ClientOf[Future(qs, order, t)] = order[t[2]]
BY TurnsServe

\* What it says of one place in one queue.
LEMMA TurnAt ==
  ASSUME LimiterAssumption, NEW qs, NEW order, LaneOK(qs, order),
         NEW n \in DOMAIN order, NEW i \in 1..Len(qs[order[n]])
  PROVE  <<i, n>> \in Turns(qs, order) /\ Future(qs, order, <<i, n>>) = qs[order[n]][i]
BY TurnsServe

\* What the loop resolves before a call, with a slot for everybody, is what has an earlier turn.
LEMMA LoopAheadIs ==
  ASSUME LimiterAssumption, NEW qs, NEW order, LaneOK(qs, order), NEW live, NEW t \in Turns(qs, order),
         LiveTurns(qs, order, live) = Turns(qs, order), NEW r, r = Future(qs, order, t)
  PROVE  LoopAhead(order, qs, live, r) = Cardinality({u \in Turns(qs, order) : Earlier(u, t)})
<1> DEFINE f == LoopRounds(order, qs, live, Counts)
           N == MaxRounds(order)
           New(i) == r \in f[i].got \ f[i - 1].got
           last == CHOOSE i \in 1..N : New(i)
           k == Cardinality(Requests) + 1
<1>1. /\ N \in Nat /\ f[0] = [order |-> order, qs |-> qs, got |-> {}]
      /\ \A i \in 1..N : f[i] = IF f[i - 1].order = <<>> \/ Cardinality(f[i - 1].got) \notin Counts
                                THEN f[i - 1] ELSE Served(f[i - 1], live)
  <2>1. order \in Seq(Clients)
    BY DEF LaneOK
  <2> QED BY <2>1, RoundsRun
<1>2. Cardinality(Requests) \in Nat /\ k \in Int /\ Counts = {g \in Counts : g < k}
  <2>1. Cardinality(Requests) \in Nat
    BY FS_CardinalityType DEF LimiterAssumption
  <2> QED BY <2>1 DEF Counts
<1>3. LiveBefore(qs, order, live, t) = Cardinality({u \in Turns(qs, order) : Earlier(u, t)})
  BY DEF LiveBefore
<1>4. r \in f[N].got
  <2>1. f[N] = Loop(order, qs, live, Counts)
    BY DEF Loop
  <2> HIDE DEF f, k, N
  <2>2. f[N].got = Granted(qs, order, live, k)
    BY <1>2, <2>1, LoopIs
  <2>3. {u \in Turns(qs, order) : Earlier(u, t)} \subseteq Turns(qs, order)
    OBVIOUS
  <2>4. /\ Cardinality({u \in Turns(qs, order) : Earlier(u, t)}) \in Nat
        /\ Cardinality({u \in Turns(qs, order) : Earlier(u, t)}) <= Cardinality(Requests)
    BY <2>3, TurnsAreFew
  <2>5. t \in Popped(qs, order, live, k)
    BY <1>2, <1>3, <2>4 DEF Popped, LiveBefore, k
  <2> QED BY <2>2, <2>5 DEF Granted
<1> HIDE DEF k, N
<1>5. \E i \in 1..N : New(i)
  <2> DEFINE Had == {i \in 0..N : r \in f[i].got}
  <2> HIDE DEF f
  <2>1. N \in Had /\ Had \subseteq Nat
    BY <1>1, <1>4
  <2>2. PICK i \in Had : \A j \in Had : i <= j
    <3> HIDE DEF Had
    <3> QED BY <2>1, LeastNatural
  <2>3. i \in 0..N /\ r \in f[i].got
    OBVIOUS
  <2>4. i # 0
    BY <1>1, <2>3
  <2>5. i \in 1..N /\ i - 1 \in 0..N /\ ~(i <= i - 1)
    BY <1>1, <2>3, <2>4
  <2>6. i - 1 \notin Had
    <3> HIDE DEF Had
    <3> QED BY <2>2, <2>5
  <2>7. r \notin f[i - 1].got
    BY <2>5, <2>6
  <2> QED BY <2>3, <2>5, <2>7
<1>6. last \in 1..N /\ New(last)
  <2> HIDE DEF New
  <2> QED BY <1>5
<1> HIDE DEF last
<1> DEFINE s == f[last - 1]
<1>7. last - 1 \in 0..N
  BY <1>1, <1>6
<1>8. f[last] = Served(s, live) /\ s.order # <<>>
  <2> HIDE DEF f
  <2> QED BY <1>1, <1>6
<1>9. PICK pop : Reached(s, qs, order, live, pop)
  <2>1. \E pop : Walked(s, last - 1, qs, order, live, Counts, pop)
    BY <1>7, LoopWalks DEF N
  <2> QED BY <2>1 DEF Walked
<1>10. r \in f[last].got /\ r \notin s.got
  BY <1>6
<1> HIDE DEF s, f
<1>11. PICK v : Follows(qs, order, pop, v) /\ Reached(f[last], qs, order, live, pop \cup {v})
  <2>1. \E v : Follows(qs, order, pop, v) /\ Reached(Served(s, live), qs, order, live, pop \cup {v})
    BY <1>8, <1>9, RoundServes
  <2> QED BY <1>8, <2>1
<1>12. /\ s.got = Resolved(qs, order, live, pop) /\ pop \subseteq Turns(qs, order)
       /\ f[last].got = Resolved(qs, order, live, pop \cup {v})
  BY <1>9, <1>11 DEF Reached, InOrder
<1>13. v = t
  <2>1. PICK u \in (pop \cup {v}) \cap LiveTurns(qs, order, live) : r = Future(qs, order, u)
    BY <1>10, <1>12 DEF Resolved
  <2>2. u \notin pop
    BY <1>10, <1>12, <2>1 DEF Resolved
  <2>3. u = v /\ v \in Turns(qs, order)
    BY <1>11, <2>1, <2>2 DEF Follows
  <2> QED BY <2>1, <2>3, TurnsServe
<1>14. LiveBefore(qs, order, live, t) = Cardinality(s.got)
  BY <1>11, <1>12, <1>13, LiveBeforeNext
<1>15. LoopAhead(order, qs, live, r) = Cardinality(s.got)
  BY DEF LoopAhead, last, s, f, N
<1> QED BY <1>3, <1>14, <1>15

\* As many turns as k are earlier than that of call r.
Ranked(k, qs, order, r) ==
  \E t \in Turns(qs, order) :
    /\ Future(qs, order, t) = r
    /\ k = Cardinality({u \in Turns(qs, order) : Earlier(u, t)})

\* The lane (qs, order) is (q, o) with call r parked behind those of client c.
ParkedLast(q, o, c, r, qs, order) ==
  /\ qs = [q EXCEPT ![c] = Append(@, r)]
  /\ order = IF q[c] = <<>> THEN Append(o, c) ELSE o

\* The turns earlier than that of a call at the end of its client's queue, counted by
\* client: all of its own client's, and of each other's those it stands behind.
LEMMA AheadCounts ==
  ASSUME LimiterAssumption, NEW l, NEW q, q = queues[l], NEW o, o = rotation[l], LaneOK(q, o),
         NEW c \in Clients, NEW r \in Requests, NEW qs, NEW order,
         ParkedLast(q, o, c, r, qs, order), LaneOK(qs, order)
  PROVE  Ranked(AheadOf(c, l), qs, order, r)
<1> DEFINE own == Len(q[c])
           at(n) == \E m \in DOMAIN o : o[m] = c /\ m <= n
           turns(n) == IF at(n) THEN own ELSE own + 1
           others == {n \in DOMAIN o : o[n] # c}
           ahead(n) == Lesser(Len(q[o[n]]), turns(n))
           pairs == {x \in others \X (1..Cardinality(Requests)) : x[2] <= ahead(x[1])}
<1>1. AheadOf(c, l) = own + Cardinality(pairs)
  BY DEF AheadOf
<1>2. /\ o \in Seq(Clients) /\ DOMAIN o = 1..Len(o) /\ Len(o) \in Nat /\ Once(o)
      /\ Elements(o) = {d \in Clients : q[d] # <<>>}
      /\ \A n \in DOMAIN o : n \in Nat /\ o[n] \in Clients
      /\ q \in [Clients -> Seq(Requests)]
      /\ \A d \in Clients : q[d] \in Seq(Requests) /\ Len(q[d]) \in Nat /\ Once(q[d])
  <2>1. q \in [Clients -> Seq(Requests)] /\ o \in Seq(Clients)
    BY DEF LaneOK
  <2>2. \A d \in Clients : q[d] \in Seq(Requests)
    BY <2>1
  <2>3. ASSUME NEW d \in Clients PROVE Len(q[d]) \in Nat
    <3> DEFINE s == q[d]
    <3>1. s \in Seq(Requests)
      BY <2>2
    <3> HIDE DEF s
    <3>2. Len(s) \in Nat
      BY <3>1
    <3> QED BY <3>2 DEF s
  <2>4. Once(o) /\ Elements(o) = {d \in Clients : q[d] # <<>>} /\ \A d \in Clients : Once(q[d])
    BY DEF LaneOK
  <2>5. DOMAIN o = 1..Len(o) /\ Len(o) \in Nat /\ \A n \in DOMAIN o : n \in Nat /\ o[n] \in Clients
    BY <2>1
  <2> QED BY <2>1, <2>2, <2>3, <2>4, <2>5
<1>3. Cardinality(Requests) \in Nat /\ IsFiniteSet(Requests)
  BY FS_CardinalityType DEF LimiterAssumption
<1>4. ASSUME NEW d \in Clients PROVE Len(q[d]) <= Cardinality(Requests)
  <2> DEFINE s == q[d]
             n == Len(s)
  <2>1. s \in Seq(Requests) /\ Once(s)
    BY <1>2
  <2> HIDE DEF s
  <2>2. n \in Nat /\ DOMAIN s = 1..n /\ s \in [1..n -> Requests]
    BY <2>1
  <2> HIDE DEF n
  <2>3. s \in Injection(1..n, Requests)
    BY <2>1, <2>2 DEF Injection, IsInjective, Once
  <2>4. Cardinality(1..n) <= Cardinality(Requests)
    BY <1>3, <2>3, FS_Injection DEF ExistsInjection
  <2>5. Cardinality(1..n) = n
    <3>1. 1 \in Int /\ n \in Int
      BY <2>2
    <3>2. Cardinality(1..n) = IF 1 > n THEN 0 ELSE n - 1 + 1
      BY <3>1, FS_Interval
    <3> QED BY <2>2, <3>2
  <2> QED BY <2>4, <2>5 DEF s, n
<1>5. own \in Nat /\ q[c] \in Seq(Requests) /\ qs[c] = Append(q[c], r)
      /\ \A d \in Clients : d # c => qs[d] = q[d]
  BY <1>2 DEF ParkedLast
<1>6. Len(qs[c]) = own + 1 /\ qs[c][own + 1] = r /\ qs[c] # <<>>
  <2> DEFINE s == q[c]
  <2>1. s \in Seq(Requests) /\ qs[c] = Append(s, r)
    BY <1>5
  <2> HIDE DEF s
  <2>2. Len(qs[c]) = Len(s) + 1 /\ qs[c][Len(s) + 1] = r
    BY <2>1
  <2>3. qs[c] # <<>>
    <3>1. Len(s) \in Nat /\ Len(<<>>) = 0
      BY <2>1
    <3> QED BY <2>2, <3>1
  <2> QED BY <2>2, <2>3 DEF s
<1>7. PICK z \in DOMAIN order : order[z] = c
  <2>1. c \in Elements(order)
    BY <1>6 DEF LaneOK
  <2> QED BY <2>1 DEF Elements
<1>8. /\ order \in Seq(Clients) /\ Once(order) /\ z \in Nat
      /\ \A n \in DOMAIN order : n \in Nat /\ (order[n] = c => n = z)
  <2>1. order \in Seq(Clients) /\ Once(order)
    BY DEF LaneOK
  <2>2. \A n \in DOMAIN order : n \in Nat
    BY <2>1
  <2> QED BY <1>7, <2>1, <2>2 DEF Once
<1> DEFINE t == <<own + 1, z>>
           T == Turns(qs, order)
<1>9. t \in T /\ Future(qs, order, t) = r
  <2>1. own + 1 \in 1..Len(qs[order[z]])
    BY <1>5, <1>6, <1>7
  <2> HIDE DEF own
  <2>2. <<own + 1, z>> \in T /\ Future(qs, order, <<own + 1, z>>) = qs[order[z]][own + 1]
    BY <1>7, <2>1, TurnAt
  <2> QED BY <1>6, <1>7, <2>2
<1>10. /\ q[c] # <<>> => order = o
       /\ q[c] = <<>> => /\ DOMAIN order = 1..(Len(o) + 1) /\ own = 0
                         /\ \A n \in 1..Len(o) : order[n] = o[n]
                         /\ order[Len(o) + 1] = c
                         /\ c \notin Elements(o)
  <2>1. ASSUME q[c] = <<>> PROVE /\ DOMAIN order = 1..(Len(o) + 1) /\ order[Len(o) + 1] = c
                                 /\ \A n \in 1..Len(o) : order[n] = o[n]
    <3>1. order = Append(o, c) /\ o \in Seq(Clients)
      BY <1>2, <2>1 DEF ParkedLast
    <3> QED BY <3>1
  <2>2. q[c] = <<>> => own = 0
    OBVIOUS
  <2>3. q[c] = <<>> => c \notin Elements(o)
    BY <1>2
  <2>4. q[c] # <<>> => order = o
    BY DEF ParkedLast
  <2> QED BY <2>1, <2>2, <2>3, <2>4
<1>11. q[c] = <<>> => z = Len(o) + 1
  <2>1. q[c] = <<>> => Len(o) + 1 \in DOMAIN order
    BY <1>2, <1>10
  <2> QED BY <1>8, <1>10, <2>1
<1>12. \A n : n \in others <=> n \in DOMAIN order /\ n # z
  <2> SUFFICES ASSUME NEW n PROVE n \in others <=> n \in DOMAIN order /\ n # z
    OBVIOUS
  <2>1. CASE q[c] # <<>>
    BY <1>7, <1>8, <1>10, <2>1
  <2>2. CASE q[c] = <<>>
    <3>1. n \in DOMAIN o <=> n \in DOMAIN order /\ n # Len(o) + 1
      <4> DEFINE k == Len(o)
      <4>1. k \in Nat /\ DOMAIN o = 1..k /\ DOMAIN order = 1..(k + 1)
        BY <1>2, <1>10, <2>2
      <4> HIDE DEF k
      <4>2. n \in 1..k <=> n \in 1..(k + 1) /\ n # k + 1
        BY <4>1
      <4> QED BY <4>1, <4>2 DEF k
    <3>2. n \in DOMAIN o => o[n] # c
      BY <1>10, <2>2 DEF Elements
    <3> QED BY <1>11, <2>2, <3>1, <3>2
  <2> QED BY <2>1, <2>2
<1>13. ASSUME NEW n \in others
       PROVE  /\ n \in Nat /\ n \in DOMAIN order /\ order[n] = o[n] /\ o[n] \in Clients /\ n # z
              /\ qs[order[n]] = q[o[n]] /\ (at(n) <=> z <= n)
  <2>1. n \in DOMAIN order /\ n # z /\ n \in DOMAIN o /\ o[n] # c
    BY <1>12
  <2>2. n \in Nat /\ o[n] \in Clients
    BY <1>2, <2>1
  <2>3. order[n] = o[n]
    <3>1. n \in 1..Len(o)
      BY <1>2, <2>1
    <3> QED BY <1>10, <3>1
  <2>4. qs[order[n]] = q[o[n]]
    BY <1>5, <2>1, <2>2, <2>3
  <2>5. at(n) <=> z <= n
    <3>1. CASE q[c] # <<>>
      <4>1. order = o /\ z \in DOMAIN o /\ o[z] = c /\ \A m \in DOMAIN o : o[m] = c => m = z
        BY <1>7, <1>8, <1>10, <3>1
      <4> QED BY <4>1
    <3>2. CASE q[c] = <<>>
      <4>1. ~at(n)
        BY <1>10, <3>2 DEF Elements
      <4>2. z = Len(o) + 1 /\ n \in 1..Len(o) /\ Len(o) \in Nat
        BY <1>2, <1>11, <2>1, <3>2
      <4>3. ~(z <= n)
        BY <4>2
      <4> QED BY <4>1, <4>3
    <3> QED BY <3>1, <3>2
  <2> QED BY <2>1, <2>2, <2>3, <2>4, <2>5
<1>14. ASSUME NEW n \in others, NEW i \in Nat
       PROVE  Earlier(<<i, n>>, t) <=> i <= turns(n)
  <2>1. n \in Nat /\ n # z /\ (at(n) <=> z <= n)
    BY <1>13
  <2>2. Earlier(<<i, n>>, t) <=> i < own + 1 \/ (i = own + 1 /\ n < z)
    BY DEF Earlier
  <2>3. n \in Nat /\ n # z
    BY <1>13
  <2>4. at(n) <=> z <= n
    BY <1>13
  <2> HIDE DEF at, own
  <2> QED BY <1>5, <1>8, <2>2, <2>3, <2>4
<1> DEFINE B == {u \in T : Earlier(u, t)}
           mine == {u \in B : u[2] = z}
           theirs == {u \in B : u[2] # z}
<1>15. /\ IsFiniteSet(B) /\ IsFiniteSet(mine) /\ IsFiniteSet(theirs)
       /\ B = mine \cup theirs /\ mine \cap theirs = {}
  <2>1. IsFiniteSet(T) /\ B \subseteq T
    BY TurnsServe
  <2> HIDE DEF T
  <2>2. IsFiniteSet(B) /\ mine \subseteq B /\ theirs \subseteq B
    BY <2>1, FS_Subset
  <2>3. B = mine \cup theirs /\ mine \cap theirs = {}
    OBVIOUS
  <2> HIDE DEF B, mine, theirs
  <2> QED BY <2>2, <2>3, FS_Subset
<1>16. Cardinality(mine) = own
  <2> DEFINE g == [i \in 1..own |-> <<i, z>>]
  <2>1. ASSUME NEW i \in 1..own PROVE <<i, z>> \in mine
    <3>1. i \in 1..Len(qs[order[z]]) /\ i < own + 1 /\ i \in Nat
      BY <1>5, <1>6, <1>7
    <3>2. <<i, z>> \in T
      BY <1>7, <3>1, TurnAt
    <3>3. Earlier(<<i, z>>, t)
      BY <3>1 DEF Earlier
    <3> HIDE DEF T, t
    <3> QED BY <3>2, <3>3
  <2>2. ASSUME NEW u \in mine PROVE \E i \in 1..own : u = <<i, z>>
    <3>1. u \in T /\ Earlier(u, t) /\ u[2] = z
      OBVIOUS
    <3>2. u = <<u[1], u[2]>> /\ u[1] \in 1..Len(qs[order[u[2]]])
      BY <3>1, TurnOf
    <3>3. u[1] \in 1..(own + 1)
      BY <1>6, <1>7, <3>1, <3>2
    <3>4. u[1] < own + 1 \/ (u[1] = own + 1 /\ u[2] < z)
      BY <3>1 DEF Earlier
    <3>5. u[1] \in 1..own
      <4> HIDE DEF own
      <4> QED BY <1>5, <1>8, <3>1, <3>3, <3>4
    <3> QED BY <3>1, <3>2, <3>5
  <2> HIDE DEF mine
  <2>3. g \in Bijection(1..own, mine)
    <3>1. g \in [1..own -> mine] /\ \A i \in 1..own : g[i] = <<i, z>>
      <4> HIDE DEF own
      <4> QED BY <2>1
    <3>2. \A i, j \in 1..own : g[i] = g[j] => i = j
      <4> HIDE DEF g, own
      <4> QED BY <3>1
    <3>3. \A u \in mine : \E i \in 1..own : g[i] = u
      <4> HIDE DEF g, own
      <4> QED BY <2>2, <3>1
    <3> HIDE DEF g, own
    <3> QED BY <3>1, <3>2, <3>3 DEF Bijection, Injection, Surjection, IsInjective
  <2> HIDE DEF g, own
  <2>4. IsFiniteSet(1..own) /\ Cardinality(1..own) = own
    <3>1. 1 \in Int /\ own \in Int
      BY <1>5
    <3>2. IsFiniteSet(1..own) /\ Cardinality(1..own) = IF 1 > own THEN 0 ELSE own - 1 + 1
      BY <3>1, FS_Interval
    <3> QED BY <1>5, <3>2
  <2>5. ExistsBijection(1..own, mine)
    BY <2>3 DEF ExistsBijection
  <2> QED BY <2>4, <2>5, FS_Bijection
<1>17. Cardinality(theirs) = Cardinality(pairs)
  <2> DEFINE g == [u \in theirs |-> <<u[2], u[1]>>]
  <2>1. ASSUME NEW u \in theirs
        PROVE  u = <<u[1], u[2]>> /\ <<u[2], u[1]>> \in pairs
    <3>1. u \in T /\ Earlier(u, t) /\ u[2] # z
      OBVIOUS
    <3>2. /\ u = <<u[1], u[2]>> /\ u[1] \in Nat /\ u[2] \in DOMAIN order
          /\ u[1] \in 1..Len(qs[order[u[2]]])
      BY <3>1, TurnOf
    <3>3. u[2] \in others
      BY <1>12, <3>1, <3>2
    <3> HIDE DEF others, T, t, turns
    <3>4. qs[order[u[2]]] = q[o[u[2]]] /\ o[u[2]] \in Clients
      BY <1>13, <3>3
    <3>5. u[1] <= turns(u[2])
      BY <1>14, <3>1, <3>2, <3>3
    <3>6. u[1] <= Len(q[o[u[2]]]) /\ u[1] \in 1..Cardinality(Requests)
      <4>1. /\ Len(q[o[u[2]]]) \in Nat /\ Len(q[o[u[2]]]) <= Cardinality(Requests)
            /\ u[1] \in 1..Len(q[o[u[2]]])
        BY <1>2, <1>4, <3>2, <3>4
      <4> QED BY <1>3, <4>1
    <3>7. u[1] <= ahead(u[2])
      BY <3>5, <3>6 DEF Lesser
    <3> HIDE DEF ahead
    <3> QED BY <3>2, <3>3, <3>6, <3>7
  <2>2. ASSUME NEW x \in pairs PROVE \E u \in theirs : <<u[2], u[1]>> = x
    <3>1. x = <<x[1], x[2]>> /\ x[1] \in others /\ x[2] \in 1..Cardinality(Requests)
          /\ x[2] <= ahead(x[1])
      OBVIOUS
    <3> HIDE DEF others, T, t, turns, pairs
    <3>2. /\ x[1] \in DOMAIN order /\ x[1] # z /\ qs[order[x[1]]] = q[o[x[1]]]
          /\ o[x[1]] \in Clients
      BY <1>13, <3>1
    <3>3. x[2] \in Nat /\ x[2] >= 1
      BY <1>3, <3>1
    <3>4. x[2] <= Len(q[o[x[1]]]) /\ x[2] <= turns(x[1])
      <4>1. Len(q[o[x[1]]]) \in Nat /\ turns(x[1]) \in Nat
        BY <1>2, <1>5, <3>2 DEF turns
      <4> QED BY <3>1, <3>3, <4>1 DEF Lesser
    <3>5. x[2] \in 1..Len(qs[order[x[1]]])
      <4> DEFINE n == Len(q[o[x[1]]])
      <4>1. n \in Nat
        BY <1>2, <3>2
      <4>2. x[2] <= n
        BY <3>4
      <4> HIDE DEF n
      <4>3. x[2] \in 1..n
        BY <3>3, <4>1, <4>2
      <4> QED BY <3>2, <4>3 DEF n
    <3>6. <<x[2], x[1]>> \in T
      BY <3>2, <3>5, TurnAt DEF T
    <3>7. Earlier(<<x[2], x[1]>>, t)
      BY <1>14, <3>1, <3>3, <3>4
    <3>8. <<x[2], x[1]>> \in theirs
      BY <3>2, <3>6, <3>7
    <3> HIDE DEF theirs
    <3> QED BY <3>1, <3>8
  <2> HIDE DEF theirs, pairs
  <2>3. g \in [theirs -> pairs] /\ \A u \in theirs : g[u] = <<u[2], u[1]>>
    BY <2>1
  <2> HIDE DEF g
  <2>4. \A u, v \in theirs : g[u] = g[v] => u = v
    <3> SUFFICES ASSUME NEW u \in theirs, NEW v \in theirs, g[u] = g[v] PROVE u = v
      OBVIOUS
    <3>1. u = <<u[1], u[2]>> /\ v = <<v[1], v[2]>> /\ <<u[2], u[1]>> = <<v[2], v[1]>>
      BY <2>1, <2>3
    <3>2. u[1] = v[1] /\ u[2] = v[2]
      BY <3>1
    <3> QED BY <3>1, <3>2
  <2>5. \A x \in pairs : \E u \in theirs : g[u] = x
    BY <2>2, <2>3
  <2>6. g \in Bijection(theirs, pairs)
    BY <2>3, <2>4, <2>5 DEF Bijection, Injection, Surjection, IsInjective
  <2>7. ExistsBijection(theirs, pairs)
    BY <2>6 DEF ExistsBijection
  <2> QED BY <1>15, <2>7, FS_Bijection
<1>18. Cardinality(B) = own + Cardinality(pairs)
  <2> HIDE DEF B, mine, theirs, own, pairs
  <2>1. Cardinality(B) = Cardinality(mine) + Cardinality(theirs) - Cardinality(mine \cap theirs)
    BY <1>15, FS_Union
  <2>2. Cardinality(mine \cap theirs) = 0
    BY <1>15, FS_EmptySet
  <2>3. Cardinality(mine) \in Nat /\ Cardinality(theirs) \in Nat
    BY <1>15, FS_CardinalityType
  <2> QED BY <1>16, <1>17, <2>1, <2>2, <2>3
<1>19. AheadOf(c, l) = Cardinality({u \in T : Earlier(u, t)})
  BY <1>1, <1>18
<1> HIDE DEF t
<1> QED BY <1>9, <1>19 DEF Ranked

\* In every state the limiter reaches the rank of an arrival is the loop's.
LEMMA RankIsExact ==
  ASSUME LimiterAssumption, LimiterInv
  PROVE  AheadOfIsExact
<1> SUFFICES ASSUME NEW r \in Requests, NEW l \in Lanes, status[r] = "idle", cancelled = {}
             PROVE  LET c  == ClientOf[r]
                        qs == [queues[l] EXCEPT ![c] = Append(@, r)]
                        order == IF queues[l][c] = <<>> THEN Append(rotation[l], c) ELSE rotation[l]
                    IN  AheadOf(c, l) = LoopAhead(order, qs, Live \cup {r}, r)
  BY DEF AheadOfIsExact
<1> DEFINE c == ClientOf[r]
           q == queues[l]
           o == rotation[l]
           qs == [q EXCEPT ![c] = Append(@, r)]
           order == IF q[c] = <<>> THEN Append(o, c) ELSE o
<1> DEFINE m == Added(queues, rotation, l, r)
<1>1. /\ Placed(queues, rotation) /\ r \notin InQueues(queues) /\ c \in Clients
      /\ \A s \in InQueues(queues) : s \in Live
  <2>1. Placed(queues, rotation)
        /\ InQueues(queues) \subseteq {s \in Requests : status[s] = "parked"}
    BY DEF LimiterInv, Booked
  <2> QED BY <2>1 DEF Live, LimiterAssumption
<1>2. LaneOK(q, o) /\ queues \in [Lanes -> [Clients -> Seq(Requests)]] /\ rotation \in [Lanes -> Seq(Clients)]
      /\ q \in [Clients -> Seq(Requests)]
  BY <1>1 DEF Placed, Lanes
<1>3. m.queues[l] = qs /\ m.rotation[l] = order
  BY <1>1, <1>2 DEF Added
<1>4. Placed(m.queues, m.rotation) /\ InQueues(m.queues) = InQueues(queues) \cup {r}
  <2> HIDE DEF m
  <2> QED BY <1>1, AddingPlaces DEF m
<1> HIDE DEF m
<1>5. LaneOK(qs, order) /\ Queued(qs) \subseteq InQueues(m.queues)
  <2> HIDE DEF q, o, qs, order, c
  <2>1. LaneOK(m.queues[l], m.rotation[l])
    BY <1>4 DEF Placed, Lanes
  <2>2. Queued(m.queues[l]) \subseteq InQueues(m.queues)
    BY DEF InQueues, Lanes
  <2> QED BY <1>3, <2>1, <2>2
<1>6. LiveTurns(qs, order, Live \cup {r}) = Turns(qs, order)
  <2> HIDE DEF q, o, qs, order, c
  <2>1. ASSUME NEW t \in Turns(qs, order) PROVE Future(qs, order, t) \in Live \cup {r}
    <3>1. Future(qs, order, t) \in Queued(qs)
      BY <1>5, TurnOf DEF Queued
    <3> QED BY <1>1, <1>4, <1>5, <3>1
  <2> QED BY <2>1 DEF LiveTurns
<1>7. Ranked(AheadOf(c, l), qs, order, r)
  <2>1. q = queues[l] /\ o = rotation[l] /\ ParkedLast(q, o, c, r, qs, order)
    BY DEF ParkedLast
  <2> HIDE DEF q, o, qs, order, c
  <2> QED BY <1>1, <1>2, <1>5, <2>1, AheadCounts
<1> HIDE DEF q, o, qs, order, c
<1>8. PICK t \in Turns(qs, order) :
        /\ Future(qs, order, t) = r
        /\ AheadOf(c, l) = Cardinality({u \in Turns(qs, order) : Earlier(u, t)})
  BY <1>7 DEF Ranked
<1> DEFINE live == Live \cup {r}
<1>9. LiveTurns(qs, order, live) = Turns(qs, order) /\ r = Future(qs, order, t)
  BY <1>6, <1>8
<1> HIDE DEF live
<1>10. LoopAhead(order, qs, live, r) = Cardinality({u \in Turns(qs, order) : Earlier(u, t)})
  BY <1>5, <1>8, <1>9, LoopAheadIs
<1>11. AheadOf(c, l) = LoopAhead(order, qs, live, r)
  BY <1>8, <1>10
<1> QED BY <1>11 DEF live, q, o, qs, order, c

\* What the limiter computes without its loop is what the loop of _try_dispatch and
\* _next_waiter does: the calls a dispatch resolves, the queues and rotations it leaves, and
\* the rank _ahead_of refuses an arrival by (limiter.py).
THEOREM LoopIsKeptHolds == Spec => []LoopIsKept
<1>1. LimiterInv => LoopIsKept
  BY LimiterAssumption, LoopAssumption, ClosedFormHolds, RankIsExact DEF LoopIsKept
<1>2. Init => LimiterInv
  BY LimiterAssumption, InitIsGood
<1>3. LimiterInv /\ [Next]_vars => LimiterInv'
  BY LimiterAssumption, StepIsGood
<1> QED BY <1>1, <1>2, <1>3, PTL DEF Spec
=============================================================================
