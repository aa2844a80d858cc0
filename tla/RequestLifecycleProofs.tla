----------------------- MODULE RequestLifecycleProofs -----------------------
(***************************************************************************)
(* The proof that what an operator reads of the requests in the proxy is   *)
(* true (RequestLifecycle).  A client's entry is described by how many     *)
(* units it keeps of each counter, nought of each when it is not kept, and *)
(* the process's counters are the number of the clients' units.            *)
(***************************************************************************)
EXTENDS RequestLifecycle, FiniteSetTheorems, TLAPS

Counts == [Clients -> Nat]

\* An entry is there with these counts, or was pruned with all of them nought.
Kept(E, q, i, h) ==
  \/ E = {[queued |-> q, inflight |-> i, hold |-> h]}
  \/ E = {} /\ q = 0 /\ i = 0 /\ h = 0

\* The units of a counter, client by client.
Units(n) == {u \in Clients \X Nat : 1 <= u[2] /\ u[2] <= n[u[1]]}

Of(S, c) == {r \in S : ClientOf[r] = c}
In(S, r) == IF r \in S THEN 1 ELSE 0

Busy == {r \in Calls : pc[r] \in {"working", "stopping"}}
Emitting == {r \in Calls : hold[r] \in {"open", "retry"}}

\* The clients' counts q, i and h are those of their entries; they cover the
\* calls there are, and their units are the process's counters.
Tallied(q, i, h) ==
  /\ \A c \in Clients :
       /\ Kept(entry[c], q[c], i[c], h[c])
       /\ Cardinality(Of(marked, c)) <= q[c]
       /\ Cardinality(Of(Busy, c)) <= i[c]
       /\ Cardinality(Of(Registered, c)) <= h[c]
  /\ IsFiniteSet(Units(q)) /\ queued = Cardinality(Units(q))
  /\ IsFiniteSet(Units(i)) /\ inflight = Cardinality(Units(i))

\* The stages of a call and what its stream may be in them.
StageOK(r) ==
  /\ pc[r] \in {"out", "arriving", "opening"} => hold[r] = "none"
  /\ pc[r] = "paced" => hold[r] = "open" /\ "pace" \in Deferrals
  /\ pc[r] \in {"serving", "waiting"} => hold[r] \in {"none", "open"}
  /\ pc[r] = "working" => hold[r] \in {"none", "open", "retry"}
  /\ pc[r] \in {"expired", "stopping", "ending"} => hold[r] = "stopped"
  /\ r \in marked => pc[r] \in {"opening", "waiting"}
  /\ QueueEnabled /\ pc[r] \in {"opening", "waiting"} => r \in marked

Typed ==
  /\ mode \in Modes /\ closed \in BOOLEAN
  /\ admitted \in Nat /\ queued \in Nat /\ inflight \in Nat /\ emitters \in Nat
  /\ entry \in [Clients -> SUBSET Tally]
  /\ pc \in [Calls -> {"out", "arriving", "paced", "serving", "expired", "opening", "waiting", "working", "stopping", "ending"}]
  /\ marked \subseteq Calls
  /\ hold \in [Calls -> {"none", "open", "retry", "stopped"}]

IInv ==
  /\ Typed
  /\ \A r \in Calls : StageOK(r)
  /\ admitted = Cardinality(Core)
  /\ emitters >= Cardinality(Emitting)
  /\ queued >= Cardinality(marked)
  /\ inflight >= Cardinality(Busy)
  /\ \E q, i, h \in Counts : Tallied(q, i, h)

\* One wait before routing at most is streamed.
OneDeferral == Deferrals # {"pace", "share"}

EmitInv == IInv /\ emitters = Cardinality(Emitting)

USE LifecycleAssumption DEF Counts, Tally

-----------------------------------------------------------------------------
(* Counting calls and units. *)

LEMMA SomeCalls ==
  ASSUME NEW S, S \subseteq Calls
  PROVE  IsFiniteSet(S) /\ Cardinality(S) \in Nat
BY FS_Subset, FS_CardinalityType

\* A set of calls of which only r moves in or out.
LEMMA CallMoves ==
  ASSUME NEW S, S \subseteq Calls, NEW T, T \subseteq Calls, NEW r \in Calls,
         \A s \in Calls \ {r} : s \in S <=> s \in T
  PROVE  Cardinality(T) = Cardinality(S) + In(T, r) - In(S, r)
<1>1. IsFiniteSet(S) /\ IsFiniteSet(T) /\ Cardinality(S) \in Nat /\ Cardinality(T) \in Nat
  BY SomeCalls
<1>2. CASE r \in S <=> r \in T
  <2>1. S = T
    BY <1>2
  <2> QED BY <2>1, <1>1, <1>2 DEF In
<1>3. CASE r \in S /\ r \notin T
  <2>1. T = S \ {r}
    BY <1>3
  <2>2. Cardinality(S \ {r}) = Cardinality(S) - 1
    BY <1>1, <1>3, FS_RemoveElement
  <2> QED BY <2>1, <2>2, <1>1, <1>3 DEF In
<1>4. CASE r \notin S /\ r \in T
  <2>1. T = S \cup {r}
    BY <1>4
  <2>2. Cardinality(S \cup {r}) = Cardinality(S) + 1
    BY <1>1, <1>4, FS_AddElement
  <2> QED BY <2>1, <2>2, <1>1, <1>4 DEF In
<1> QED BY <1>2, <1>3, <1>4

\* The same of the calls of one client.
LEMMA ClientMoves ==
  ASSUME NEW S, S \subseteq Calls, NEW T, T \subseteq Calls, NEW r \in Calls,
         \A s \in Calls \ {r} : s \in S <=> s \in T
  PROVE  /\ Cardinality(Of(T, ClientOf[r])) = Cardinality(Of(S, ClientOf[r])) + In(T, r) - In(S, r)
         /\ \A c \in Clients \ {ClientOf[r]} : Cardinality(Of(T, c)) = Cardinality(Of(S, c))
<1>1. \A c : Of(S, c) \subseteq Calls /\ Of(T, c) \subseteq Calls
  BY DEF Of
<1>2. Cardinality(Of(T, ClientOf[r])) = Cardinality(Of(S, ClientOf[r])) + In(T, r) - In(S, r)
  <2>1. \A s \in Calls \ {r} : s \in Of(S, ClientOf[r]) <=> s \in Of(T, ClientOf[r])
    BY DEF Of
  <2>2. Cardinality(Of(T, ClientOf[r])) = Cardinality(Of(S, ClientOf[r]))
          + In(Of(T, ClientOf[r]), r) - In(Of(S, ClientOf[r]), r)
    BY <1>1, <2>1, CallMoves
  <2>3. In(Of(T, ClientOf[r]), r) = In(T, r) /\ In(Of(S, ClientOf[r]), r) = In(S, r)
    BY DEF In, Of
  <2> QED BY <2>2, <2>3
<1>3. ASSUME NEW c \in Clients \ {ClientOf[r]}
      PROVE  Of(T, c) = Of(S, c)
  BY <1>3 DEF Of
<1> QED BY <1>2, <1>3

\* The units of the entries' counts.
LEMMA UnitsOfEntries ==
  ASSUME NEW q \in Counts, NEW i \in Counts, NEW h \in Counts,
         \A c \in Clients : Kept(entry[c], q[c], i[c], h[c])
  PROVE  QueuedUnits = Units(q) /\ InflightUnits = Units(i)
<1>1. ASSUME NEW c \in Clients
      PROVE  /\ UNION {{c} \X (1..e.queued) : e \in entry[c]} = {c} \X (1..q[c])
             /\ UNION {{c} \X (1..e.inflight) : e \in entry[c]} = {c} \X (1..i[c])
  <2> DEFINE E == [queued |-> q[c], inflight |-> i[c], hold |-> h[c]]
  <2>1. CASE entry[c] = {E}
    BY <2>1
  <2>2. CASE entry[c] = {} /\ q[c] = 0 /\ i[c] = 0
    <3>1. 1..q[c] = {} /\ 1..i[c] = {}
      BY <2>2
    <3> QED BY <3>1, <2>2
  <2> QED BY <2>1, <2>2 DEF Kept
<1>2. QueuedUnits = UNION {{c} \X (1..q[c]) : c \in Clients}
  BY <1>1 DEF QueuedUnits
<1>3. InflightUnits = UNION {{c} \X (1..i[c]) : c \in Clients}
  BY <1>1 DEF InflightUnits
<1>4. ASSUME NEW n \in Counts
      PROVE  UNION {{c} \X (1..n[c]) : c \in Clients} = Units(n)
  <2>1. \A u : u \in UNION {{c} \X (1..n[c]) : c \in Clients} <=> u \in Units(n)
    BY DEF Units
  <2> QED BY <2>1
<1> QED BY <1>2, <1>3, <1>4

\* One client's count goes up or down by one, or stays.
LEMMA UnitMoves ==
  ASSUME NEW n \in Counts, NEW c \in Clients, NEW k \in -1..1, n[c] + k \in Nat, NEW m \in Counts,
         m[c] = n[c] + k, \A d \in Clients \ {c} : m[d] = n[d], IsFiniteSet(Units(n))
  PROVE  /\ IsFiniteSet(Units(m)) 
         /\ Cardinality(Units(m)) = Cardinality(Units(n)) + k
<1>0. Cardinality(Units(n)) \in Nat
  BY FS_CardinalityType
<1>1. CASE k = 0
  <2>1. m = n
    BY <1>1
  <2> QED BY <2>1, <1>1, <1>0
<1>2. CASE k = 1
  <2> DEFINE u == <<c, n[c] + 1>>
  <2>1. u \notin Units(n)
    BY DEF Units
  <2>2. Units(m) = Units(n) \cup {u}
    BY <1>2 DEF Units
  <2>3. IsFiniteSet(Units(n) \cup {u}) /\ Cardinality(Units(n) \cup {u}) = Cardinality(Units(n)) + 1
    BY <2>1, FS_AddElement
  <2> QED BY <2>2, <2>3, <1>2
<1>3. CASE k = -1
  <2> DEFINE u == <<c, n[c]>>
  <2>1. u \in Units(n)
    BY <1>3 DEF Units
  <2>2. Units(m) = Units(n) \ {u}
    BY <1>3 DEF Units
  <2>3. IsFiniteSet(Units(n) \ {u}) /\ Cardinality(Units(n) \ {u}) = Cardinality(Units(n)) - 1
    BY <2>1, FS_RemoveElement
  <2> QED BY <2>2, <2>3, <1>3, <1>0
<1> QED BY <1>1, <1>2, <1>3

-----------------------------------------------------------------------------
(* What a step does to the books. *)

\* The counters of r's client and of the process move together; a call that
\* moves them down, or moves them without a claim of its own, finds them there.
Shifts(r, dq, di, dh) ==
  /\ queued' = queued + dq /\ inflight' = inflight + di
  /\ entry' \in [Clients -> SUBSET Tally]
  /\ \A c \in Clients \ {ClientOf[r]} : entry'[c] = entry[c]
  /\ \A q, i, h \in Nat :
       Kept(entry[ClientOf[r]], q, i, h) /\ h >= In(Registered, r)
         /\ q + dq \in Nat /\ i + di \in Nat /\ h + dh \in Nat
       => Kept(entry'[ClientOf[r]], q + dq, i + di, h + dh)

LEMMA MovedTyped ==
  ASSUME NEW E \in SUBSET Tally, NEW q \in Int, NEW i \in Int, NEW h \in Int
  PROVE  Moved(E, q, i, h) \in SUBSET Tally
BY DEF Moved

LEMMA PrunedTyped ==
  ASSUME NEW E \in SUBSET Tally
  PROVE  Pruned(E) \in SUBSET Tally
BY DEF Pruned

LEMMA PrunedKept ==
  ASSUME NEW E, NEW q \in Nat, NEW i \in Nat, NEW h \in Nat,
         E = {[queued |-> q, inflight |-> i, hold |-> h]}
  PROVE  Kept(Pruned(E), q, i, h)
BY DEF Kept, Pruned

LEMMA ClientOfType == \A r \in Calls : ClientOf[r] \in Clients
  OBVIOUS

LEMMA CountShifts ==
  ASSUME Typed, NEW r \in Registered, NEW q \in -1..1, NEW i \in -1..1, Count(r, q, i)
  PROVE  Shifts(r, q, i, 0)
<1>0. r \in Calls /\ ClientOf[r] \in Clients
  BY DEF Registered
<1> DEFINE c == ClientOf[r]
<1>1. /\ queued' = queued + q /\ inflight' = inflight + i
      /\ entry' = [entry EXCEPT ![c] = Moved(entry[c], q, i, 0)]
  BY DEF Count
<1>2. Moved(entry[c], q, i, 0) \in SUBSET Tally
  <2>1. entry[c] \in SUBSET Tally
    BY <1>0 DEF Typed
  <2>2. q \in Int /\ i \in Int /\ 0 \in Int
    OBVIOUS
  <2> QED BY <2>1, <2>2, MovedTyped
<1>3. entry' \in [Clients -> SUBSET Tally] /\ entry'[c] = Moved(entry[c], q, i, 0)
      /\ \A d \in Clients \ {c} : entry'[d] = entry[d]
  BY <1>0, <1>1, <1>2 DEF Typed
<1>4. ASSUME NEW a \in Nat, NEW b \in Nat, NEW h \in Nat, Kept(entry[c], a, b, h), h >= In(Registered, r)
      PROVE  Kept(entry'[c], a + q, b + i, h + 0)
  <2>1. entry[c] = {[queued |-> a, inflight |-> b, hold |-> h]}
    BY <1>4 DEF Kept, In
  <2>2. entry'[c] = {[queued |-> a + q, inflight |-> b + i, hold |-> h + 0]}
    BY <2>1, <1>3 DEF Moved
  <2> QED BY <2>2 DEF Kept
<1> QED BY <1>1, <1>3, <1>4 DEF Shifts

LEMMA ReleaseShifts ==
  ASSUME Typed, NEW r \in Registered, NEW q \in -1..1, NEW i \in -1..1,
         CountAndRelease(r, q, i)
  PROVE  Shifts(r, q, i, -1)
<1>0. r \in Calls /\ ClientOf[r] \in Clients
  BY DEF Registered
<1> DEFINE c == ClientOf[r]
<1>1. /\ queued' = queued + q /\ inflight' = inflight + i
      /\ entry' = [entry EXCEPT ![c] = Pruned(Moved(entry[c], q, i, -1))]
  BY DEF CountAndRelease
<1>2. Pruned(Moved(entry[c], q, i, -1)) \in SUBSET Tally
  <2>1. entry[c] \in SUBSET Tally
    BY <1>0 DEF Typed
  <2>2. q \in Int /\ i \in Int /\ -1 \in Int
    OBVIOUS
  <2>3. Moved(entry[c], q, i, -1) \in SUBSET Tally
    BY <2>1, <2>2, MovedTyped
  <2> QED BY <2>3, PrunedTyped
<1>3. entry' \in [Clients -> SUBSET Tally] /\ entry'[c] = Pruned(Moved(entry[c], q, i, -1))
      /\ \A d \in Clients \ {c} : entry'[d] = entry[d]
  BY <1>0, <1>1, <1>2 DEF Typed
<1>4. ASSUME NEW a \in Nat, NEW b \in Nat, NEW h \in Nat, Kept(entry[c], a, b, h), h >= In(Registered, r),
             a + q \in Nat, b + i \in Nat, h + (-1) \in Nat
      PROVE  Kept(entry'[c], a + q, b + i, h + (-1))
  <2>1. entry[c] = {[queued |-> a, inflight |-> b, hold |-> h]}
    BY <1>4 DEF Kept, In
  <2>2. Moved(entry[c], q, i, -1) = {[queued |-> a + q, inflight |-> b + i, hold |-> h + (-1)]}
    BY <2>1 DEF Moved
  <2> QED BY <2>2, <1>3, <1>4, PrunedKept
<1> QED BY <1>1, <1>3, <1>4 DEF Shifts

\* The books are kept when what is counted covers what the call did.
LEMMA TallyStep ==
  ASSUME Typed, NEW r \in Calls,
         NEW dq \in -1..1, NEW di \in -1..1, NEW dh \in -1..1,
         Shifts(r, dq, di, dh),
         \E q, i, h \in Counts : Tallied(q, i, h),
         marked' \subseteq Calls,
         \A s \in Calls \ {r} : pc'[s] = pc[s] /\ (s \in marked <=> s \in marked'),
         In(marked', r) - In(marked, r) <= dq,
         In(Busy', r) - In(Busy, r) <= di,
         In(Registered', r) - In(Registered, r) <= dh
  PROVE  \E q, i, h \in Counts : Tallied(q, i, h)'
<1> DEFINE c == ClientOf[r]
<1>0. c \in Clients
  OBVIOUS
<1>1. PICK q \in Counts, i \in Counts, h \in Counts : Tallied(q, i, h)
  OBVIOUS
<1>2. /\ \A d \in Clients : /\ Kept(entry[d], q[d], i[d], h[d])
                            /\ Cardinality(Of(marked, d)) <= q[d]
                            /\ Cardinality(Of(Busy, d)) <= i[d]
                            /\ Cardinality(Of(Registered, d)) <= h[d]
      /\ IsFiniteSet(Units(q)) /\ queued = Cardinality(Units(q))
      /\ IsFiniteSet(Units(i)) /\ inflight = Cardinality(Units(i))
  BY <1>1 DEF Tallied
<1>3. /\ marked \subseteq Calls
      /\ Busy \subseteq Calls /\ Busy' \subseteq Calls
      /\ Registered \subseteq Calls /\ Registered' \subseteq Calls
      /\ \A s \in Calls \ {r} : s \in Busy <=> s \in Busy'
      /\ \A s \in Calls \ {r} : s \in Registered <=> s \in Registered'
  BY DEF Typed, Busy, Registered
<1>4. /\ Cardinality(Of(marked', c)) = Cardinality(Of(marked, c)) + In(marked', r) - In(marked, r)
      /\ \A d \in Clients \ {c} : Cardinality(Of(marked', d)) = Cardinality(Of(marked, d))
  BY <1>3, ClientMoves
<1>5. /\ Cardinality(Of(Busy', c)) = Cardinality(Of(Busy, c)) + In(Busy', r) - In(Busy, r)
      /\ \A d \in Clients \ {c} : Cardinality(Of(Busy', d)) = Cardinality(Of(Busy, d))
  BY <1>3, ClientMoves
<1>6. /\ Cardinality(Of(Registered', c)) = Cardinality(Of(Registered, c)) + In(Registered', r) - In(Registered, r)
      /\ \A d \in Clients \ {c} : Cardinality(Of(Registered', d)) = Cardinality(Of(Registered, d))
  BY <1>3, ClientMoves
<1>7. \A S \in SUBSET Calls : Cardinality(Of(S, c)) \in Nat
  BY SomeCalls DEF Of
<1>8. \A S \in SUBSET Calls : In(S, r) <= Cardinality(Of(S, c))
  <2> SUFFICES ASSUME NEW S \in SUBSET Calls, r \in S
               PROVE  1 <= Cardinality(Of(S, c))
    BY <1>7 DEF In
  <2>1. r \in Of(S, c) /\ IsFiniteSet(Of(S, c))
    BY SomeCalls DEF Of
  <2>2. Cardinality(Of(S, c)) # 0
    BY <2>1, FS_EmptySet
  <2> QED BY <2>2, <1>7
<1> DEFINE nq == q[c] + dq
           ni == i[c] + di
           nh == h[c] + dh
           q1 == [q EXCEPT ![c] = nq]
           i1 == [i EXCEPT ![c] = ni]
           h1 == [h EXCEPT ![c] = nh]
<1>9. \A S \in SUBSET Calls : In(S, r) \in {0, 1}
  BY DEF In
<1>10. /\ Cardinality(Of(marked', c)) <= nq
       /\ Cardinality(Of(Busy', c)) <= ni
       /\ Cardinality(Of(Registered', c)) <= nh
  <2>1. Cardinality(Of(marked, c)) \in Nat /\ Cardinality(Of(Busy, c)) \in Nat /\ Cardinality(Of(Registered, c)) \in Nat
    BY <1>7, <1>3
  <2>2. /\ In(marked, r) \in {0, 1} /\ In(marked', r) \in {0, 1} /\ In(Busy, r) \in {0, 1}
        /\ In(Busy', r) \in {0, 1} /\ In(Registered, r) \in {0, 1} /\ In(Registered', r) \in {0, 1}
    BY <1>9, <1>3
  <2>3. q[c] \in Nat /\ i[c] \in Nat /\ h[c] \in Nat
    OBVIOUS
  <2>4. Cardinality(Of(marked, c)) <= q[c] /\ Cardinality(Of(Busy, c)) <= i[c] /\ Cardinality(Of(Registered, c)) <= h[c]
    BY <1>2, <1>0
  <2> QED BY <2>1, <2>2, <2>3, <2>4, <1>4, <1>5, <1>6
<1>11. nq \in Nat /\ ni \in Nat /\ nh \in Nat
  <2>1. Cardinality(Of(marked', c)) \in Nat /\ Cardinality(Of(Busy', c)) \in Nat /\ Cardinality(Of(Registered', c)) \in Nat
    BY <1>7, <1>3
  <2>2. nq \in Int /\ ni \in Int /\ nh \in Int
    OBVIOUS
  <2> HIDE DEF nq, ni, nh
  <2> QED BY <2>1, <2>2, <1>10
<1>12. h[c] >= In(Registered, r)
  <2>1. In(Registered, r) <= Cardinality(Of(Registered, c)) /\ In(Registered, r) \in {0, 1}
        /\ Cardinality(Of(Registered, c)) \in Nat /\ Cardinality(Of(Registered, c)) <= h[c]
    BY <1>8, <1>3, <1>9, <1>7, <1>2
  <2> QED BY <2>1
<1>13. Kept(entry'[c], nq, ni, nh)
  <2>1. Kept(entry[c], q[c], i[c], h[c]) /\ q[c] \in Nat /\ i[c] \in Nat /\ h[c] \in Nat
    BY <1>2
  <2> QED BY <2>1, <1>11, <1>12 DEF Shifts
<1>14. q1 \in Counts /\ i1 \in Counts /\ h1 \in Counts
  BY <1>11
<1>15. q1[c] = nq /\ i1[c] = ni /\ h1[c] = nh
       /\ \A d \in Clients \ {c} : q1[d] = q[d] /\ i1[d] = i[d] /\ h1[d] = h[d]
  OBVIOUS
<1> HIDE DEF q1, i1, h1
<1>16. IsFiniteSet(Units(q1)) /\ Cardinality(Units(q1)) = Cardinality(Units(q)) + dq
  <2>1. q1[c] = q[c] + dq /\ q[c] + dq \in Nat /\ \A d \in Clients \ {c} : q1[d] = q[d]
    BY <1>11, <1>15
  <2>2. q \in Counts /\ q1 \in Counts /\ IsFiniteSet(Units(q)) /\ dq \in -1..1
    BY <1>2, <1>14
  <2> HIDE DEF c, Counts
  <2> QED BY <1>0, <2>1, <2>2, UnitMoves
<1>17. IsFiniteSet(Units(i1)) /\ Cardinality(Units(i1)) = Cardinality(Units(i)) + di
  <2>1. i1[c] = i[c] + di /\ i[c] + di \in Nat /\ \A d \in Clients \ {c} : i1[d] = i[d]
    BY <1>11, <1>15
  <2>2. i \in Counts /\ i1 \in Counts /\ IsFiniteSet(Units(i)) /\ di \in -1..1
    BY <1>2, <1>14
  <2> HIDE DEF c, Counts
  <2> QED BY <1>0, <2>1, <2>2, UnitMoves
<1>18. queued' = queued + dq /\ inflight' = inflight + di /\ \A d \in Clients \ {c} : entry'[d] = entry[d]
  BY DEF Shifts
<1> HIDE DEF nq, ni, nh
<1>19. ASSUME NEW d \in Clients
       PROVE  /\ Kept(entry'[d], q1[d], i1[d], h1[d])
              /\ Cardinality(Of(marked', d)) <= q1[d]
              /\ Cardinality(Of(Busy', d)) <= i1[d]
              /\ Cardinality(Of(Registered', d)) <= h1[d]
  <2>1. CASE d = c
    BY <2>1, <1>10, <1>13, <1>15
  <2>2. CASE d # c
    BY <2>2, <1>2, <1>4, <1>5, <1>6, <1>15, <1>18
  <2> QED BY <2>1, <2>2
<1>20. Tallied(q1, i1, h1)'
  BY <1>2, <1>16, <1>17, <1>18, <1>19 DEF Tallied
<1> QED BY <1>14, <1>20

-----------------------------------------------------------------------------
(* A step of one call. *)

Places == {"out", "arriving", "paced", "serving", "expired", "opening", "waiting", "working", "stopping", "ending"}
InRegister == {"opening", "waiting", "working", "stopping"}
InBusy == {"working", "stopping"}

\* What a call at place p with stream k counts for.
Claim(p) == In(Places \ {"out", "ending"}, p)
Emits(k) == In({"open", "retry"}, k)

LEMMA CallStage ==
  ASSUME Typed, NEW r \in Calls
  PROVE  /\ In(Core, r) = Claim(pc[r]) /\ In(Emitting, r) = Emits(hold[r])
         /\ In(Registered, r) = In(InRegister, pc[r]) /\ In(Busy, r) = In(InBusy, pc[r])
         /\ pc[r] \in Places
BY DEF Typed, In, Claim, Emits, Core, Registered, Unregistered, Emitting, Busy, Places, InRegister, InBusy

\* Only r's stage changes.
Goes(r, p, k) ==
  /\ mode' = mode /\ closed' \in BOOLEAN
  /\ pc' = [pc EXCEPT ![r] = p] /\ hold' = [hold EXCEPT ![r] = k]
  /\ marked' \subseteq Calls /\ \A s \in Calls \ {r} : s \in marked <=> s \in marked'

\* The counters cover what the call comes to count for.
Covered(r, p, dq, di, dh) ==
  /\ Shifts(r, dq, di, dh)
  /\ In(marked', r) - In(marked, r) <= dq
  /\ In(InBusy, p) - In(InBusy, pc[r]) <= di
  /\ In(InRegister, p) - In(InRegister, pc[r]) <= dh

LEMMA GoesKeepsTypes ==
  ASSUME Typed, NEW r \in Calls, NEW p \in Places, NEW k \in {"none", "open", "retry", "stopped"}, Goes(r, p, k)
  PROVE  /\ pc' \in [Calls -> Places] /\ pc'[r] = p
         /\ hold' \in [Calls -> {"none", "open", "retry", "stopped"}] /\ hold'[r] = k
         /\ \A s \in Calls \ {r} : pc'[s] = pc[s] /\ hold'[s] = hold[s]
BY DEF Typed, Goes, Places

LEMMA CallGoes ==
  ASSUME IInv, NEW r \in Calls, NEW p \in Places, NEW k \in {"none", "open", "retry", "stopped"},
         Goes(r, p, k), StageOK(r)',
         NEW dq \in -1..1, NEW di \in -1..1, NEW dh \in -1..1, Covered(r, p, dq, di, dh),
         admitted' = admitted + Claim(p) - Claim(pc[r]),
         emitters' \in Int, emitters' >= emitters + Emits(k) - Emits(hold[r])
  PROVE  IInv' /\ Cardinality(Emitting') = Cardinality(Emitting) + Emits(k) - Emits(hold[r])
<1>0. Typed /\ pc[r] \in Places
  BY CallStage DEF IInv
<1>1. /\ pc' \in [Calls -> Places] /\ pc'[r] = p
      /\ hold' \in [Calls -> {"none", "open", "retry", "stopped"}] /\ hold'[r] = k
      /\ \A s \in Calls \ {r} : pc'[s] = pc[s] /\ hold'[s] = hold[s]
  BY <1>0, GoesKeepsTypes
<1>2. /\ mode' = mode /\ closed' \in BOOLEAN /\ marked' \subseteq Calls
      /\ \A s \in Calls \ {r} : s \in marked <=> s \in marked'
  BY DEF Goes
<1>3. /\ In(Core, r) = Claim(pc[r]) /\ In(Emitting, r) = Emits(hold[r])
      /\ In(Registered, r) = In(InRegister, pc[r]) /\ In(Busy, r) = In(InBusy, pc[r])
  BY <1>0, CallStage
<1>4. /\ In(Core', r) = Claim(p) /\ In(Emitting', r) = Emits(k)
      /\ In(Registered', r) = In(InRegister, p) /\ In(Busy', r) = In(InBusy, p)
  BY <1>1 DEF In, Claim, Emits, Core, Registered, Unregistered, Emitting, Busy, Places, InRegister, InBusy
<1>5. /\ Core \subseteq Calls /\ Core' \subseteq Calls /\ Emitting \subseteq Calls /\ Emitting' \subseteq Calls
      /\ Busy \subseteq Calls /\ Busy' \subseteq Calls
      /\ \A s \in Calls \ {r} : /\ s \in Core <=> s \in Core'
                                /\ s \in Emitting <=> s \in Emitting'
                                /\ s \in Busy <=> s \in Busy'
  BY <1>1 DEF Core, Registered, Unregistered, Emitting, Busy
<1>6. /\ Cardinality(Core') = Cardinality(Core) + Claim(p) - Claim(pc[r])
      /\ Cardinality(Emitting') = Cardinality(Emitting) + Emits(k) - Emits(hold[r])
  BY <1>3, <1>4, <1>5, CallMoves
<1>7. /\ Cardinality(Busy') = Cardinality(Busy) + In(InBusy, p) - In(InBusy, pc[r])
      /\ Cardinality(marked') = Cardinality(marked) + In(marked', r) - In(marked, r)
  BY <1>0, <1>2, <1>3, <1>4, <1>5, CallMoves DEF Typed
<1>8. /\ Cardinality(Core') \in Nat /\ Cardinality(Emitting') \in Nat
      /\ Cardinality(Busy') \in Nat /\ Cardinality(marked') \in Nat
      /\ Cardinality(Core) \in Nat /\ Cardinality(Emitting) \in Nat
      /\ Cardinality(Busy) \in Nat /\ Cardinality(marked) \in Nat
  BY <1>0, <1>2, <1>5, SomeCalls DEF Typed
<1>9. \A S, x : In(S, x) \in {0, 1}
  BY DEF In
<1>10. queued' = queued + dq /\ inflight' = inflight + di /\ entry' \in [Clients -> SUBSET Tally]
  BY DEF Covered, Shifts
<1>11. admitted' = Cardinality(Core') /\ admitted' \in Nat
  BY <1>6, <1>8 DEF IInv
<1>12. emitters' >= Cardinality(Emitting') /\ emitters' \in Nat
  <2>1. Emits(k) \in {0, 1} /\ Emits(hold[r]) \in {0, 1}
    BY <1>9 DEF Emits
  <2>2. emitters >= Cardinality(Emitting) /\ emitters \in Nat
    BY <1>0 DEF IInv, Typed
  <2> QED BY <1>6, <1>8, <2>1, <2>2
<1>13. queued' >= Cardinality(marked') /\ queued' \in Nat
  <2>1. In(marked', r) - In(marked, r) <= dq /\ In(marked, r) \in {0, 1} /\ In(marked', r) \in {0, 1}
    BY <1>9 DEF Covered
  <2>2. queued \in Nat /\ queued >= Cardinality(marked)
    BY <1>0 DEF IInv, Typed
  <2> QED BY <2>1, <2>2, <1>7, <1>8, <1>10
<1>14. inflight' >= Cardinality(Busy') /\ inflight' \in Nat
  <2>1. In(InBusy, p) - In(InBusy, pc[r]) <= di /\ In(InBusy, p) \in {0, 1} /\ In(InBusy, pc[r]) \in {0, 1}
    BY <1>9 DEF Covered
  <2>2. inflight \in Nat /\ inflight >= Cardinality(Busy)
    BY <1>0 DEF IInv, Typed
  <2> QED BY <2>1, <2>2, <1>7, <1>8, <1>10
<1>15. Typed'
  BY <1>0, <1>1, <1>2, <1>10, <1>11, <1>12, <1>13, <1>14 DEF Typed, Places
<1>16. \A s \in Calls : StageOK(s)'
  <2>1. ASSUME NEW s \in Calls \ {r}
        PROVE  StageOK(s)'
    <3>1. StageOK(s) /\ pc'[s] = pc[s] /\ hold'[s] = hold[s] /\ (s \in marked <=> s \in marked')
      BY <1>1, <1>2 DEF IInv
    <3> QED BY <3>1, <1>2 DEF StageOK, QueueEnabled
  <2> QED BY <2>1
<1>17. \E q, i, h \in Counts : Tallied(q, i, h)'
  <2>1. \A s \in Calls \ {r} : pc'[s] = pc[s] /\ (s \in marked <=> s \in marked')
    BY <1>1, <1>2
  <2>2. In(marked', r) - In(marked, r) <= dq /\ In(Busy', r) - In(Busy, r) <= di
        /\ In(Registered', r) - In(Registered, r) <= dh
    BY <1>3, <1>4 DEF Covered
  <2>3. Shifts(r, dq, di, dh)
    BY DEF Covered
  <2>4. \E q, i, h \in Counts : Tallied(q, i, h)
    BY DEF IInv
  <2> HIDE DEF Counts
  <2> QED BY <1>0, <1>2, <2>1, <2>2, <2>3, <2>4, TallyStep
<1>18. IInv'
  BY <1>11, <1>12, <1>13, <1>14, <1>15, <1>16, <1>17 DEF IInv
<1> QED BY <1>6, <1>18

-----------------------------------------------------------------------------
(* One lemma per action: it keeps the books, and the emitters' unless two *)
(* waits of one call before routing are streamed.                         *)

Keeps == IInv' /\ (OneDeferral => emitters' - Cardinality(Emitting') = emitters - Cardinality(Emitting))

LEMMA CallKeeps ==
  ASSUME IInv, NEW r \in Calls, NEW p \in Places, NEW k \in {"none", "open", "retry", "stopped"},
         Goes(r, p, k), StageOK(r)',
         NEW dq \in -1..1, NEW di \in -1..1, NEW dh \in -1..1, Covered(r, p, dq, di, dh),
         admitted' = admitted + Claim(p) - Claim(pc[r]),
         emitters' = emitters + Emits(k) - Emits(hold[r])
  PROVE  Keeps
<1>1. emitters \in Nat /\ Emitting \subseteq Calls
  BY DEF IInv, Typed, Emitting
<1>2. Emits(k) \in {0, 1} /\ Emits(hold[r]) \in {0, 1} /\ Cardinality(Emitting) \in Nat
  BY <1>1, SomeCalls DEF Emits, In
<1>3. emitters' \in Int /\ emitters' >= emitters + Emits(k) - Emits(hold[r])
  BY <1>1, <1>2
<1>4. IInv' /\ Cardinality(Emitting') = Cardinality(Emitting) + Emits(k) - Emits(hold[r])
  BY <1>3, CallGoes
<1> QED BY <1>1, <1>2, <1>4 DEF Keeps

LEMMA StayShifts ==
  ASSUME Typed, NEW r \in Calls, UNCHANGED <<queued, inflight, entry>>
  PROVE  Shifts(r, 0, 0, 0)
<1>1. \A n \in Nat : n + 0 = n
  OBVIOUS
<1> QED BY <1>1 DEF Typed, Shifts

\* The counters stay, and the call counts for no more than it did.
LEMMA StayCovered ==
  ASSUME Typed, NEW r \in Calls, NEW p \in Places,
         UNCHANGED <<queued, inflight, entry>>,
         In(marked', r) <= In(marked, r),
         In(InBusy, p) <= In(InBusy, pc[r]), In(InRegister, p) <= In(InRegister, pc[r])
  PROVE  Covered(r, p, 0, 0, 0)
<1>1. \A S, x : In(S, x) \in {0, 1}
  BY DEF In
<1>2. Shifts(r, 0, 0, 0)
  BY StayShifts
<1> QED BY <1>1, <1>2 DEF Covered

LEMMA AdmitKeeps ==
  ASSUME IInv, NEW r \in Calls, Admit(r)
  PROVE  Keeps
<1>1. Typed /\ StageOK(r)
  BY DEF IInv
<1>2. Goes(r, "arriving", hold[r]) /\ hold[r] = "none" /\ pc[r] = "out"
  BY <1>1 DEF Admit, counterVars, Goes, Typed, StageOK
<1>3. StageOK(r)'
  BY <1>1, <1>2 DEF Admit, counterVars, Typed, StageOK, QueueEnabled
<1>4. Covered(r, "arriving", 0, 0, 0)
  BY <1>1, <1>2, StayCovered DEF Admit, counterVars, In, InBusy, InRegister, Places
<1>5. admitted' = admitted + Claim("arriving") - Claim(pc[r]) /\ emitters' = emitters + Emits(hold[r]) - Emits(hold[r])
  BY <1>1, <1>2 DEF Admit, Claim, Emits, In, Places, Typed
<1> QED BY <1>2, <1>3, <1>4, <1>5, CallKeeps DEF Places

\* How the core is left: with the terminal event still to be written, or without.
LEMMA LeaveCoreIs ==
  ASSUME Typed, NEW r \in Calls, LeaveCore(r), pc[r] \in Places \ {"out", "ending"},
         marked' \subseteq Calls, \A s \in Calls \ {r} : s \in marked <=> s \in marked', r \notin marked',
         UNCHANGED <<mode, closed>>,
         NEW dq, NEW di, NEW dh, Shifts(r, dq, di, dh),
         -In(marked, r) <= dq, -In(InBusy, pc[r]) <= di, -In(InRegister, pc[r]) <= dh
  PROVE  \E p \in {"ending", "out"}, k \in {"stopped", "none"} :
           /\ Goes(r, p, k) /\ StageOK(r)' /\ Covered(r, p, dq, di, dh)
           /\ admitted' = admitted + Claim(p) - Claim(pc[r])
           /\ emitters' = emitters + Emits(k) - Emits(hold[r])
<1> DEFINE p == IF hold[r] = "open" THEN "ending" ELSE "out"
           k == IF hold[r] = "open" THEN "stopped" ELSE "none"
<1>1. p \in {"ending", "out"} /\ k \in {"stopped", "none"}
  OBVIOUS
<1>2. Goes(r, p, k)
  BY DEF Goes, LeaveCore, Typed
<1>3. StageOK(r)'
  <2>1. pc'[r] = p /\ hold'[r] = k
    BY DEF LeaveCore, Typed
  <2> QED BY <2>1 DEF StageOK
<1>4. Covered(r, p, dq, di, dh)
  <2>1. In(InBusy, p) = 0 /\ In(InRegister, p) = 0 /\ In(marked', r) = 0
    BY DEF In, InBusy, InRegister
  <2>2. \A S, x : In(S, x) \in {0, 1}
    BY DEF In
  <2>3. 0 - In(marked, r) <= dq /\ 0 - In(InBusy, pc[r]) <= di /\ 0 - In(InRegister, pc[r]) <= dh
    BY <2>2
  <2> QED BY <2>1, <2>3 DEF Covered
<1>5. admitted' = admitted + Claim(p) - Claim(pc[r])
  BY DEF LeaveCore, Claim, In, Typed, Places
<1>6. emitters' = emitters + Emits(k) - Emits(hold[r])
  BY DEF LeaveCore, Emits, In, Typed
<1> QED BY <1>1, <1>2, <1>3, <1>4, <1>5, <1>6

LEMMA LeaveCoreKeeps ==
  ASSUME IInv, NEW r \in Calls, LeaveCore(r), pc[r] \in Places \ {"out", "ending"},
         marked' \subseteq Calls, \A s \in Calls \ {r} : s \in marked <=> s \in marked', r \notin marked',
         UNCHANGED <<mode, closed>>,
         NEW dq \in -1..1, NEW di \in -1..1, NEW dh \in -1..1, Shifts(r, dq, di, dh),
         -In(marked, r) <= dq, -In(InBusy, pc[r]) <= di, -In(InRegister, pc[r]) <= dh
  PROVE  Keeps
<1>1. Typed
  BY DEF IInv
<1>2. PICK p \in {"ending", "out"}, k \in {"stopped", "none"} :
        /\ Goes(r, p, k) /\ StageOK(r)' /\ Covered(r, p, dq, di, dh)
        /\ admitted' = admitted + Claim(p) - Claim(pc[r])
        /\ emitters' = emitters + Emits(k) - Emits(hold[r])
  BY <1>1, LeaveCoreIs
<1> QED BY <1>2, CallKeeps DEF Places

LEMMA AnswerEarlyKeeps ==
  ASSUME IInv, NEW r \in Calls, AnswerEarly(r)
  PROVE  Keeps
<1>1. Typed /\ LeaveCore(r) /\ UNCHANGED <<mode, closed, queued, inflight, entry, marked>>
  BY DEF AnswerEarly, IInv, counterVars
<1>2. pc[r] \in {"arriving", "paced", "serving", "expired"} /\ r \notin marked /\ marked \subseteq Calls
  BY DEF AnswerEarly, Unregistered, IInv, StageOK, Typed
<1>3. Shifts(r, 0, 0, 0)
  BY <1>1, StayShifts
<1>4. In(marked, r) = 0 /\ In(InBusy, pc[r]) = 0 /\ In(InRegister, pc[r]) = 0
  BY <1>2 DEF In, InBusy, InRegister
<1> QED BY <1>1, <1>2, <1>3, <1>4, LeaveCoreKeeps DEF Places

\* A second wait before routing puts a second emitter beside the first.
LEMMA HoldPacingKeeps ==
  ASSUME IInv, NEW r \in Calls, NEW why \in Deferrals, HoldPacing(r, why)
  PROVE  Keeps
<1> DEFINE p == IF why = "pace" THEN "paced" ELSE "serving"
<1>1. Typed /\ StageOK(r)
  BY DEF IInv
<1>2. p \in Places /\ pc[r] \in {"arriving", "paced"}
  BY DEF Places, HoldPacing
<1>3. Goes(r, p, "open")
  BY <1>1 DEF HoldPacing, Goes, Typed, counterVars
<1>4. StageOK(r)'
  <2>1. pc'[r] = p /\ hold'[r] = "open" /\ marked' = marked /\ r \notin marked
    BY <1>1 DEF HoldPacing, Typed, counterVars, StageOK
  <2> QED BY <2>1 DEF StageOK
<1>5. Covered(r, p, 0, 0, 0)
  <2>1. In(InBusy, p) = 0 /\ In(InRegister, p) = 0 /\ In(InBusy, pc[r]) = 0 /\ In(InRegister, pc[r]) = 0
    BY <1>2 DEF In, InBusy, InRegister
  <2>2. UNCHANGED <<queued, inflight, entry, marked>>
    BY DEF HoldPacing, counterVars
  <2>3. In(marked', r) <= In(marked, r)
    BY <2>2 DEF In
  <2> HIDE DEF p
  <2> QED BY <1>1, <1>2, <2>1, <2>2, <2>3, StayCovered
<1>6. admitted' = admitted + Claim(p) - Claim(pc[r])
  <2>1. Claim(p) = 1 /\ Claim(pc[r]) = 1 /\ admitted' = admitted /\ admitted \in Int
    BY <1>1, <1>2 DEF Claim, In, Places, HoldPacing, Typed
  <2> QED BY <2>1
<1>7. emitters' = emitters + 1 /\ emitters \in Nat
  BY <1>1 DEF HoldPacing, Typed
<1>8. Emits("open") = 1 /\ Emits(hold[r]) \in {0, 1}
  BY DEF Emits, In
<1>9. CASE Emits(hold[r]) = 0
  <2>1. emitters' = emitters + Emits("open") - Emits(hold[r])
    BY <1>7, <1>8, <1>9
  <2> HIDE DEF p
  <2> QED BY <1>2, <1>3, <1>4, <1>5, <1>6, <2>1, CallKeeps
<1>10. CASE Emits(hold[r]) = 1
  <2>1. pc[r] # "arriving"
    BY <1>1, <1>10 DEF StageOK, Emits, In
  <2>2. pc[r] = "paced" /\ why = "share"
    BY <2>1 DEF HoldPacing
  <2>3. "pace" \in Deferrals
    BY <1>1, <2>2 DEF StageOK
  <2>4. ~OneDeferral
    BY <2>2, <2>3 DEF OneDeferral
  <2>5. emitters' \in Int /\ emitters' >= emitters + Emits("open") - Emits(hold[r])
    BY <1>7, <1>8, <1>10
  <2>6. IInv'
    <3> HIDE DEF p
    <3> QED BY <1>2, <1>3, <1>4, <1>5, <1>6, <2>5, CallGoes
  <2> QED BY <2>4, <2>6 DEF Keeps
<1> QED BY <1>8, <1>9, <1>10

LEMMA PacingExpiresKeeps ==
  ASSUME IInv, NEW r \in Calls, PacingExpires(r)
  PROVE  Keeps
<1>1. Typed /\ StageOK(r)
  BY DEF IInv
<1>2. pc[r] \in {"paced", "serving"} /\ hold[r] = "open" /\ r \notin marked
  BY <1>1 DEF PacingExpires, StageOK
<1>3. Goes(r, "expired", "stopped")
  BY <1>1 DEF PacingExpires, Goes, Typed, counterVars
<1>4. StageOK(r)'
  BY <1>1, <1>2 DEF PacingExpires, Typed, counterVars, StageOK
<1>5. Covered(r, "expired", 0, 0, 0)
  BY <1>1, <1>2, StayCovered DEF PacingExpires, counterVars, In, InBusy, InRegister, Places
<1>6. admitted' = admitted + Claim("expired") - Claim(pc[r]) /\ emitters' = emitters + Emits("stopped") - Emits(hold[r])
  BY <1>1, <1>2 DEF PacingExpires, Claim, Emits, In, Places, Typed
<1> QED BY <1>3, <1>4, <1>5, <1>6, CallKeeps DEF Places

LEMMA RegisterShifts ==
  ASSUME Typed, NEW r \in Calls, Register(r)
  PROVE  /\ Shifts(r, IF QueueEnabled THEN 1 ELSE 0, 0, 1)
         /\ mode' = mode /\ closed' = closed /\ admitted' = admitted /\ emitters' = emitters /\ hold' = hold
         /\ marked' = IF QueueEnabled THEN marked \cup {r} ELSE marked
         /\ pc' = [pc EXCEPT ![r] = IF r \in Streaming /\ hold[r] = "none" THEN "opening" ELSE "waiting"]
<1> DEFINE c == ClientOf[r]
           q == IF QueueEnabled THEN 1 ELSE 0
           e == IF entry[c] = {} THEN {[queued |-> 0, inflight |-> 0, hold |-> 0]} ELSE entry[c]
<1>0. c \in Clients /\ q \in {0, 1}
  OBVIOUS
<1>1. entry' = [entry EXCEPT ![c] = Moved(e, q, 0, 1)] /\ queued' = queued + q /\ inflight' = inflight
  BY DEF Register
<1>2. e \in SUBSET Tally
  BY <1>0 DEF Typed
<1>3. Moved(e, q, 0, 1) \in SUBSET Tally
  <2>1. q \in Int /\ 0 \in Int /\ 1 \in Int
    BY <1>0
  <2> HIDE DEF e, q
  <2> QED BY <1>2, <2>1, MovedTyped
<1>4. entry' \in [Clients -> SUBSET Tally] /\ entry'[c] = Moved(e, q, 0, 1)
      /\ \A d \in Clients \ {c} : entry'[d] = entry[d]
  <2> HIDE DEF e, q
  <2> QED BY <1>0, <1>1, <1>3 DEF Typed
<1>5. ASSUME NEW a \in Nat, NEW b \in Nat, NEW h \in Nat, Kept(entry[c], a, b, h)
      PROVE  Kept(entry'[c], a + q, b + 0, h + 1)
  <2>1. e = {[queued |-> a, inflight |-> b, hold |-> h]}
    BY <1>5 DEF Kept
  <2> HIDE DEF e, q
  <2>2. entry'[c] = {[queued |-> a + q, inflight |-> b + 0, hold |-> h + 1]}
    BY <2>1, <1>4 DEF Moved
  <2> QED BY <2>2 DEF Kept
<1>6. inflight' = inflight + 0
  BY <1>1 DEF Typed
<1>7. Shifts(r, q, 0, 1)
  <2> HIDE DEF e, q
  <2> QED BY <1>1, <1>4, <1>5, <1>6 DEF Shifts
<1> QED BY <1>7 DEF Register

LEMMA RegisterKeeps ==
  ASSUME IInv, NEW r \in Calls, Register(r)
  PROVE  Keeps
<1> DEFINE p == IF r \in Streaming /\ hold[r] = "none" THEN "opening" ELSE "waiting"
           q == IF QueueEnabled THEN 1 ELSE 0
<1>1. Typed /\ StageOK(r)
  BY DEF IInv
<1>2. /\ Shifts(r, q, 0, 1)
      /\ mode' = mode /\ closed' = closed /\ admitted' = admitted /\ emitters' = emitters /\ hold' = hold
      /\ marked' = IF QueueEnabled THEN marked \cup {r} ELSE marked
      /\ pc' = [pc EXCEPT ![r] = p]
  BY <1>1, RegisterShifts
<1>3. pc[r] \in {"arriving", "paced", "serving"} /\ hold[r] \in {"none", "open"} /\ r \notin marked
  BY <1>1 DEF Register, Unregistered, StageOK
<1>4. p \in {"opening", "waiting"} /\ (p = "opening" => hold[r] = "none") /\ q \in {0, 1}
  OBVIOUS
<1>5. pc'[r] = p /\ hold'[r] = hold[r] /\ (r \in marked' <=> QueueEnabled) /\ (QueueEnabled' <=> QueueEnabled)
  BY <1>1, <1>2, <1>3 DEF Typed, QueueEnabled
<1>6. In(marked', r) = q /\ In(marked, r) = 0
  BY <1>3, <1>5 DEF In
<1>7. Goes(r, p, hold[r])
  <2>1. hold' = [hold EXCEPT ![r] = hold[r]]
    BY <1>1, <1>2 DEF Typed
  <2> QED BY <1>1, <1>2, <2>1 DEF Goes, Typed
<1> HIDE DEF p, q
<1>8. StageOK(r)'
  BY <1>3, <1>4, <1>5 DEF StageOK
<1>9. Covered(r, p, q, 0, 1)
  <2>1. In(InBusy, p) = 0 /\ In(InBusy, pc[r]) = 0 /\ In(InRegister, p) = 1 /\ In(InRegister, pc[r]) = 0
    BY <1>3, <1>4 DEF In, InBusy, InRegister
  <2> QED BY <1>2, <1>4, <1>6, <2>1 DEF Covered
<1>10. admitted' = admitted + Claim(p) - Claim(pc[r]) /\ emitters' = emitters + Emits(hold[r]) - Emits(hold[r])
  BY <1>1, <1>2, <1>3, <1>4 DEF Claim, Emits, In, Places, Typed
<1> QED BY <1>3, <1>4, <1>7, <1>8, <1>9, <1>10, CallKeeps DEF Places

LEMMA OpenedKeeps ==
  ASSUME IInv, NEW r \in Calls, Opened(r)
  PROVE  Keeps
<1>1. Typed /\ StageOK(r)
  BY DEF IInv
<1>2. pc[r] = "opening" /\ hold[r] = "none"
  BY <1>1 DEF Opened, StageOK
<1>3. Goes(r, "waiting", "open")
  BY <1>1 DEF Opened, Goes, Typed, counterVars
<1>4. StageOK(r)'
  BY <1>1, <1>2 DEF Opened, Typed, counterVars, StageOK, QueueEnabled
<1>5. Covered(r, "waiting", 0, 0, 0)
  BY <1>1, <1>2, StayCovered DEF Opened, counterVars, In, InBusy, InRegister, Places
<1>6. admitted' = admitted + Claim("waiting") - Claim(pc[r]) /\ emitters' = emitters + Emits("open") - Emits(hold[r])
  BY <1>1, <1>2 DEF Opened, Claim, Emits, In, Places, Typed
<1> QED BY <1>3, <1>4, <1>5, <1>6, CallKeeps DEF Places

LEMMA OpeningFailsKeeps ==
  ASSUME IInv, NEW r \in Calls, OpeningFails(r)
  PROVE  Keeps
<1>1. Typed /\ LeaveCore(r) /\ UNCHANGED <<mode, closed, queued, inflight, entry>> /\ marked' = marked \ {r}
  BY DEF OpeningFails, IInv
<1>2. pc[r] = "opening" /\ marked \subseteq Calls
  BY DEF OpeningFails, IInv, Typed
<1>3. Shifts(r, 0, 0, 0)
  BY <1>1, StayShifts
<1>4. -In(marked, r) <= 0 /\ -In(InBusy, pc[r]) <= 0 /\ -In(InRegister, pc[r]) <= 0
  BY DEF In
<1> QED BY <1>1, <1>2, <1>3, <1>4, LeaveCoreKeeps DEF Places

LEMMA DequeuedIs == ASSUME NEW r PROVE Dequeued(r) = In(marked, r) /\ Dequeued(r) \in {0, 1}
BY DEF Dequeued, In

LEMMA LeaveQueueKeeps ==
  ASSUME IInv, NEW r \in Calls, LeaveQueue(r)
  PROVE  Keeps
<1> DEFINE q == -Dequeued(r)
<1>1. Typed /\ LeaveCore(r) /\ UNCHANGED <<mode, closed>> /\ marked' = marked \ {r} /\ CountAndRelease(r, q, 0)
  BY DEF LeaveQueue, IInv
<1>2. pc[r] = "waiting" /\ marked \subseteq Calls /\ r \in Registered
  BY DEF LeaveQueue, IInv, Typed, Registered
<1>3. q \in -1..1 /\ -In(marked, r) <= q
  BY DequeuedIs
<1> HIDE DEF q
<1>4. Shifts(r, q, 0, -1)
  BY <1>1, <1>2, <1>3, ReleaseShifts
<1>5. -In(InBusy, pc[r]) <= 0 /\ -In(InRegister, pc[r]) <= -1
  BY <1>2 DEF In, InBusy, InRegister
<1> QED BY <1>1, <1>2, <1>3, <1>4, <1>5, LeaveCoreKeeps DEF Places

LEMMA EnterKeeps ==
  ASSUME IInv, NEW r \in Calls, Enter(r)
  PROVE  Keeps
<1> DEFINE q == -Dequeued(r)
<1>1. Typed /\ StageOK(r) /\ Count(r, q, 1)
  BY DEF IInv, Enter
<1>2. pc[r] = "waiting" /\ hold[r] \in {"none", "open"} /\ r \in Registered
  BY <1>1 DEF Enter, StageOK, Registered
<1>3. q \in -1..1 /\ In(marked', r) - In(marked, r) <= q
  BY DequeuedIs DEF Enter, In
<1>4. Shifts(r, q, 1, 0)
  <2> HIDE DEF q
  <2> QED BY <1>1, <1>2, <1>3, CountShifts
<1>5. Goes(r, "working", hold[r])
  BY <1>1 DEF Enter, Goes, Typed
<1>6. StageOK(r)'
  BY <1>1, <1>2 DEF Enter, Typed, StageOK
<1>7. Covered(r, "working", q, 1, 0)
  <2>1. In(InBusy, "working") - In(InBusy, pc[r]) <= 1 /\ In(InRegister, "working") - In(InRegister, pc[r]) <= 0
    BY <1>2 DEF In, InBusy, InRegister
  <2> HIDE DEF q
  <2> QED BY <1>3, <1>4, <2>1 DEF Covered
<1>8. admitted' = admitted + Claim("working") - Claim(pc[r]) /\ emitters' = emitters + Emits(hold[r]) - Emits(hold[r])
  BY <1>1, <1>2 DEF Enter, Claim, Emits, In, Places, Typed
<1> HIDE DEF q
<1> QED BY <1>2, <1>3, <1>5, <1>6, <1>7, <1>8, CallKeeps DEF Places

LEMMA GiveBackKeeps ==
  ASSUME IInv, NEW r \in Calls, GiveBack(r)
  PROVE  Keeps
<1>1. Typed /\ StageOK(r)
  BY DEF IInv
<1>2. pc[r] = "working" /\ hold[r] = "none" /\ r \in Registered /\ r \notin marked
  BY <1>1 DEF GiveBack, StageOK, Registered
<1>3. CountAndRelease(r, 0, -1)
  BY <1>2 DEF GiveBack, Dequeued
<1>4. Shifts(r, 0, -1, -1)
  BY <1>1, <1>2, <1>3, ReleaseShifts
<1>5. Goes(r, "serving", "none")
  BY <1>1, <1>2 DEF GiveBack, Goes, Typed
<1>6. StageOK(r)'
  BY <1>1, <1>2 DEF GiveBack, Typed, StageOK
<1>7. Covered(r, "serving", 0, -1, -1)
  BY <1>2, <1>4 DEF GiveBack, Covered, In, InBusy, InRegister
<1>8. admitted' = admitted + Claim("serving") - Claim(pc[r]) /\ emitters' = emitters + Emits("none") - Emits(hold[r])
  BY <1>1, <1>2 DEF GiveBack, Claim, Emits, In, Places, Typed
<1> QED BY <1>5, <1>6, <1>7, <1>8, CallKeeps DEF Places

LEMMA HoldPushbackKeeps ==
  ASSUME IInv, NEW r \in Calls, HoldPushback(r)
  PROVE  Keeps
<1>1. Typed /\ StageOK(r)
  BY DEF IInv
<1>2. pc[r] = "working" /\ hold[r] = "none" /\ r \notin marked
  BY <1>1 DEF HoldPushback, StageOK
<1>3. Goes(r, "working", "retry")
  BY <1>1, <1>2 DEF HoldPushback, Goes, Typed, counterVars
<1>4. StageOK(r)'
  BY <1>1, <1>2 DEF HoldPushback, Typed, counterVars, StageOK
<1>5. Covered(r, "working", 0, 0, 0)
  BY <1>1, <1>2, StayCovered DEF HoldPushback, counterVars, In, InBusy, InRegister, Places
<1>6. admitted' = admitted + Claim("working") - Claim(pc[r]) /\ emitters' = emitters + Emits("retry") - Emits(hold[r])
  BY <1>1, <1>2 DEF HoldPushback, Claim, Emits, In, Places, Typed
<1> QED BY <1>3, <1>4, <1>5, <1>6, CallKeeps DEF Places

LEMMA StopHoldKeeps ==
  ASSUME IInv, NEW r \in Calls, StopHold(r)
  PROVE  Keeps
<1>1. Typed /\ StageOK(r)
  BY DEF IInv
<1>2. pc[r] = "working" /\ hold[r] = "open" /\ r \notin marked
  BY <1>1 DEF StopHold, StageOK
<1>3. Goes(r, "stopping", "stopped")
  BY <1>1, <1>2 DEF StopHold, Goes, Typed, counterVars
<1>4. StageOK(r)'
  BY <1>1, <1>2 DEF StopHold, Typed, counterVars, StageOK
<1>5. Covered(r, "stopping", 0, 0, 0)
  BY <1>1, <1>2, StayCovered DEF StopHold, counterVars, In, InBusy, InRegister, Places
<1>6. admitted' = admitted + Claim("stopping") - Claim(pc[r]) /\ emitters' = emitters + Emits("stopped") - Emits(hold[r])
  BY <1>1, <1>2 DEF StopHold, Claim, Emits, In, Places, Typed
<1> QED BY <1>3, <1>4, <1>5, <1>6, CallKeeps DEF Places

\* Finish, FinishHeld and StopCancelled: what is not taken off inflight stays
\* there for good, but no less than the calls in a slot is ever counted.
LEMMA LeaveSlotKeeps ==
  ASSUME IInv, NEW r \in Calls, Finish(r) \/ FinishHeld(r) \/ StopCancelled(r)
  PROVE  Keeps
<1>1. Typed /\ StageOK(r) /\ LeaveCore(r) /\ UNCHANGED <<mode, closed, marked>>
  BY DEF IInv, Finish, FinishHeld, StopCancelled
<1>2. pc[r] \in {"working", "stopping"} /\ r \in Registered /\ r \notin marked /\ marked \subseteq Calls
  BY <1>1 DEF Finish, FinishHeld, StopCancelled, StageOK, Registered, Typed
<1>3. -In(marked, r) <= 0 /\ -In(InBusy, pc[r]) = -1 /\ -In(InRegister, pc[r]) = -1
  BY <1>2 DEF In, InBusy, InRegister
<1>4. CASE CountAndRelease(r, 0, -1)
  <2>1. Shifts(r, 0, -1, -1)
    BY <1>1, <1>2, <1>4, ReleaseShifts
  <2> QED BY <1>1, <1>2, <1>3, <2>1, LeaveCoreKeeps DEF Places
<1>5. CASE CountAndRelease(r, 0, 0)
  <2>1. Shifts(r, 0, 0, -1)
    BY <1>1, <1>2, <1>5, ReleaseShifts
  <2> QED BY <1>1, <1>2, <1>3, <2>1, LeaveCoreKeeps DEF Places
<1>6. CASE Finish(r) \/ FinishHeld(r)
  <2>1. CountAndRelease(r, 0, -1)
    BY <1>2, <1>6 DEF Finish, FinishHeld, Dequeued
  <2> QED BY <1>4, <2>1
<1>7. CASE StopCancelled(r)
  <2>1. CountAndRelease(r, 0, 0)
    BY <1>2, <1>7 DEF StopCancelled, Dequeued
  <2> QED BY <1>5, <2>1
<1> QED BY <1>6, <1>7

LEMMA EndedKeeps ==
  ASSUME IInv, NEW r \in Calls, Ended(r)
  PROVE  Keeps
<1>1. Typed /\ StageOK(r)
  BY DEF IInv
<1>2. pc[r] = "ending" /\ hold[r] = "stopped" /\ r \notin marked
  BY <1>1 DEF Ended, StageOK
<1>3. Goes(r, "out", "none")
  BY <1>1, <1>2 DEF Ended, Goes, Typed, counterVars
<1>4. StageOK(r)'
  BY <1>1, <1>2 DEF Ended, Typed, counterVars, StageOK
<1>5. Covered(r, "out", 0, 0, 0)
  BY <1>1, <1>2, StayCovered DEF Ended, counterVars, In, InBusy, InRegister, Places
<1>6. admitted' = admitted + Claim("out") - Claim(pc[r]) /\ emitters' = emitters + Emits("none") - Emits(hold[r])
  BY <1>1, <1>2 DEF Ended, Claim, Emits, In, Places, Typed
<1> QED BY <1>3, <1>4, <1>5, <1>6, CallKeeps DEF Places

LEMMA GateKeeps ==
  ASSUME IInv, closed' \in BOOLEAN, UNCHANGED <<mode, admitted, counterVars, emitters, pc, hold>>
  PROVE  Keeps
<1>1. /\ mode' = mode /\ admitted' = admitted /\ queued' = queued /\ inflight' = inflight /\ entry' = entry
      /\ marked' = marked /\ emitters' = emitters /\ pc' = pc /\ hold' = hold
  BY DEF counterVars
<1>2. Typed'
  BY <1>1 DEF IInv, Typed
<1>3. /\ Core' = Core /\ Emitting' = Emitting /\ Busy' = Busy /\ Registered' = Registered
  BY <1>1 DEF Core, Emitting, Busy, Registered, Unregistered
<1>4. \A r \in Calls : StageOK(r)'
  BY <1>1 DEF IInv, StageOK, QueueEnabled
<1>5. \E q, i, h \in Counts : Tallied(q, i, h)'
  <2>1. PICK q \in Counts, i \in Counts, h \in Counts : Tallied(q, i, h)
    BY DEF IInv
  <2>2. Tallied(q, i, h)'
    BY <2>1, <1>1, <1>3 DEF Tallied
  <2> QED BY <2>2
<1> QED BY <1>1, <1>2, <1>3, <1>4, <1>5 DEF IInv, Keeps

LEMMA NextKeeps ==
  ASSUME IInv, [Next]_vars
  PROVE  Keeps
<1>1. ASSUME NEW r \in Calls, CallStep(r)
      PROVE  Keeps
  <2>1. CASE Leave(r)
    BY <2>1, AnswerEarlyKeeps, PacingExpiresKeeps, OpeningFailsKeeps, LeaveQueueKeeps, StopHoldKeeps,
       LeaveSlotKeeps, EndedKeeps DEF Leave
  <2> QED BY <1>1, <2>1, AdmitKeeps, HoldPacingKeeps, RegisterKeeps, OpenedKeeps, EnterKeeps, GiveBackKeeps,
             HoldPushbackKeeps DEF CallStep
<1>2. CASE Quiesce \/ Resume
  BY <1>2, GateKeeps DEF Quiesce, Resume
<1>3. CASE UNCHANGED vars
  <2>1. closed' \in BOOLEAN /\ UNCHANGED <<mode, admitted, counterVars, emitters, pc, hold>>
    BY <1>3 DEF vars, IInv, Typed
  <2> QED BY <2>1, GateKeeps
<1> QED BY <1>1, <1>2, <1>3 DEF Next

LEMMA InitKept ==
  ASSUME Init
  PROVE  IInv /\ emitters = Cardinality(Emitting)
<1> DEFINE n == [c \in Clients |-> 0]
<1>1. Typed
  BY DEF Init, Typed
<1>2. Core = {} /\ Emitting = {} /\ Busy = {} /\ Registered = {} /\ marked = {}
  BY DEF Init, Core, Emitting, Busy, Registered, Unregistered
<1>3. \A S : S = {} => IsFiniteSet(S) /\ Cardinality(S) = 0
  BY FS_EmptySet
<1>4. \A r \in Calls : StageOK(r)
  BY DEF Init, StageOK, QueueEnabled
<1>5. Tallied(n, n, n)
  <2>1. Units(n) = {}
    BY DEF Units
  <2>2. \A c \in Clients : Of({}, c) = {}
    BY DEF Of
  <2>3. \A c \in Clients : Kept(entry[c], n[c], n[c], n[c]) /\ n[c] = 0
    BY DEF Init, Kept
  <2> HIDE DEF n
  <2> QED BY <1>2, <1>3, <2>1, <2>2, <2>3 DEF Tallied, Init
<1>6. n \in Counts
  OBVIOUS
<1>7. admitted = 0 /\ emitters = 0 /\ queued = 0 /\ inflight = 0
  BY DEF Init
<1>8. \E q, i, h \in Counts : Tallied(q, i, h)
  <2> HIDE DEF n
  <2> QED BY <1>5, <1>6
<1> HIDE DEF n
<1> QED BY <1>1, <1>2, <1>3, <1>4, <1>7, <1>8 DEF IInv

-----------------------------------------------------------------------------
(* What the books say. *)

LEMMA InvSays ==
  ASSUME IInv
  PROVE  TypeOK /\ DrainIsTruthful /\ EntryIsKept /\ CountersAreTrue
<1>1. Typed /\ admitted = Cardinality(Core) /\ queued >= Cardinality(marked) /\ inflight >= Cardinality(Busy)
  BY DEF IInv
<1>2. PICK q \in Counts, i \in Counts, h \in Counts : Tallied(q, i, h)
  BY DEF IInv
<1>3. \A c \in Clients : Kept(entry[c], q[c], i[c], h[c])
  BY <1>2 DEF Tallied
<1>4. TypeOK
  <2>1. ASSUME NEW c \in Clients
        PROVE  entry[c] \subseteq Tally /\ Cardinality(entry[c]) <= 1
    <3>1. entry[c] \subseteq Tally
      BY <1>1 DEF Typed
    <3>2. Cardinality({}) = 0 /\ \A x : Cardinality({x}) = 1
      BY FS_EmptySet, FS_Singleton
    <3>3. Cardinality(entry[c]) \in {0, 1}
      BY <3>2, <1>3 DEF Kept
    <3> QED BY <3>1, <3>3
  <2> QED BY <2>1, <1>1 DEF TypeOK, Typed
<1>5. DrainIsTruthful
  <2>1. Core \subseteq Calls
    BY DEF Core, Registered, Unregistered
  <2>2. IsFiniteSet(Core)
    BY <2>1, SomeCalls
  <2> QED BY <1>1, <2>2, FS_EmptySet DEF DrainIsTruthful
<1>6. EntryIsKept
  <2> SUFFICES ASSUME NEW r \in Registered, entry[ClientOf[r]] = {}
               PROVE  FALSE
    BY DEF EntryIsKept
  <2> DEFINE c == ClientOf[r]
  <2>1. r \in Calls /\ c \in Clients
    BY DEF Registered
  <2>2. h[c] = 0
    BY <1>3, <2>1 DEF Kept
  <2>3. r \in Of(Registered, c) /\ Of(Registered, c) \subseteq Calls
    BY DEF Of, Registered
  <2>4. IsFiniteSet(Of(Registered, c)) /\ Cardinality(Of(Registered, c)) \in Nat
    BY <2>3, SomeCalls
  <2>5. Cardinality(Of(Registered, c)) # 0
    BY <2>3, <2>4, FS_EmptySet
  <2>6. Cardinality(Of(Registered, c)) <= h[c]
    BY <1>2, <2>1 DEF Tallied
  <2> QED BY <2>2, <2>4, <2>5, <2>6
<1>7. CountersAreTrue
  <2>1. QueuedUnits = Units(q) /\ InflightUnits = Units(i)
    BY <1>3, UnitsOfEntries
  <2>2. queued = Cardinality(QueuedUnits) /\ inflight = Cardinality(InflightUnits)
    BY <2>1, <1>2 DEF Tallied
  <2> DEFINE W == {r \in Calls : pc[r] = "waiting" /\ QueueEnabled}
  <2>3. W \subseteq marked /\ marked \subseteq Calls
    BY <1>1 DEF IInv, StageOK, Typed
  <2>4. IsFiniteSet(marked) /\ Cardinality(marked) \in Nat
    BY <2>3, SomeCalls
  <2>5. Cardinality(W) <= Cardinality(marked) /\ Cardinality(W) \in Nat
    BY <2>3, <2>4, SomeCalls, FS_Subset
  <2>6. queued >= Cardinality(W)
    <3> HIDE DEF W
    <3> QED BY <1>1, <2>4, <2>5 DEF Typed
  <2> QED BY <1>1, <2>2, <2>6 DEF CountersAreTrue, Busy
<1> QED BY <1>4, <1>5, <1>6, <1>7

\* The lifecycle keeps its invariant, whatever waits are streamed.
THEOREM LifecycleInvariant == Spec => []IInv
<1>1. Init => IInv
  BY InitKept
<1>2. IInv /\ [Next]_vars => IInv'
  BY NextKeeps DEF Keeps
<1> QED BY <1>1, <1>2, PTL DEF Spec

\* Every variable has its type (_Counters never takes a count below zero).
THEOREM LifecycleTyped == Spec => []TypeOK
<1>1. IInv => TypeOK
  BY InvSays
<1> QED BY <1>1, LifecycleInvariant, PTL

\* A drained gate has drained, a call's client has an entry as long as the call
\* is registered, and the gauges and the clients' entries tell the calls there
\* are, on every path out of _handler_core and _run_slot.
THEOREM CountsAreTrueHolds == Spec => [](DrainIsTruthful /\ EntryIsKept /\ CountersAreTrue)
<1>1. IInv => DrainIsTruthful /\ EntryIsKept /\ CountersAreTrue
  BY InvSays
<1> QED BY <1>1, LifecycleInvariant, PTL

\* With one wait before routing streamed at most (_hold_deferral), the emitters
\* too are exactly the open streams, and all the books are true.
THEOREM BooksAreTrueHolds ==
  ASSUME OneDeferral
  PROVE  Spec => []BooksAreTrue
<1>1. Init => EmitInv
  BY InitKept DEF EmitInv
<1>2. EmitInv /\ [Next]_vars => EmitInv'
  <2> SUFFICES ASSUME EmitInv, [Next]_vars
               PROVE  EmitInv'
    OBVIOUS
  <2>1. IInv /\ emitters = Cardinality(Emitting)
    BY DEF EmitInv
  <2>2. IInv' /\ emitters' - Cardinality(Emitting') = emitters - Cardinality(Emitting)
    BY <2>1, OneDeferral, NextKeeps DEF Keeps
  <2>3. emitters \in Nat /\ emitters' \in Nat
    BY <2>1, <2>2 DEF IInv, Typed
  <2>4. Emitting \subseteq Calls /\ Emitting' \subseteq Calls
    BY DEF Emitting
  <2>5. Cardinality(Emitting) \in Nat /\ Cardinality(Emitting') \in Nat
    BY <2>4, SomeCalls
  <2>6. emitters' = Cardinality(Emitting')
    BY <2>1, <2>2, <2>3, <2>5
  <2> QED BY <2>2, <2>6 DEF EmitInv
<1>3. EmitInv => BooksAreTrue
  <2> SUFFICES ASSUME EmitInv
               PROVE  BooksAreTrue
    OBVIOUS
  <2>1. IInv /\ emitters = Cardinality(Emitting)
    BY DEF EmitInv
  <2>2. EmittersAreOwned
    BY <2>1 DEF EmittersAreOwned, Emitting, IInv, StageOK
  <2> QED BY <2>1, <2>2, InvSays DEF BooksAreTrue
<1> QED BY <1>1, <1>2, <1>3, PTL DEF Spec
=============================================================================
