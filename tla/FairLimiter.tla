---------------------------- MODULE FairLimiter ----------------------------
(***************************************************************************)
(* FairBearerLimiter (limiter.py): the slots of one bearer.  Requests of  *)
(* several clients park in per-client FIFO queues, served round-robin; a  *)
(* second such structure, the priority lane, is served from a reserve of  *)
(* its own.  AIMD and the operator move the cap while requests run.       *)
(*                                                                         *)
(* Every method body that holds the limiter's lock runs without an await, *)
(* so each is one action.  A request suspends in one place only, at       *)
(* "await fut"; the queue-wait timeout (wait_for) or the end of the       *)
(* call's task cancels it there, and its clean-up runs as a later step.   *)
(* Ordering inside a client by project share (_prefer_under_share, on     *)
(* only while the account's budget is AMBER or RED) is left out.          *)
(***************************************************************************)
EXTENDS Integers, Sequences, FiniteSets

CONSTANTS
  Requests,      \* calls, each outside, parked, granted or holding a slot
  Clients,       \* client ids
  ClientOf,      \* [Requests -> Clients]
  Modes,         \* modes of admission a process may run its limiters in
  HardMaxes,     \* values the operator gives the hard ceiling
  Reserves,      \* values the operator gives PRIORITY_RESERVE_SLOTS
  LiveFloors,    \* values the operator gives the AIMD warm-start cap
  AimdMin,       \* AIMD_MIN
  AimdInitial,   \* AIMD_INITIAL_CONCURRENT
  DecreasePct    \* AIMD_DECREASE, in percent

ASSUME LimiterAssumption ==
  /\ IsFiniteSet(Requests)
  /\ ClientOf \in [Requests -> Clients]
  /\ Modes \subseteq {"off", "observe", "fair", "reactive"} /\ Modes # {}
  /\ HardMaxes \subseteq Nat \ {0} /\ HardMaxes # {}
  /\ Reserves \subseteq Nat /\ Reserves # {}
  /\ LiveFloors \subseteq Nat \ {0}
  /\ AimdMin \in Nat \ {0} /\ AimdInitial \in Nat \ {0}
  /\ DecreasePct \in 0..100

VARIABLES
  status,        \* status[r]: where the call's coroutine is
  lane,          \* lane[r]: the pool charged for a granted or held slot
  cancelled,     \* parked or granted calls whose task has been cancelled
  queues,        \* queues[l][c]: parked futures of client c in lane l
  rotation,      \* rotation[l]: _rr_order and _priority_rr
  inflight,      \* slots taken, both lanes
  priorityInflight,
  maxConcurrent, \* the live AIMD cap
  hardMax,       \* the operator's ceiling
  reserve,       \* config.PRIORITY_RESERVE_SLOTS
  mode,          \* queue_mode, which a later request may promote
  kick           \* a reserve retune's kick_existing_limiters task is pending

slotVars  == <<status, lane, cancelled>>
queueVars == <<queues, rotation>>
countVars == <<inflight, priorityInflight>>
capVars   == <<maxConcurrent, hardMax>>
knobVars  == <<reserve, mode, kick>>
vars == <<slotVars, queueVars, countVars, capVars, knobVars>>

Lanes == {"main", "priority"}
QueueEnabled   == mode \in {"fair", "reactive"}
ObserveEnabled == mode # "off"

Lesser(a, b)  == IF a < b THEN a ELSE b
Greater(a, b) == IF a < b THEN b ELSE a

\* Futures the dispatcher may still resolve.
Live == {r \in Requests : status[r] = "parked" /\ r \notin cancelled}

\* Calls that own a slot, whether or not their coroutine has learnt of it.
Holders == {r \in Requests : status[r] \in {"granted", "holding"}}
HoldersOf(l) == {r \in Holders : lane[r] = l}

\* Variant: holders a lowered reserve no longer covers are not counted.
NormalBusyForgetsRetired(n, p, r) == n - p

\* Main-pool occupancy: holders of the reserve sit outside the main cap only
\* while the live reserve still covers them.
NormalBusy(n, p, r) == n - Lesser(p, r)

-----------------------------------------------------------------------------
(***************************************************************************)
(* One lane of the dispatcher.  A turn <<i, n>> is the i-th parked future *)
(* of the n-th client of the rotation; popping the head client's oldest   *)
(* future and sending the client to the tail takes the turns round by     *)
(* round.  DispatchLoop checks these closed forms against the loop.         *)
(***************************************************************************)
Turns(qs, order) ==
  UNION {{<<i, n>> : i \in DOMAIN qs[order[n]]} : n \in DOMAIN order}

Earlier(t, u) == t[1] < u[1] \/ (t[1] = u[1] /\ t[2] < u[2])

Future(qs, order, t) == qs[order[t[2]]][t[1]]

LiveTurns(qs, order, live) ==
  {t \in Turns(qs, order) : Future(qs, order, t) \in live}

\* Variant: one more turn than there are slots.
PoppedOneMore(qs, order, live, k) ==
  {t \in Turns(qs, order) :
     Cardinality({u \in LiveTurns(qs, order, live) : Earlier(u, t)}) <= k}

\* Turns taken to resolve k live futures; cancelled ones are dropped on the way.
Popped(qs, order, live, k) ==
  LET turns == LiveTurns(qs, order, live)
  IN  {t \in Turns(qs, order) : Cardinality({u \in turns : Earlier(u, t)}) < k}

\* The futures resolved by those turns.
Granted(qs, order, live, k) ==
  {Future(qs, order, t) : t \in Popped(qs, order, live, k) \cap LiveTurns(qs, order, live)}

\* Turns of a set that are client c's.
TurnsOf(pop, order, c) == Cardinality({t \in pop : order[t[2]] = c})

QueuesAfter(qs, order, pop) ==
  [c \in Clients |-> SubSeq(qs[c], TurnsOf(pop, order, c) + 1, Len(qs[c]))]

\* The members of S in the order of s.
Keep(s, S) ==
  LET Picked[kept \in SUBSET DOMAIN s] ==
        [i \in 1..Cardinality(kept) |->
           s[CHOOSE n \in kept : Cardinality({m \in kept : m < n}) = i - 1]]
  IN  Picked[{n \in DOMAIN s : s[n] \in S}]

\* Variant: a served client keeps its place at the head.
RotationKeepsHead(qs, order, pop) ==
  LET after == QueuesAfter(qs, order, pop)
  IN  Keep(order, {c \in Clients : after[c] # <<>>})

\* Clients with work left stay in the rotation, those served in the round
\* the dispatcher stopped in behind those still waiting for their turn.
RotationAfter(qs, order, pop) ==
  LET after == QueuesAfter(qs, order, pop)
      left  == {c \in Clients : after[c] # <<>>}
      servedLast == {c \in left : \A t \in pop : t[1] <= TurnsOf(pop, order, c)}
  IN  Keep(order, left \ servedLast) \o Keep(order, servedLast)

\* Variant: the clients of the closed lane do not join the main rotation.
MigratedOffRotation(qs, rr) ==
  [queues |-> [main     |-> [c \in Clients |-> qs["main"][c] \o qs["priority"][c]],
               priority |-> [c \in Clients |-> <<>>]],
   rotation |-> [main |-> rr["main"], priority |-> <<>>]]

\* A reserve of 0 closes the lane: its futures join the main queues, each
\* client's behind its own, and its clients the tail of the main rotation.
Migrated(qs, rr) ==
  [queues |-> [main     |-> [c \in Clients |-> qs["main"][c] \o qs["priority"][c]],
               priority |-> [c \in Clients |-> <<>>]],
   rotation |-> [main     |-> rr["main"] \o
                    Keep(rr["priority"], {c \in Clients : qs["main"][c] = <<>>}),
                 priority |-> <<>>]]

\* _try_dispatch: both lanes, from queues qs and rr with n slots taken, p of
\* them in the priority pool, under the cap and reserve in force after the step.
\* The priority lane goes first: what it resolves is done for the main lane.
Dispatched(qs, rr, live, n, p, cap) ==
  LET m  == IF reserve = 0 THEN Migrated(qs, rr) ELSE [queues |-> qs, rotation |-> rr]
      qp == m.queues["priority"]
      op == m.rotation["priority"]
      pp == Popped(qp, op, live, reserve - p)
      gp == Granted(qp, op, live, reserve - p)
      k  == cap - NormalBusy(n + Cardinality(gp), p + Cardinality(gp), reserve)
      qm == m.queues["main"]
      om == m.rotation["main"]
      rest == live \ gp
      pm == Popped(qm, om, rest, k)
  IN  [queues   |-> [main |-> QueuesAfter(qm, om, pm), priority |-> QueuesAfter(qp, op, pp)],
       rotation |-> [main |-> RotationAfter(qm, om, pm), priority |-> RotationAfter(qp, op, pp)],
       main     |-> Granted(qm, om, rest, k),
       priority |-> gp]

\* The dispatch d takes effect on the statuses st and the counters n and p.
\* The futures in run belong to the running coroutine, which does not suspend.
Commit(d, run, st, ln, n, p) ==
  /\ queues' = d.queues
  /\ rotation' = d.rotation
  /\ status' = [r \in Requests |->
       IF r \in d.main \cup d.priority
         THEN IF r \in run THEN "holding" ELSE "granted"
         ELSE st[r]]
  /\ lane' = [r \in Requests |->
       IF r \in d.priority THEN "priority" ELSE IF r \in d.main THEN "main" ELSE ln[r]]
  /\ inflight' = n + Cardinality(d.main) + Cardinality(d.priority)
  /\ priorityInflight' = p + Cardinality(d.priority)

-----------------------------------------------------------------------------
AimdFloor(h) == Lesser(h, AimdMin)

InitialLiveCap(h) == Lesser(h, Greater(AimdMin, AimdInitial))

Init ==
  /\ status = [r \in Requests |-> "idle"]
  /\ lane = [r \in Requests |-> "main"]
  /\ cancelled = {}
  /\ queues = [l \in Lanes |-> [c \in Clients |-> <<>>]]
  /\ rotation = [l \in Lanes |-> <<>>]
  /\ inflight = 0 /\ priorityInflight = 0
  /\ hardMax \in HardMaxes
  /\ maxConcurrent = InitialLiveCap(hardMax)
  /\ reserve \in Reserves
  /\ mode \in Modes
  /\ kick = FALSE

EffectiveLane(prio) == IF prio /\ reserve > 0 THEN "priority" ELSE "main"

\* acquire_lease without a queue: the slot is taken at once.
AcquireUnqueued(r, prio) ==
  /\ ~QueueEnabled
  /\ status[r] = "idle"
  /\ status' = [status EXCEPT ![r] = "holding"]
  /\ lane' = [lane EXCEPT ![r] = EffectiveLane(prio)]
  /\ inflight' = inflight + 1
  /\ priorityInflight' = priorityInflight + (IF EffectiveLane(prio) = "priority" THEN 1 ELSE 0)
  /\ UNCHANGED <<cancelled, queueVars, capVars, knobVars>>

\* acquire_lease with a queue: park a future, dispatch, await the future.
Acquire(r, prio) ==
  /\ QueueEnabled
  /\ status[r] = "idle"
  /\ LET l  == EffectiveLane(prio)
         c  == ClientOf[r]
         qs == [queues EXCEPT ![l][c] = Append(@, r)]
         rr == IF queues[l][c] = <<>> THEN [rotation EXCEPT ![l] = Append(@, c)] ELSE rotation
         st == [status EXCEPT ![r] = "parked"]
     IN  \E d \in {Dispatched(qs, rr, Live \cup {r}, inflight, priorityInflight, maxConcurrent)} :
           Commit(d, {r}, st, lane, inflight, priorityInflight)
  /\ UNCHANGED <<cancelled, capVars, knobVars>>

\* The awaiting coroutine wakes with the lane its future was stamped with.
Resume(r) ==
  /\ status[r] = "granted" /\ r \notin cancelled
  /\ status' = [status EXCEPT ![r] = "holding"]
  /\ UNCHANGED <<lane, cancelled, queueVars, countVars, capVars, knobVars>>

\* max_wait expires or the call's task is cancelled: with it goes its future if
\* that is still pending (it stays in its queue).
Cancel(r) ==
  /\ status[r] \in {"parked", "granted"} /\ r \notin cancelled
  /\ cancelled' = cancelled \cup {r}
  /\ UNCHANGED <<status, lane, queueVars, countVars, capVars, knobVars>>


\* _remove_from: the future leaves its queue and an emptied client the rotation.
Removed(qs, rr, r) ==
  LET c == ClientOf[r]
      q == [l \in Lanes |-> [qs[l] EXCEPT ![c] = Keep(@, Requests \ {r})]]
  IN  [queues   |-> q,
       rotation |-> [l \in Lanes |-> Keep(rr[l], {x \in Clients : q[l][x] # <<>>})]]


\* _cancel_cleanup of a future that was never resolved.
CleanUpParked(r) ==
  /\ status[r] = "parked" /\ r \in cancelled
  /\ queues' = Removed(queues, rotation, r).queues
  /\ rotation' = Removed(queues, rotation, r).rotation
  /\ status' = [status EXCEPT ![r] = "idle"]
  /\ cancelled' = cancelled \ {r}
  /\ UNCHANGED <<lane, countVars, capVars, knobVars>>

\* Variant: the pool to credit is decided again, by the reserve of now.
GiveBackByKnob(r) ==
  LET n == inflight - 1
      p == priorityInflight - (IF lane[r] = "priority" /\ reserve > 0 THEN 1 ELSE 0)
  IN  \E d \in {Dispatched(queues, rotation, Live, n, p, maxConcurrent)} :
        Commit(d, {}, [status EXCEPT ![r] = "idle"], [lane EXCEPT ![r] = "main"], n, p)

\* The slot of r is given back and what it frees is dispatched.
GiveBack(r) ==
  LET n == inflight - 1
      p == priorityInflight - (IF lane[r] = "priority" THEN 1 ELSE 0)
  IN  \E d \in {Dispatched(queues, rotation, Live, n, p, maxConcurrent)} :
        Commit(d, {}, [status EXCEPT ![r] = "idle"], [lane EXCEPT ![r] = "main"], n, p)

\* Variant: the raced slot is returned and nobody is woken for it.
CleanUpGrantedSilently(r) ==
  /\ status[r] = "granted" /\ r \in cancelled
  /\ status' = [status EXCEPT ![r] = "idle"]
  /\ lane' = [lane EXCEPT ![r] = "main"]
  /\ inflight' = inflight - 1
  /\ priorityInflight' = priorityInflight - (IF lane[r] = "priority" THEN 1 ELSE 0)
  /\ cancelled' = cancelled \ {r}
  /\ UNCHANGED <<queueVars, capVars, knobVars>>

\* _cancel_cleanup of a future resolved before the cancellation reached it.
CleanUpGranted(r) ==
  /\ status[r] = "granted" /\ r \in cancelled
  /\ GiveBack(r)
  /\ cancelled' = cancelled \ {r}
  /\ UNCHANGED <<capVars, knobVars>>

\* release, from __aexit__.
Release(r) ==
  /\ status[r] = "holding"
  /\ GiveBack(r)
  /\ UNCHANGED <<cancelled, capVars, knobVars>>

\* The parked are dispatched under a cap just changed; nothing else moves.
Redispatch ==
  IF QueueEnabled
    THEN \E d \in {Dispatched(queues, rotation, Live, inflight, priorityInflight, maxConcurrent')} :
           Commit(d, {}, status, lane, inflight, priorityInflight)
    ELSE UNCHANGED <<status, lane, queueVars, countVars>>

-----------------------------------------------------------------------------
\* shrink: upstream pushback.  Nobody inside is stopped.
Shrink ==
  /\ ObserveEnabled
  /\ maxConcurrent' = Greater(AimdFloor(hardMax),
       Lesser((maxConcurrent * DecreasePct) \div 100, maxConcurrent - 1))
  /\ UNCHANGED <<slotVars, queueVars, countVars, hardMax, knobVars>>

\* grow, in a state where _may_grow holds (its clocks are AimdControl's).
Grow ==
  /\ ObserveEnabled
  /\ maxConcurrent < hardMax
  /\ maxConcurrent' = maxConcurrent + 1
  /\ Redispatch
  /\ UNCHANGED <<cancelled, hardMax, knobVars>>


\* _retune_limiter_hard_max without a live floor.
RetuneHardMax(h) ==
  /\ h # hardMax
  /\ hardMax' = h
  /\ maxConcurrent' = Lesser(maxConcurrent, h)
  /\ Redispatch
  /\ UNCHANGED <<cancelled, knobVars>>

\* _retune_limiter_hard_max with one: the warm-start cap was raised.
RetuneLiveFloor(h, floor) ==
  /\ hardMax' = h
  /\ maxConcurrent' = Greater(Lesser(maxConcurrent, h), Lesser(h, Greater(AimdMin, floor)))
  /\ Redispatch
  /\ UNCHANGED <<cancelled, knobVars>>

\* _set_priority_reserve_slots: the knob moves now, the kick is a later task.
SetReserve(n) ==
  /\ n # reserve
  /\ reserve' = n
  /\ kick' = TRUE
  /\ UNCHANGED <<slotVars, queueVars, countVars, capVars, mode>>

\* kick_existing_limiters.
Kick ==
  /\ kick
  /\ kick' = FALSE
  /\ \E d \in {Dispatched(queues, rotation, Live, inflight, priorityInflight, maxConcurrent)} :
       Commit(d, {}, status, lane, inflight, priorityInflight)
  /\ UNCHANGED <<cancelled, capVars, reserve, mode>>

\* _effective_admission, what a request asks of its limiter: QUEUE_MODE, which no
\* request and no operator changes (config.py reads it from the environment, once),
\* except that a process in "off" asks for "fair" where a central tier stands in.
EffectiveAdmission == IF mode \in {"off", "fair"} THEN {"off", "fair"} ELSE {mode}

\* Variant: a limiter with a queue is switched back to "off".
SwitchModeBack(m) ==
  /\ m \in EffectiveAdmission \ {mode}
  /\ mode' = m
  /\ UNCHANGED <<slotVars, queueVars, countVars, capVars, reserve, kick>>

\* set_queue_mode, by _get_bearer_limiter: calls already inside are left alone and
\* nothing is dispatched.  A limiter that queues is not switched back to "off".
SwitchMode(m) ==
  /\ m \in EffectiveAdmission \ {mode}
  /\ ~(m = "off" /\ QueueEnabled)
  /\ mode' = m
  /\ UNCHANGED <<slotVars, queueVars, countVars, capVars, reserve, kick>>

\* What the call's own task does once it is runnable.
TaskStep(r) == Resume(r) \/ CleanUpParked(r) \/ CleanUpGranted(r) \/ Release(r)

RequestStep(r) ==
  \/ \E prio \in BOOLEAN : AcquireUnqueued(r, prio) \/ Acquire(r, prio)
  \/ Cancel(r)
  \/ TaskStep(r)

ControlStep ==
  \/ Shrink \/ Grow \/ Kick
  \/ \E h \in HardMaxes :
       RetuneHardMax(h) \/ \E floor \in LiveFloors : RetuneLiveFloor(h, floor)
  \/ \E n \in Reserves : SetReserve(n)
  \/ \E m \in Modes : SwitchMode(m)

Next == (\E r \in Requests : RequestStep(r)) \/ ControlStep

Spec == Init /\ [][Next]_vars

\* A slot is given back (the upstream answers or its timeout fires), a woken or
\* cancelled task runs, and a scheduled kick runs: the event loop starves none.
\* Nobody is obliged to arrive, to cancel or to retune anything.
Fairness ==
  /\ \A r \in Requests : WF_vars(TaskStep(r))
  /\ WF_vars(Kick)

FairSpec == Spec /\ Fairness

-----------------------------------------------------------------------------
CountersOK ==
  /\ status \in [Requests -> {"idle", "parked", "granted", "holding"}]
  /\ lane \in [Requests -> Lanes]
  /\ cancelled \subseteq Requests
  /\ inflight \in Nat /\ priorityInflight \in Nat
  /\ maxConcurrent \in Nat \ {0} /\ hardMax \in HardMaxes
  /\ reserve \in Reserves
  /\ mode \in Modes
  /\ kick \in BOOLEAN

\* Every variable has its type; a cancellation is pending only on a call that
\* awaits its future.
TypeOK ==
  /\ CountersOK
  /\ queues \in [Lanes -> [Clients -> Seq(Requests)]]
  /\ rotation \in [Lanes -> Seq(Clients)]
  /\ \A r \in cancelled : status[r] \in {"parked", "granted"}

\* The counters that dispatch decides on are the slots really owned, through
\* timeouts and cancellations that race a dispatch and through a lane that a
\* retune moved under a parked call: no slot leaks and none is returned twice.
SlotAccounting ==
  /\ inflight = Cardinality(Holders)
  /\ priorityInflight = Cardinality(HoldersOf("priority"))

Entries(l, c) == {queues[l][c][i] : i \in DOMAIN queues[l][c]}

\* The dispatcher can reach every live waiter: it sits exactly once in one
\* queue of its own client, and the rotations list exactly the clients with
\* work, once each.  A call with a slot is in no queue.
NoLostWaiter ==
  /\ \A r \in Live : \E l \in Lanes : r \in Entries(l, ClientOf[r])
  /\ \A l \in Lanes, c \in Clients :
       /\ \A i, j \in DOMAIN queues[l][c] : queues[l][c][i] = queues[l][c][j] => i = j
       /\ \A r \in Entries(l, c) :
            status[r] = "parked" /\ ClientOf[r] = c /\ \A m \in Lanes \ {l} : r \notin Entries(m, c)
       /\ Cardinality({n \in DOMAIN rotation[l] : rotation[l][n] = c})
            = (IF queues[l][c] = <<>> THEN 0 ELSE 1)

\* Work conservation: a live waiter waits only while its pool is full, except
\* between a reserve retune and the kick it schedules.
NoStrandedWaiter ==
  \A r \in Live :
    \/ kick
    \/ r \in Entries("main", ClientOf[r])
         /\ NormalBusy(inflight, priorityInflight, reserve) >= maxConcurrent
    \/ r \in Entries("priority", ClientOf[r])
         /\ reserve > 0 /\ priorityInflight >= reserve

\* Nobody is forgotten: every live waiter is where the dispatcher looks, and is there
\* only because its pool is full.
WaitersAreReachable == NoLostWaiter /\ NoStrandedWaiter

\* The live cap stays between the AIMD floor's resting place and the ceiling.
CapWithinCeiling == 1 <= maxConcurrent /\ maxConcurrent <= hardMax

\* Calls of client c that enter the main pool in a step, turns of its main
\* queue used up by it, and whether c still has the same live waiter after it.
EntersMain(c) ==
  {r \in Requests : ClientOf[r] = c /\ r \notin Holders /\ r \in Holders' /\ lane'[r] = "main"}
TurnsUsed(c) == Entries("main", c) \ Entries("main", c)'
KeepsWaiting(c) ==
  \E r \in Live \cap Live' : r \in Entries("main", c) /\ r \in Entries("main", c)'
Before(order, c, d) ==
  \A m, n \in DOMAIN order : order[m] = c /\ order[n] = d => m < n

\* Round-robin between clients: while c waits, no client d enters the main
\* pool more than one call ahead of the turns c has had, and having got ahead
\* d stands behind c; and between two clients that neither enter nor use a
\* turn the order does not change.
RoundRobin ==
  [][\A c, d \in Clients : c # d /\ KeepsWaiting(c) =>
       LET ahead == Cardinality(EntersMain(d)) - Cardinality(TurnsUsed(c))
       IN  /\ EntersMain(d) # {} => ahead <= 1
           /\ EntersMain(d) # {} /\ ahead = 1 => Before(rotation'["main"], c, d)
           /\ KeepsWaiting(d) /\ TurnsUsed(c) \cup TurnsUsed(d) = {} =>
                (Before(rotation["main"], c, d) <=> Before(rotation'["main"], c, d))]_vars

\* Nobody waits for ever: a parked call gets its slot, or its cancellation is
\* cleaned up, whatever other clients do and however the limits are retuned.
EveryWaiterLeaves == \A r \in Requests : status[r] = "parked" ~> status[r] # "parked"

Pool == INSTANCE SlotPool WITH
  waiting    <- Live,
  inMain     <- HoldersOf("main"),
  inPriority <- HoldersOf("priority"),
  limit      <- [cap |-> maxConcurrent, reserve |-> reserve, queueing |-> QueueEnabled]

\* The limiter keeps the promise of SlotPool: whoever enters a pool finds it
\* within the limits in force, and nobody is thrown out.
ImplementsPool == Pool!PoolSpec

=============================================================================
