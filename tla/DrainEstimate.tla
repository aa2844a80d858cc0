--------------------------- MODULE DrainEstimate ---------------------------
(***************************************************************************)
(* The queue-depth admission of one lane (limiter.py): from the ages of    *)
(* the calls that hold slots and the service time it has measured, a       *)
(* limiter tells each arrival whether a slot can reach it within its wait  *)
(* budget, refuses it if not, and publishes the depth it would still       *)
(* admit.  Calls are those of one client, first come first served; the     *)
(* fair rotation is in FairLimiter and its rank in DispatchLoop!AheadOf.   *)
(***************************************************************************)
EXTENDS Integers, Sequences, FiniteSetsExt

CONSTANTS
  MaxSlots,    \* largest live cap
  MaxHolds,    \* bound of the model: calls in flight
  MaxQueue,    \* bound of the model: calls parked
  Typical,     \* p90 of the measured service times, or the cold default
  MaxWait,     \* the wait budget a call arrives with
  RetryFloor,  \* QUEUE_TIMEOUT_RETRY_AFTER_S
  RetryCap     \* QUEUE_RETRY_AFTER_MAX_S

VARIABLES
  slots,       \* max_concurrent
  evidenced,   \* the service time was measured
  ages,        \* how long each slot has been held, in order of dispatch
  queue,       \* parked calls: [waited, promised]
  heavy,       \* some call has run longer than Typical
  told         \* Retry-After of the last refusal, 0 when none

drainVars == <<slots, evidenced, ages, queue, heavy, told>>

DrainInit ==
  /\ slots \in 1..MaxSlots /\ evidenced \in BOOLEAN
  /\ ages \in UNION {[1..n -> {0}] : n \in 0..MaxHolds}
  /\ queue = <<>> /\ heavy = FALSE /\ told = 0

Least(S) == Min(S)
AllButFirst(s, n) == SubSeq(s, n + 1, Len(s))
AllBut(s, i) == SubSeq(s, 1, i - 1) \o SubSeq(s, i + 1, Len(s))
Sum(S, value(_)) == MapThenSumSet(value, S)

(***************************************************************************)
(* The estimate.                                                           *)
(***************************************************************************)
Service == Max({Typical} \cup Range(ages))
Evidenced == evidenced \/ Service > Typical

\* How much longer each slot is modelled to run; an overdue one is priced at a whole service.
Residual(age) == IF age < Typical THEN Typical - age ELSE Service
EndsBefore(i, j) ==
  \/ Residual(ages[i]) < Residual(ages[j])
  \/ Residual(ages[i]) = Residual(ages[j]) /\ i < j

\* Slots in use and, up to the cap, idle ones, which are free now.
Slots == DOMAIN ages \cup (Len(ages) + 1)..slots
FreeIn(i) == IF i \in DOMAIN ages THEN Residual(ages[i]) ELSE 0
\* Above the cap the first completions only pay down the overshoot.
PaidDown ==
  {i \in DOMAIN ages : Cardinality({j \in DOMAIN ages : EndsBefore(j, i)}) < Len(ages) - slots}

\* Variant: every slot in use is a server, also above the cap.
AvailableOvershot == [i \in Slots |-> FreeIn(i)]
\* When each server is free.
Available == [i \in Slots \ PaidDown |-> FreeIn(i)]

\* Dispatches that begin by the horizon.
StartsWithin(available, service, horizon) ==
  Sum({i \in DOMAIN available : available[i] <= horizon},
      LAMBDA i : (horizon - available[i]) \div service + 1)

\* When the dispatch after "ahead" others begins: the inverse of StartsWithin.
WaitForPosition(available, service, ahead) ==
  Least({h \in 0..Max(Range(available)) + (ahead + 1) * service :
           StartsWithin(available, service, h) >= ahead + 1})

AdmissibleAhead(horizon) == StartsWithin(Available, Service, horizon) - 1
Admits(ahead) == ahead <= AdmissibleAhead(MaxWait)
MaxDepth == Max({0, AdmissibleAhead(MaxWait)})

RetryAfter(wait) == Min({RetryCap, Max({RetryFloor, wait})})
\* A call refused before it waited is not told to come back sooner than its budget.
BudgetFloored(wait) == Min({RetryCap, Max({RetryAfter(wait), MaxWait})})

\* One call may wait behind the only slot's only holder, whatever the estimate says.
FirstWaiter == slots = 1 /\ Len(ages) = 1 /\ queue = <<>>

(***************************************************************************)
(* The lane.                                                               *)
(***************************************************************************)
\* Dispatch as many parked calls as there are slots for.
Dispatch(holds, parked) ==
  LET n == Min({Len(parked), Max({0, slots - Len(holds)})})
  IN /\ ages' = holds \o [i \in 1..n |-> 0]
     /\ queue' = AllButFirst(parked, n)

Arrive ==
  LET ahead == Len(queue)
      rejects == Evidenced /\ ~Admits(ahead)
  IN /\ Len(queue) < MaxQueue /\ Len(ages) < MaxHolds + 1
     /\ IF rejects /\ ~FirstWaiter
        THEN /\ told' = BudgetFloored(WaitForPosition(Available, Service, ahead))
             /\ UNCHANGED <<ages, queue>>
        ELSE /\ Dispatch(ages, Append(queue, [waited |-> 0, promised |-> Admits(ahead)]))
             /\ told' = 0
     /\ UNCHANGED <<slots, evidenced, heavy>>

Complete ==
  \E i \in DOMAIN ages :
    /\ Dispatch(AllBut(ages, i), queue)
    /\ evidenced' = TRUE
    /\ UNCHANGED <<slots, heavy, told>>

\* Time passes; a call may turn out heavier than what the lane has measured.
Tick ==
  /\ \A i \in DOMAIN ages : ages[i] < 2 * Typical
  /\ \A i \in DOMAIN queue : queue[i].waited < MaxWait
  /\ ages' = [i \in DOMAIN ages |-> ages[i] + 1]
  /\ queue' = [i \in DOMAIN queue |-> [queue[i] EXCEPT !.waited = @ + 1]]
  /\ heavy' = (heavy \/ \E i \in DOMAIN ages : ages[i] >= Typical)
  /\ UNCHANGED <<slots, evidenced, told>>

\* A call whose budget is spent leaves the queue; what it is told owes nothing to that budget.
GiveUp ==
  /\ queue # <<>> /\ Head(queue).waited = MaxWait
  /\ queue' = Tail(queue)
  /\ told' = RetryAfter(WaitForPosition(Available, Service, Len(queue')))
  /\ UNCHANGED <<slots, evidenced, ages, heavy>>

\* Pushback closes slots under the calls: what was promised to them is void.
Shrink ==
  /\ slots > 1
  /\ slots' = slots - 1
  /\ queue' = [i \in DOMAIN queue |-> [queue[i] EXCEPT !.promised = FALSE]]
  /\ UNCHANGED <<evidenced, ages, heavy, told>>

DrainNext == Arrive \/ Complete \/ Tick \/ GiveUp \/ Shrink

(***************************************************************************)
(* What must hold.                                                         *)
(***************************************************************************)
\* While no call runs longer than the lane has measured and no slot is taken away, a call
\* that was admitted on the estimate is dispatched before its wait budget is spent: it
\* never reaches the queue-wait timeout, however the calls before it end.
AdmittedInTime ==
  ~heavy => \A i \in DOMAIN queue : queue[i].promised /\ queue[i].waited = MaxWait =>
    \E j \in DOMAIN ages : ages[j] = Typical

\* The schedule the estimate stands for, one dispatch at a time: the earliest free slot
\* takes the next call and is busy for a service.
GreedyStart ==
  LET start[n \in 0..MaxQueue] ==
        LET free == IF n = 0 THEN Available ELSE start[n - 1].free
            at == Min(Range(free))
            server == Min({i \in DOMAIN free : free[i] = at})
        IN [at |-> at, free |-> [free EXCEPT ![server] = at + Service]]
  IN [n \in 0..MaxQueue |-> start[n].at]

\* Closed form and schedule agree: the wait told to an arrival is its start in the greedy
\* schedule, and it is admitted exactly when that start is within its budget, which is
\* what the published depth says as well.
StartsAreGreedy ==
  \A ahead \in 0..MaxQueue :
    /\ WaitForPosition(Available, Service, ahead) = GreedyStart[ahead]
    /\ Admits(ahead) <=> GreedyStart[ahead] <= MaxWait
    /\ ahead > 0 => (Admits(ahead) <=> ahead <= MaxDepth)

EstimatesAreKept == AdmittedInTime /\ StartsAreGreedy
=============================================================================
