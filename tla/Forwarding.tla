----------------------------- MODULE Forwarding -----------------------------
(***************************************************************************)
(* From a slot to the answer (forwarding.py; proxy.py: _forward_with_retry *)
(* and what it calls).  A call is sent to central, the tier above, or      *)
(* directly to upstream; it is retried on failure, on pushback and inside  *)
(* a keepalive hold, and every layer has its own idea of what ends a call. *)
(* Beside the calls a poll decides whether central is used at all.         *)
(*                                                                         *)
(* One event loop: an action is the code between two awaits.  Statuses are *)
(* classes: a throttle (429, 503, 529) is told apart by what the code asks *)
(* of it.  Slots are FairLimiter's, windows and probes ProbeGate's: a call *)
(* handed back to the routing gate ends here.  Cancellation of a handler,  *)
(* which only a stopping server does, is left out.                         *)
(***************************************************************************)
EXTENDS Integers, FiniteSets, FiniteSetsExt

CONSTANTS
  Calls,        \* calls that have been routed, one visit of a slot each
  Streamed,     \* calls a pushback may put into a keepalive hold
  Deferred,     \* calls whose stream was opened while they waited (_dispatch_into_hold)
  HasCentral,   \* CENTRAL_URL is set
  Queueless,    \* QUEUE_MODE is off
  OkNeeded, FailNeeded,  \* CENTRAL_HEALTH_OK_THRESHOLD, CENTRAL_HEALTH_FAIL_THRESHOLD
  MaxRetries,   \* RATE_PUSHBACK_RETRIES
  Budget        \* free-budget units of a window, for the one model there is

ASSUME ForwardingAssumption ==
  /\ IsFiniteSet(Calls) /\ Streamed \subseteq Calls /\ Deferred \subseteq Calls
  /\ HasCentral \in BOOLEAN /\ Queueless \in BOOLEAN
  /\ OkNeeded \in Nat \ {0} /\ FailNeeded \in Nat \ {0}
  /\ MaxRetries \in Nat /\ Budget \in Nat \ {0}

VARIABLES
  routing,   \* account routing is on
  central,   \* what health polls and failures made of central
  alive,     \* environment: central answers in time
  doomed,    \* calls that were under way to central when it stopped answering
  used,      \* units of the free budget claimed in this window
  pc, stage, \* where a call is, and in which layer
  via,       \* the target its slot visit was given
  tries,     \* pushback_retries
  owned,     \* calls whose attempt says aimd_owned
  lock,      \* calls that hold the direct-fallback lock
  late,      \* calls whose wait_deadline has passed
  answers,   \* ghost: answers begun on the client's connection
  torn,      \* ghost: calls whose answer broke off in a layer that goes on
  owed,      \* ghost: throttles heard of less reactions to them
  sends,     \* ghost: [try |-> ordinary attempts, late |-> held ones after the deadline]
  claims,    \* ghost: ordinary attempts let through in this window
  streak     \* ghost: healthy samples since the last sign of trouble

centralVars == <<central, streak>>
budgetVars == <<used, claims>>
layerVars == <<stage, via, tries>>
vars == <<routing, centralVars, alive, doomed, budgetVars, pc, layerVars,
          owned, lock, late, answers, torn, owed, sends>>

UnderWay == {"queued", "pacing", "sent", "fallback", "hold", "resting"}
Over == {"done", "back", "gone"}

\* What _aimd_feedback does something for; the others it skips on sight.
Reacting == {"concurrency", "budget", "wall", "overload"}
\* _is_transient_throttle: the hold's candidates.
Transient == {"concurrency", "overload", "queue"}
\* THROTTLE_STATUSES: "queue" is a marked queue timeout, "refusal" an entitlement refusal.
Throttles == Reacting \cup {"queue", "refusal"}
\* _should_retry_pushback leaves those two to the client.
Retryable == Throttles \ {"queue", "refusal"}

NoSends == [try |-> 0, late |-> 0]

Init ==
  /\ routing \in BOOLEAN
  /\ central = [status |-> "unknown", ok |-> 0, fail |-> 0] /\ streak = 0
  /\ alive = TRUE /\ doomed = {} /\ used = 0 /\ claims = 0
  /\ pc = [r \in Calls |-> "idle"] /\ stage = [r \in Calls |-> "loop"]
  /\ via = [r \in Calls |-> "direct"] /\ tries = [r \in Calls |-> 0]
  /\ owned = {} /\ lock = {} /\ late = {} /\ torn = {}
  /\ answers = [r \in Calls |-> 0] /\ owed = [r \in Calls |-> 0]
  /\ sends = [r \in Calls |-> NoSends]

-----------------------------------------------------------------------------
(* Central's health, and other things that happen beside the calls. *)

Capped(n, limit) == IF n < limit THEN n ELSE limit

\* Variant: a central that was given up stays so.
HealthyButDown(c) ==
  LET ok == Capped(c.ok + 1, OkNeeded) IN
  [status |-> IF c.status = "unknown" THEN "up" ELSE c.status, ok |-> ok, fail |-> 0]

\* _record_central_sample(True): an unknown central needs one good sample, a
\* down one a run of them.  Past their thresholds the counters only mean "enough".
Healthy(c) ==
  LET ok == Capped(c.ok + 1, OkNeeded)
      needed == IF c.status = "down" THEN OkNeeded ELSE 1 IN
  [status |-> IF ok >= needed THEN "up" ELSE c.status, ok |-> ok, fail |-> 0]

\* _record_central_sample(False).
Unhealthy(c) ==
  LET fail == Capped(c.fail + 1, FailNeeded) IN
  [status |-> IF fail >= FailNeeded THEN "down" ELSE c.status, ok |-> 0, fail |-> fail]


\* A call failed on central itself: down at once (_retry_direct_once).
Struck(c) == [c EXCEPT !.status = "down", !.ok = 0]

\* _poll_central_once.
Poll ==
  /\ HasCentral
  /\ central' = IF alive THEN Healthy(central) ELSE Unhealthy(central)
  /\ streak' = IF alive THEN Capped(streak + 1, OkNeeded) ELSE 0
  /\ UNCHANGED <<routing, alive, doomed, budgetVars, pc, layerVars, owned,
                 lock, late, answers, torn, owed, sends>>

\* The attempt of r is bound for central.
ToCentral(r) == via[r] = "central" /\ stage[r] # "fallback"

\* Central stops answering, and what is under way to it is lost, or is back.
CentralFlips ==
  /\ HasCentral /\ alive' = ~alive
  /\ doomed' = IF alive THEN doomed \cup {r \in Calls : pc[r] = "sent" /\ ToCentral(r)}
                        ELSE doomed
  /\ UNCHANGED <<routing, centralVars, budgetVars, pc, layerVars, owned,
                 lock, late, answers, torn, owed, sends>>

\* The free budget's window ends.
Roll ==
  /\ used > 0
  /\ used' = 0 /\ claims' = 0
  /\ UNCHANGED <<routing, centralVars, alive, doomed, pc, layerVars, owned,
                 lock, late, answers, torn, owed, sends>>

\* The client's patience ends.
Expire(r) ==
  /\ r \in (Streamed \cup Deferred) \ late /\ pc[r] \in UnderWay /\ stage[r] # "fallback"
  /\ late' = late \cup {r}
  /\ UNCHANGED <<routing, centralVars, alive, doomed, budgetVars, pc, layerVars,
                 owned, lock, answers, torn, owed, sends>>

-----------------------------------------------------------------------------
(* How a call leaves, and how it goes on. *)

\* r leaves with outcome k after n more answers, having heard of `heard' more
\* throttles.  _finalize reacts to a pushback, real or made up by an expired
\* hold, unless somebody owns the reaction.
Leave(r, at, k, n, heard) ==
  /\ pc' = [pc EXCEPT ![r] = at]
  /\ answers' = [answers EXCEPT ![r] = @ + n]
  /\ owed' = [owed EXCEPT ![r] =
       @ + heard - (IF k \in Reacting \cup {"expired"} /\ r \notin owned THEN 1 ELSE 0)]
  /\ stage' = [stage EXCEPT ![r] = "loop"] /\ via' = [via EXCEPT ![r] = "direct"]
  /\ tries' = [tries EXCEPT ![r] = 0] /\ sends' = [sends EXCEPT ![r] = NoSends]
  /\ owned' = owned \ {r} /\ lock' = lock \ {r}
  /\ late' = late \ {r} /\ doomed' = doomed \ {r}
  /\ UNCHANGED <<routing, centralVars, alive, budgetVars>>

End(r, k, n, heard) == Leave(r, "done", k, n, heard) /\ UNCHANGED torn

\* A refusal of our own (meter, free budget, prospective admission): flags on
\* the attempt keep it out of every reaction.
Refuse(r) == End(r, "local", 1, 0)

\* The client's connection is found closed.
Gone(r) == Leave(r, "gone", "gone", 0, 0) /\ UNCHANGED torn

\* r goes on at `at'; what it has heard it has reacted to.
GoOn(r, at) ==
  /\ pc' = [pc EXCEPT ![r] = at]
  /\ doomed' = doomed \ {r}
  /\ UNCHANGED <<routing, centralVars, alive, budgetVars, via, lock, late, owed, sends>>

-----------------------------------------------------------------------------
(* Up to transport. *)

\* pick_target and the first consult of the free budget, which claims nothing;
\* both before the wait for a slot.
Dispatch(r) ==
  /\ pc[r] = "idle"
  /\ IF r \in Deferred \/ used < Budget
     THEN /\ pc' = [pc EXCEPT ![r] = IF r \in Deferred THEN "hold" ELSE "queued"]
          /\ stage' = [stage EXCEPT ![r] = IF r \in Deferred THEN "hold" ELSE "loop"]
          /\ via' = [via EXCEPT ![r] =
               IF HasCentral /\ central.status # "down" THEN "central" ELSE "direct"]
          /\ UNCHANGED <<routing, centralVars, alive, doomed, budgetVars, tries,
                         owned, lock, late, answers, torn, owed, sends>>
     ELSE Refuse(r)

\* The emergency retry of a call that central failed and no queue held is serialised.
NeedsLock(r) == stage[r] = "fallback" /\ via[r] = "central" /\ Queueless /\ HasCentral


\* Every attempt claims a unit at its last point before transport.
Claim(r) ==
  /\ used < Budget
  /\ used' = used + 1 /\ claims' = claims + 1
  /\ pc' = [pc EXCEPT ![r] = "pacing"]
  /\ lock' = IF NeedsLock(r) THEN lock \cup {r} ELSE lock
  /\ UNCHANGED <<routing, centralVars, alive, doomed, layerVars, owned, late,
                 answers, torn, owed, sends>>

\* _try_forward up to its first await; the seat's meter or the budget may refuse.
Ask(r) ==
  /\ pc[r] \in {"queued", "fallback"}
  /\ NeedsLock(r) => lock = {}
  /\ Claim(r) \/ Refuse(r)

\* The counts of r's attempts, with the one it makes now.
Counted(r) ==
  [try |-> Capped(sends[r].try + (IF stage[r] = "hold" THEN 0 ELSE 1), MaxRetries + 3),
   late |-> Capped(sends[r].late + (IF stage[r] = "hold" /\ r \in late THEN 1 ELSE 0), 2)]

\* The pace and the reservation are awaited; then transport has the request.
Send(r) ==
  /\ pc[r] = "pacing"
  /\ pc' = [pc EXCEPT ![r] = "sent"]
  /\ sends' = [sends EXCEPT ![r] = Counted(r)]
  /\ doomed' = IF ~alive /\ ToCentral(r) THEN doomed \cup {r} ELSE doomed
  /\ UNCHANGED <<routing, centralVars, alive, budgetVars, layerVars, owned, lock,
                 late, answers, torn, owed>>

\* The reservation is refused, held or not.
ReservationRefused(r) == pc[r] = "pacing" /\ Refuse(r)

-----------------------------------------------------------------------------
(* Upstream's answer to an ordinary attempt. *)

Waiting(r, layer) == pc[r] = "sent" /\ stage[r] = layer

\* Anything but a throttle is relayed as it comes, a direct 5xx too.
Relay(r) ==
  /\ Waiting(r, "loop") \/ Waiting(r, "fallback")
  /\ r \notin doomed
  /\ End(r, "served", 1, 0)

\* Variant: a stream that breaks is a failure like any other.
RetryBroken(r) ==
  /\ Waiting(r, "loop") /\ r \notin doomed
  /\ GoOn(r, "fallback")
  /\ stage' = [stage EXCEPT ![r] = "fallback"]
  /\ answers' = [answers EXCEPT ![r] = @ + 1]
  /\ UNCHANGED <<tries, owned, torn>>

\* StreamCommittedError: the answer has begun; it is closed and not retried.
Break(r) ==
  /\ Waiting(r, "loop") /\ r \notin doomed
  /\ End(r, "served", 1, 0)

\* _retry_direct_once knows exceptions only, and makes this one a 502.
BreakInFallback(r) ==
  /\ Waiting(r, "fallback")
  /\ Leave(r, "done", "error", 2, 0)
  /\ torn' = torn \cup {r}


\* _pushback_retry_step waits the pause out in the slot; its reaction comes first.
Retry(r) ==
  /\ GoOn(r, "queued")
  /\ tries' = [tries EXCEPT ![r] = @ + 1]
  /\ UNCHANGED <<stage, owned, answers, torn>>

\* Variant: the hold does not own the reaction.
HoldUnowned(r) ==
  /\ GoOn(r, "hold")
  /\ stage' = [stage EXCEPT ![r] = "hold"]
  /\ UNCHANGED <<tries, owned, answers, torn>>

\* _keepalive_hold_and_retry: a 200 and pings go out, and the hold reacts for itself.
Hold(r) ==
  /\ GoOn(r, "hold")
  /\ stage' = [stage EXCEPT ![r] = "hold"]
  /\ owned' = owned \cup {r}
  /\ UNCHANGED <<tries, answers, torn>>

Heard(k) == IF k \in Reacting THEN 1 ELSE 0

\* _keepalive_hold_engages, _pushback_retry_engages.
HoldEngages(r, k) == r \in Streamed \ late /\ k \in Transient
RetryEngages(r, k) == tries[r] < MaxRetries /\ k \in Retryable

\* A throttle is held, handed back to the routing gate, failed fast, retried
\* here, or relayed.
Throttled(r, k) ==
  /\ Waiting(r, "loop") /\ r \notin doomed
  /\ \/ HoldEngages(r, k) /\ Hold(r)
     \/ /\ ~HoldEngages(r, k) /\ RetryEngages(r, k) /\ routing
        /\ Leave(r, "back", k, 0, Heard(k)) /\ UNCHANGED torn
     \/ /\ ~HoldEngages(r, k) /\ RetryEngages(r, k) /\ ~routing
        /\ IF k = "wall" THEN End(r, k, 1, Heard(k)) ELSE Retry(r)
     \/ /\ ~HoldEngages(r, k) /\ ~RetryEngages(r, k)
        /\ End(r, k, 1, Heard(k))

\* A throttle of the direct retry is relayed, or replaced by a fast failure.
ThrottledInFallback(r, k) ==
  Waiting(r, "fallback") /\ End(r, k, 1, Heard(k))

\* One direct retry.  Central is struck by its own failures, not by an
\* upstream error it relayed (proxy_served).
Recover(r, struck) ==
  /\ pc' = [pc EXCEPT ![r] = "fallback"] /\ stage' = [stage EXCEPT ![r] = "fallback"]
  /\ doomed' = doomed \ {r}
  /\ central' = IF struck THEN Struck(central) ELSE central
  /\ streak' = IF struck THEN 0 ELSE streak
  /\ UNCHANGED <<routing, alive, budgetVars, via, tries, owned, lock, late,
                 answers, torn, owed, sends>>

\* _forward_or_recover and _forward_recover_from_error.
Fail(r) ==
  /\ Waiting(r, "loop")
  /\ Gone(r) \/ Recover(r, r \in doomed)

FailInFallback(r) == Waiting(r, "fallback") /\ (Gone(r) \/ End(r, "error", 1, 0))

-----------------------------------------------------------------------------
(* The keepalive hold, and the dispatch into a stream opened earlier. *)

\* Variant: nobody looks at the deadline.
HoldTurnForEver(r) ==
  /\ pc[r] = "hold"
  /\ GoOn(r, "resting") /\ UNCHANGED <<stage, tries, owned, answers, torn>>

\* The top of the loop.  The pause after it ends at the deadline at the latest,
\* and an attempt follows all the same.
HoldTurn(r) ==
  /\ pc[r] = "hold"
  /\ IF r \in late THEN End(r, "expired", 1, 0)
     ELSE GoOn(r, "resting") /\ UNCHANGED <<stage, tries, owned, answers, torn>>

\* _keepalive_one_attempt: no unit is claimed; a meter's refusal ends it as a 503.
HoldAsk(r) ==
  /\ pc[r] = "resting"
  /\ \/ GoOn(r, "pacing") /\ UNCHANGED <<stage, tries, owned, answers, torn>>
     \/ End(r, "expired", 1, 0)

\* A body is piped into the open stream.
HoldServed(r) == Waiting(r, "hold") /\ r \notin doomed /\ End(r, "served", 1, 0)

\* A pipe that breaks is a transport failure, and those are tried again.
HoldBreaks(r) ==
  /\ Waiting(r, "hold") /\ r \notin doomed /\ r \notin torn
  /\ GoOn(r, "hold")
  /\ answers' = [answers EXCEPT ![r] = @ + 1]
  /\ torn' = torn \cup {r} /\ UNCHANGED <<stage, tries, owned>>

\* A transient throttle is reacted to and tried again; any other ends the hold,
\* whose terminal reacts, and _finalize once more unless the hold owns it.
HoldThrottled(r, k) ==
  /\ Waiting(r, "hold") /\ r \notin doomed
  /\ IF k \in Transient THEN GoOn(r, "hold") /\ UNCHANGED <<stage, tries, owned, answers, torn>>
     ELSE End(r, k, 1, 0)

HoldFails(r) ==
  /\ Waiting(r, "hold")
  /\ \/ Gone(r)
     \/ GoOn(r, "hold") /\ UNCHANGED <<stage, tries, owned, answers, torn>>

-----------------------------------------------------------------------------
Progress(r) ==
  \/ Ask(r) \/ Send(r) \/ ReservationRefused(r)
  \/ Relay(r) \/ Break(r) \/ BreakInFallback(r) \/ Fail(r) \/ FailInFallback(r)
  \/ \E k \in Throttles : Throttled(r, k) \/ ThrottledInFallback(r, k) \/ HoldThrottled(r, k)
  \/ HoldTurn(r) \/ HoldAsk(r) \/ HoldServed(r) \/ HoldBreaks(r) \/ HoldFails(r)

Next ==
  \/ Poll \/ CentralFlips \/ Roll
  \/ \E r \in Calls : Dispatch(r) \/ Progress(r) \/ Expire(r)

Spec == Init /\ [][Next]_vars

\* The poller runs, every attempt has a timeout, and patience ends.
Fairness ==
  /\ WF_vars(Poll)
  /\ \A r \in Calls : WF_vars(Progress(r)) /\ WF_vars(Expire(r))
FairSpec == Spec /\ Fairness

-----------------------------------------------------------------------------
TypeOK ==
  /\ routing \in BOOLEAN /\ alive \in BOOLEAN
  /\ central \in [status : {"unknown", "up", "down"}, ok : 0..OkNeeded, fail : 0..FailNeeded]
  /\ streak \in 0..OkNeeded
  /\ {doomed, owned, lock, late, torn} \subseteq SUBSET Calls
  /\ used \in 0..Budget /\ claims \in Nat
  /\ pc \in [Calls -> UnderWay \cup Over \cup {"idle"}]
  /\ stage \in [Calls -> {"loop", "fallback", "hold"}]
  /\ via \in [Calls -> {"central", "direct"}]
  /\ tries \in [Calls -> Nat]
  /\ answers \in [Calls -> Nat] /\ owed \in [Calls -> Int]
  /\ sends \in [Calls -> [try : Nat, late : Nat]]

\* Whatever the layers did, a client gets one answer: none is begun twice on a
\* connection, a call that is over has had it unless its client is gone, and one
\* that goes back to the routing gate has written nothing.  Not so for answers
\* that break off in the fallback or in a hold.
OneAnswer ==
  \A r \in Calls \ torn :
    /\ answers[r] <= 1
    /\ pc[r] = "done" => answers[r] = 1
    /\ pc[r] = "back" => answers[r] = 0

\* The limiter hears of every pushback once: the retry step, the hold, its
\* terminal and _finalize between them react neither twice nor not at all, and
\* never to a 503 the proxy made up itself.  Not so for calls whose stream was
\* open before they had a slot: their hold never takes the reaction over.
PushbackFedOnce ==
  \A r \in Calls \ Deferred : owed[r] = 0

\* The layers' budgets together: a slot visit makes at most MaxRetries retries
\* and one direct one, a hold starts at most one attempt after its deadline, and
\* all calls together no more ordinary attempts in a window than it has units,
\* however many passed the first consult.
AttemptsBounded ==
  /\ \A r \in Calls : sends[r].try <= MaxRetries + 2 /\ sends[r].late <= 1
  /\ claims <= Budget

\* No storm is fed: neither the upstream by the retries nor the limiter by what it
\* hears of them.
RetriesAreAccounted == PushbackFedOnce /\ AttemptsBounded

\* Once central answers for good it is used again, whatever late failures of
\* calls it lost are still to come.
CentralComesBack == HasCentral => (<>[]alive => <>[](central.status = "up"))

\* Every call that was dispatched is over one day.
EveryCallEnds == \A r \in Calls : pc[r] \in UnderWay ~> pc[r] \in Over

=============================================================================
