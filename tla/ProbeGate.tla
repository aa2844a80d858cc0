------------------------------ MODULE ProbeGate ------------------------------
(***************************************************************************)
(* The half-open gate of each bearer (limiter.py, _RetryProbeGate) and the *)
(* calls that route through it (proxy.py, _serve, _pre_dispatch_gate and   *)
(* _run_slot).  After a restart or a long Retry-After one call must probe  *)
(* the bearer and everybody else waits for its verdict or goes elsewhere.  *)
(*                                                                         *)
(* All tasks share one event loop: what happens between two awaits is one  *)
(* action.  Time passes in ticks; a window longer than MaxHold is "long".  *)
(* Account routing is on.  Slots are FairLimiter's business: here a queued *)
(* call is granted one at some moment.                                     *)
(***************************************************************************)
EXTENDS Integers, FiniteSets

CONSTANTS
  Bearers,    \* configured accounts
  Calls,      \* generation requests; each may come again once answered
  Home,       \* [Calls -> Bearers]: the bearer of the caller's own token
  Held,       \* calls that stream their wait (a deferral hold)
  Answers,    \* what upstream may say: "served", "failed", "refused", "pushback"
  MaxHold,    \* MAX_HOLD_RETRY_AFTER_S, in ticks
  MaxWindow,  \* longest Retry-After upstream sends, in ticks
  Bounded,    \* calls have a queue-wait budget
  Aborts,     \* a client may hang up, a call's task may be cancelled or die
  NoLease

ASSUME GateAssumption ==
  /\ IsFiniteSet(Calls)
  /\ Home \in [Calls -> Bearers]
  /\ Held \subseteq Calls
  /\ Answers \subseteq {"served", "failed", "refused", "pushback"}
  /\ MaxHold \in Nat /\ MaxWindow \in Nat
  /\ Bounded \in BOOLEAN /\ Aborts \in BOOLEAN
  /\ NoLease \notin Bearers

VARIABLES
  required, inflight, blocking,  \* the fields of each bearer's _RetryProbeGate
  window,    \* window[b]: ticks left of the bearer's Retry-After
  limiters,  \* bearers whose limiter has been allocated
  dead,      \* bearers whose credential is quarantined
  pc,        \* pc[r]: where the call's coroutine is
  bid,       \* bid[r]: the bearer it is routed to
  lease,     \* probe_lease["bid"]
  seen,      \* seen_retry_after_bids
  waited,    \* probe_waited
  on,        \* on[r]: the bearer whose probe it awaits
  woken,     \* waiters whose event has been set
  nap        \* nap[r]: ticks left of its asyncio.sleep

gateVars == <<required, inflight, blocking>>
bearerVars == <<window, limiters, dead>>
routeVars == <<bid, lease, seen, waited>>
waitVars == <<on, woken, nap>>
vars == <<gateVars, bearerVars, pc, routeVars, waitVars>>

-----------------------------------------------------------------------------
\* _bearer_routing_retry_after, asked by a call that would be the probe.
Routable(b) ==
  /\ b \notin dead
  /\ ~(required[b] /\ (inflight[b] \/ (window[b] > 0 /\ blocking[b])))
  /\ window[b] <= MaxHold

\* _account_route_decision: any usable account (which one is a matter of load),
\* else the caller's own, else a credential that is not dead.
RouteTo(r) ==
  LET usable == {b \in Bearers : Routable(b)}
      living == Bearers \ dead
  IN  IF usable # {} THEN usable
      ELSE IF Home[r] \in dead /\ living # {} THEN living
      ELSE {Home[r]}

\* try_begin_retry_probe, with the check of the window its callers make first.
MayClaim(b) == required[b] /\ ~inflight[b] /\ window[b] = 0

\* _route_account_and_claim_retry_probe: no await between route and claim.
RouteAndClaim(r) ==
  \E t \in RouteTo(r) :
    /\ bid' = [bid EXCEPT ![r] = t]
    /\ seen' = [seen EXCEPT ![r] = @ \cup {t}]
    /\ lease' = [lease EXCEPT ![r] = IF MayClaim(t) THEN t ELSE NoLease]
    /\ inflight' = [inflight EXCEPT ![t] = @ \/ MayClaim(t)]
    /\ UNCHANGED <<required, blocking>>


\* Calls waiting for the verdict of b's probe.
Awaiting(b) == {r \in Calls : pc[r] \in {"probe", "alternate"} /\ on[r] = b}


\* _finish_retry_probe: the lease goes, its gate stops being probed, a success
\* opens it, and whoever waits for the verdict is woken; r waits no more.
FinishProbe(r, ok) ==
  LET b == lease[r]
      live == b # NoLease /\ inflight[b]
  IN  /\ inflight' = IF live THEN [inflight EXCEPT ![b] = FALSE] ELSE inflight
      /\ required' = IF live /\ ok THEN [required EXCEPT ![b] = FALSE] ELSE required
      /\ blocking' = IF live /\ ok THEN [blocking EXCEPT ![b] = FALSE] ELSE blocking
      /\ lease' = [lease EXCEPT ![r] = NoLease]
      /\ woken' = (IF live THEN woken \cup Awaiting(b) ELSE woken) \ {r}

Longer(a, b) == IF a < b THEN b ELSE a

-----------------------------------------------------------------------------
\* A restart: every bearer is on probation and none has a limiter; a window
\* persisted before the crash may still be running.
Init ==
  /\ required = [b \in Bearers |-> TRUE]
  /\ inflight = [b \in Bearers |-> FALSE]
  /\ blocking = [b \in Bearers |-> FALSE]
  /\ window \in [Bearers -> {0, MaxWindow}]
  /\ limiters = {} /\ dead = {}
  /\ pc = [r \in Calls |-> "idle"]
  /\ bid = Home
  /\ lease = [r \in Calls |-> NoLease]
  /\ seen = [r \in Calls |-> {}]
  /\ waited = [r \in Calls |-> {}]
  /\ on = Home
  /\ woken = {}
  /\ nap = [r \in Calls |-> 0]

Goes(r, where) == pc' = [pc EXCEPT ![r] = where]

\* _serve up to the gate: _claim_route.
Arrive(r) ==
  /\ pc[r] = "idle"
  /\ RouteAndClaim(r)
  /\ Goes(r, "gate")
  /\ UNCHANGED <<bearerVars, waited, waitVars>>

\* _get_bearer_limiter at first sight of the bearer: a cold limiter is on
\* probation, and a restored window closes it to routing while it runs.
Allocate(r) ==
  /\ pc[r] = "gate" /\ bid[r] \notin limiters
  /\ limiters' = limiters \cup {bid[r]}
  /\ required' = [required EXCEPT ![bid[r]] = TRUE]
  /\ blocking' = [blocking EXCEPT ![bid[r]] = (required[bid[r]] /\ @) \/ window[bid[r]] > 0]
  /\ UNCHANGED <<inflight, window, dead, pc, routeVars, waitVars>>

AtGate(r) == pc[r] = "gate" /\ bid[r] \in limiters
NeedsProbe(r) == required[bid[r]] /\ lease[r] # bid[r]

\* _retry_after_reroute_headers: bearers not tried yet that open sooner.
Escapes(r) == {t \in RouteTo(r) \ (seen[r] \cup {bid[r]}) : window[t] < window[bid[r]]}

\* The window of the call's bearer is open and routing offers no escape.
Stuck(r) == window[bid[r]] > 0 /\ RouteTo(r) \ Escapes(r) # {}


\* Probes of other bearers the call may wait for, each once and never with a
\* lease of its own.
Alternates(r) ==
  IF lease[r] # NoLease THEN {}
  ELSE {a \in Bearers \ (waited[r] \cup {bid[r]}) : required[a] /\ inflight[a]}

\* Variant: the lease is kept on the way to another bearer.
EscapeWithLease(r) ==
  /\ AtGate(r) /\ window[bid[r]] > 0
  /\ \E t \in Escapes(r) :
       /\ bid' = [bid EXCEPT ![r] = t]
       /\ seen' = [seen EXCEPT ![r] = @ \cup {t}]
  /\ UNCHANGED <<gateVars, bearerVars, pc, lease, waited, waitVars>>

\* _try_retry_after_reroute: a lease on the bearer left behind is given up.
Escape(r) ==
  /\ AtGate(r) /\ window[bid[r]] > 0
  /\ \E t \in Escapes(r) :
       /\ bid' = [bid EXCEPT ![r] = t]
       /\ seen' = [seen EXCEPT ![r] = @ \cup {t}]
  /\ IF NeedsProbe(r) THEN UNCHANGED <<gateVars, lease, woken>> ELSE FinishProbe(r, FALSE)
  /\ UNCHANGED <<bearerVars, pc, waited, on, nap>>

\* _wait_for_alternate_probe.
AwaitAlternate(r) ==
  /\ AtGate(r) /\ Stuck(r)
  /\ \E a \in Alternates(r) :
       /\ on' = [on EXCEPT ![r] = a]
       /\ waited' = [waited EXCEPT ![r] = @ \cup {a}]
  /\ Goes(r, "alternate")
  /\ UNCHANGED <<gateVars, bearerVars, bid, lease, seen, woken, nap>>

\* _retry_after_fast_fail_response: too long to hold the caller.  From the
\* plain window check the lease is left to the task's done-callback.
FastFail(r) ==
  /\ AtGate(r) /\ Stuck(r) /\ Alternates(r) = {}
  /\ window[bid[r]] > MaxHold
  /\ IF NeedsProbe(r) THEN FinishProbe(r, FALSE) ELSE UNCHANGED <<gateVars, lease, woken>>
  /\ Goes(r, "ended")
  /\ UNCHANGED <<bearerVars, bid, seen, waited, on, nap>>

\* Sleep out a short window: "sleep" routes afresh afterwards, "park" keeps its
\* route and lease.
Park(r) ==
  /\ AtGate(r) /\ Stuck(r) /\ Alternates(r) = {}
  /\ window[bid[r]] <= MaxHold
  /\ Goes(r, IF NeedsProbe(r) THEN "sleep" ELSE "park")
  /\ nap' = [nap EXCEPT ![r] = window[bid[r]]]
  /\ UNCHANGED <<gateVars, bearerVars, routeVars, on, woken>>

Wake(r) ==
  /\ pc[r] \in {"sleep", "park"} /\ nap[r] = 0
  /\ IF pc[r] = "sleep" THEN RouteAndClaim(r) ELSE UNCHANGED <<gateVars, bid, seen, lease>>
  /\ Goes(r, "gate")
  /\ UNCHANGED <<bearerVars, waited, waitVars>>

\* Variant: the claim does not look whether a probe is in flight.
ClaimAnyway(r) ==
  /\ AtGate(r) /\ NeedsProbe(r) /\ window[bid[r]] = 0
  /\ inflight' = [inflight EXCEPT ![bid[r]] = TRUE]
  /\ lease' = [lease EXCEPT ![r] = bid[r]]
  /\ Goes(r, "queued")
  /\ UNCHANGED <<required, blocking, bearerVars, bid, seen, waited, waitVars>>

\* _pre_dispatch_probe_gate: the call becomes the probe.
ClaimProbe(r) ==
  /\ AtGate(r) /\ NeedsProbe(r) /\ MayClaim(bid[r])
  /\ inflight' = [inflight EXCEPT ![bid[r]] = TRUE]
  /\ lease' = [lease EXCEPT ![r] = bid[r]]
  /\ Goes(r, "queued")
  /\ UNCHANGED <<required, blocking, bearerVars, bid, seen, waited, waitVars>>

\* Another call is the probe: wait for its verdict.
AwaitProbe(r) ==
  /\ AtGate(r) /\ NeedsProbe(r) /\ window[bid[r]] = 0 /\ inflight[bid[r]]
  /\ on' = [on EXCEPT ![r] = bid[r]]
  /\ Goes(r, "probe")
  /\ UNCHANGED <<gateVars, bearerVars, routeVars, woken, nap>>

\* wait_retry_probe after its event: wait again if a new probe has begun.
Verdict(r) ==
  /\ pc[r] \in {"probe", "alternate"} /\ r \in woken
  /\ woken' = woken \ {r}
  /\ IF required[on[r]] /\ inflight[on[r]]
       THEN UNCHANGED <<gateVars, bid, seen, lease, pc>>
       ELSE RouteAndClaim(r) /\ Goes(r, "gate")
  /\ UNCHANGED <<bearerVars, waited, on, nap>>

\* Neither window nor probe stands in the way.
Proceed(r) ==
  /\ AtGate(r) /\ ~NeedsProbe(r) /\ window[bid[r]] = 0
  /\ Goes(r, "queued")
  /\ UNCHANGED <<gateVars, bearerVars, routeVars, waitVars>>

-----------------------------------------------------------------------------
\* _post_slot_recheck sends the call back to the gate: another bearer opens
\* sooner, a short window is open, or the bearer needs a probe again.  The
\* finally of _run_slot gives up whatever lease it has.
GiveBack(r) ==
  /\ pc[r] = "queued" /\ r \notin Held
  /\ \/ /\ window[bid[r]] > 0
        /\ \E t \in Escapes(r) :
             /\ bid' = [bid EXCEPT ![r] = t]
             /\ seen' = [seen EXCEPT ![r] = @ \cup {t}]
     \/ /\ Stuck(r) /\ window[bid[r]] <= MaxHold
        /\ UNCHANGED <<bid, seen>>
     \/ /\ window[bid[r]] = 0 /\ NeedsProbe(r)
        /\ UNCHANGED <<bid, seen>>
  /\ FinishProbe(r, FALSE)
  /\ Goes(r, "gate")
  /\ UNCHANGED <<bearerVars, waited, on, nap>>

\* The call ends in its slot without a dispatch: a long window, a client that
\* has gone.
Refrain(r) ==
  /\ pc[r] = "queued" /\ r \notin Held
  /\ Aborts \/ (Stuck(r) /\ window[bid[r]] > MaxHold)
  /\ FinishProbe(r, FALSE)
  /\ Goes(r, "ended")
  /\ UNCHANGED <<bearerVars, bid, seen, waited, on, nap>>

\* Variant: the slot is granted and nothing is looked at again.
DispatchUnchecked(r) ==
  /\ pc[r] = "queued" /\ r \notin Held
  /\ Goes(r, "flying")
  /\ UNCHANGED <<gateVars, bearerVars, routeVars, waitVars>>

\* The recheck finds the bearer open, or open to this call as its probe.
Dispatch(r) ==
  /\ pc[r] = "queued" /\ r \notin Held
  /\ window[bid[r]] = 0 /\ ~NeedsProbe(r)
  /\ Goes(r, "flying")
  /\ UNCHANGED <<gateVars, bearerVars, routeVars, waitVars>>

\* A held call enters _dispatch_into_hold, which reads the window once.
EnterHold(r) ==
  /\ pc[r] = "queued" /\ r \in Held
  /\ nap' = [nap EXCEPT ![r] = window[bid[r]]]
  /\ Goes(r, "holding")
  /\ UNCHANGED <<gateVars, bearerVars, routeVars, on, woken>>

HeldDispatch(r) ==
  /\ pc[r] = "holding" /\ nap[r] = 0
  /\ Goes(r, "flying")
  /\ UNCHANGED <<gateVars, bearerVars, routeVars, waitVars>>

\* Variant: the success is not reported to the gate.
ServedUnreported(r) ==
  /\ pc[r] = "flying" /\ "served" \in Answers
  /\ Goes(r, "streaming")
  /\ UNCHANGED <<gateVars, lease, woken, bearerVars, bid, seen, waited, on, nap>>

\* 2xx headers.  A probe's success opens its gate; a held call reports none.
Served(r) ==
  /\ pc[r] = "flying" /\ "served" \in Answers
  /\ IF r \in Held THEN UNCHANGED <<gateVars, lease, woken>> ELSE FinishProbe(r, TRUE)
  /\ Goes(r, "streaming")
  /\ UNCHANGED <<bearerVars, bid, seen, waited, on, nap>>

\* _finalize of a served call: its credential works.
EndStream(r) ==
  /\ pc[r] = "streaming"
  /\ dead' = dead \ {bid[r]}
  /\ FinishProbe(r, FALSE)
  /\ Goes(r, "ended")
  /\ UNCHANGED <<window, limiters, bid, seen, waited, on, nap>>

\* Any other answer that is relayed.
Failed(r) ==
  /\ pc[r] = "flying" /\ "failed" \in Answers
  /\ FinishProbe(r, FALSE)
  /\ Goes(r, "ended")
  /\ UNCHANGED <<bearerVars, bid, seen, waited, on, nap>>


\* 401 or 403, and _quarantine_bearer: the bearer's gate is dropped with its
\* waiters woken; the call's own finish then finds no gate.
Refused(r) ==
  /\ pc[r] = "flying" /\ "refused" \in Answers
  /\ LET b == bid[r]
     IN  IF b \in dead THEN FinishProbe(r, FALSE) /\ UNCHANGED dead
         ELSE /\ dead' = dead \cup {b}
              /\ required' = [required EXCEPT ![b] = FALSE]
              /\ inflight' = [inflight EXCEPT ![b] = FALSE]
              /\ blocking' = [blocking EXCEPT ![b] = FALSE]
              /\ woken' = woken \cup Awaiting(b)
              /\ lease' = [lease EXCEPT ![r] = NoLease]
  /\ Goes(r, "ended")
  /\ UNCHANGED <<window, limiters, bid, seen, waited, on, nap>>

\* note_retry_after: the window only grows, and a long one arms the gate.
NoteRetryAfter(b, p) ==
  /\ window' = [window EXCEPT ![b] = Longer(@, p)]
  /\ required' = IF p > MaxHold THEN [required EXCEPT ![b] = TRUE] ELSE required
  /\ blocking' = IF p > MaxHold THEN [blocking EXCEPT ![b] = TRUE] ELSE blocking

\* _pushback_retry_step with account routing: the window is latched and the call
\* goes back to the gate, its lease given up.
Pushback(r, p) ==
  /\ pc[r] = "flying" /\ r \notin Held /\ "pushback" \in Answers
  /\ NoteRetryAfter(bid[r], p)
  /\ LET b == lease[r]
         live == b # NoLease /\ inflight[b]
     IN  /\ inflight' = IF live THEN [inflight EXCEPT ![b] = FALSE] ELSE inflight
         /\ woken' = IF live THEN woken \cup Awaiting(b) ELSE woken
         /\ lease' = [lease EXCEPT ![r] = NoLease]
  /\ Goes(r, "gate")
  /\ UNCHANGED <<limiters, dead, bid, seen, waited, on, nap>>

\* Inside a hold it is latched and waited out, slot and lease kept.
HeldPushback(r, p) ==
  /\ pc[r] = "flying" /\ r \in Held /\ "pushback" \in Answers
  /\ NoteRetryAfter(bid[r], p)
  /\ nap' = [nap EXCEPT ![r] = Longer(window[bid[r]], p)]
  /\ Goes(r, "holding")
  /\ UNCHANGED <<inflight, limiters, dead, routeVars, on, woken>>

-----------------------------------------------------------------------------
\* The queue-wait budget runs out in a wait.
Expire(r) ==
  /\ Bounded
  /\ pc[r] \in {"sleep", "park", "probe", "alternate", "queued", "holding"}
  /\ FinishProbe(r, FALSE)
  /\ Goes(r, "ended")
  /\ UNCHANGED <<bearerVars, bid, seen, waited, on, nap>>

Slotted == {"queued", "holding", "flying", "streaming"}

\* The task is cancelled or raises.  From a slot on _run_slot's finally gives
\* the lease up; before that only the done-callback will.
Abort(r) ==
  /\ Aborts
  /\ pc[r] \notin {"idle", "ended"}
  /\ IF pc[r] \in Slotted THEN FinishProbe(r, FALSE)
     ELSE UNCHANGED <<gateVars, lease>> /\ woken' = woken \ {r}
  /\ Goes(r, "ended")
  /\ UNCHANGED <<bearerVars, bid, seen, waited, on, nap>>


\* The handler task's done-callback, a step of the loop after the task ended.
Done(r) ==
  /\ pc[r] = "ended"
  /\ pc' = [pc EXCEPT ![r] = "idle"]
  /\ bid' = [bid EXCEPT ![r] = Home[r]]
  /\ seen' = [seen EXCEPT ![r] = {}]
  /\ waited' = [waited EXCEPT ![r] = {}]
  /\ on' = [on EXCEPT ![r] = Home[r]]
  /\ nap' = [nap EXCEPT ![r] = 0]
  /\ FinishProbe(r, FALSE)
  /\ UNCHANGED bearerVars

\* _credential_recheck_one: the synthetic message was served.
Recover(b) ==
  /\ b \in dead
  /\ dead' = dead \ {b}
  /\ UNCHANGED <<gateVars, window, limiters, pc, routeVars, waitVars>>

\* clear_retry_after: fresh usage contradicts a long window; it is dropped, and
\* the bearer must be probed before the herd is let through.
UsageDecay(b) ==
  /\ window[b] > MaxHold
  /\ window' = [window EXCEPT ![b] = 0]
  /\ required' = [required EXCEPT ![b] = TRUE]
  /\ blocking' = [blocking EXCEPT ![b] = TRUE]
  /\ UNCHANGED <<inflight, limiters, dead, pc, routeVars, waitVars>>

Less(n) == IF n > 0 THEN n - 1 ELSE 0

Tick ==
  /\ (\E b \in Bearers : window[b] > 0) \/ (\E r \in Calls : nap[r] > 0)
  /\ window' = [b \in Bearers |-> Less(window[b])]
  /\ nap' = [r \in Calls |-> Less(nap[r])]
  /\ UNCHANGED <<gateVars, limiters, dead, pc, routeVars, on, woken>>

\* What a call does of itself at the gate, and what upstream's answer makes of it.
GateStep(r) ==
  \/ Allocate(r) \/ Escape(r) \/ AwaitAlternate(r) \/ FastFail(r) \/ Park(r)
  \/ Wake(r) \/ ClaimProbe(r) \/ AwaitProbe(r) \/ Verdict(r) \/ Proceed(r)
SlotStep(r) ==
  \/ GiveBack(r) \/ Refrain(r) \/ Dispatch(r) \/ EnterHold(r) \/ HeldDispatch(r)
FlightStep(r) ==
  \/ Served(r) \/ EndStream(r) \/ Failed(r) \/ Refused(r)
  \/ \E p \in 1..MaxWindow : Pushback(r, p) \/ HeldPushback(r, p)
CallStep(r) == GateStep(r) \/ SlotStep(r) \/ FlightStep(r) \/ Done(r)

Next ==
  \/ \E r \in Calls : Arrive(r) \/ CallStep(r) \/ Expire(r) \/ Abort(r)
  \/ \E b \in Bearers : Recover(b) \/ UsageDecay(b)
  \/ Tick

Spec == Init /\ [][Next]_vars

\* Time passes, slots are granted, upstream answers and tasks run.  Budgets
\* need not expire, tasks need not die and callers need not come.
Fairness ==
  /\ \A r \in Calls : WF_vars(CallStep(r))
  /\ WF_vars(Tick)

FairSpec == Spec /\ Fairness

\* And callers keep coming, and upstream in the end serves who keeps asking.
BusySpec == FairSpec /\ \A r \in Calls : WF_vars(Arrive(r)) /\ SF_vars(Served(r))

-----------------------------------------------------------------------------
\* Every variable has its type; a probe is in flight only on a gate in force.
TypeOK ==
  /\ required \in [Bearers -> BOOLEAN]
  /\ inflight \in [Bearers -> BOOLEAN]
  /\ blocking \in [Bearers -> BOOLEAN]
  /\ window \in [Bearers -> 0..MaxWindow]
  /\ limiters \subseteq Bearers /\ dead \subseteq Bearers
  /\ pc \in [Calls -> {"idle", "gate", "sleep", "park", "probe", "alternate", "ended"} \cup Slotted]
  /\ bid \in [Calls -> Bearers]
  /\ lease \in [Calls -> Bearers \cup {NoLease}]
  /\ seen \in [Calls -> SUBSET Bearers] /\ waited \in [Calls -> SUBSET Bearers]
  /\ on \in [Calls -> Bearers]
  /\ woken \subseteq Calls
  /\ nap \in [Calls -> 0..MaxWindow]
  /\ \A b \in Bearers : inflight[b] => required[b]

Probers(b) == {r \in Calls : lease[r] = b}

\* One probe at a time: at most one call holds a bearer's lease.
SingleProbe == \A b \in Bearers : \A r, s \in Probers(b) : r = s

\* A gate said to be probed has a live prober: no path, cancellation included,
\* loses a lease, which would keep the bearer out of routing for ever.
ProbeIsOwned == \A b \in Bearers : inflight[b] => Probers(b) # {}

\* A lease is for the bearer the call is routed to, so a new route never
\* overwrites the lease of an old one.
LeaseOnRoute == \A r \in Calls : lease[r] \in {NoLease, bid[r]}

\* No lost wake-up: whoever still waits unwoken waits for a probe in flight.
NoLostWakeUp == \A b \in Bearers : \A r \in Awaiting(b) \ woken : required[b] /\ inflight[b]

\* No circular wait: a call that holds a lease waits for nobody's probe.
HolderWaitsForNobody ==
  \A r \in Calls : pc[r] \in {"probe", "alternate"} => lease[r] = NoLease

\* No lease is lost, overwritten or waited for in a circle, on any path of a call.
LeasesAreKept == ProbeIsOwned /\ LeaseOnRoute /\ NoLostWakeUp /\ HolderWaitsForNobody

\* Only a probe's own success opens a gate; the quarantine of a refused
\* credential drops it.
OnlySuccessOpens ==
  [][\A b \in Bearers : required[b] /\ ~required'[b] =>
       \/ b \in dead' \ dead
       \/ \E r \in Probers(b) : pc[r] = "flying" /\ pc'[r] = "streaming"]_vars

\* While a bearer must be probed, nothing is dispatched on it but the probe.
NoHerd ==
  [][\A r \in Calls : pc[r] # "flying" /\ pc'[r] = "flying" /\ required[bid[r]] =>
       lease[r] = bid[r]]_vars

\* A half-open bearer is a closed one to everything but its probe, from the check
\* before the queue to the verdict.
GateIsObeyed == OnlySuccessOpens /\ NoHerd

\* Nobody sleeps for ever on a probe: every waiter is woken, or gone.
WaiterIsWoken ==
  \A r \in Calls : pc[r] \in {"probe", "alternate"} ~> (r \in woken \/ pc[r] \notin {"probe", "alternate"})

\* With callers coming and upstream serving them, a gate is opened again.
GateReopens == \A b \in Bearers : required[b] ~> ~required[b]
=============================================================================
