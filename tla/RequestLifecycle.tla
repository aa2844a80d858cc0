-------------------------- MODULE RequestLifecycle --------------------------
(***************************************************************************)
(* What the proxy counts of a request between its arrival and its answer   *)
(* (proxy.py: handler, _handler_core, _run_slot, _Counters), for one       *)
(* bearer: the liveness claim of admission, the queued and inflight        *)
(* counters and their per-client scope, the client's entry and the         *)
(* keepalive streams.  Operators close admission and wait for the counters *)
(* to fall to zero before they stop the process.                           *)
(*                                                                         *)
(* One event loop: what happens between two suspensions is one action.     *)
(* The limiter's lock is never held across an await, so taking it does not *)
(* suspend and _finalize runs through.  Which waiter gets a slot is        *)
(* FairLimiter's business, which bearer a call goes to ProbeGate's.        *)
(***************************************************************************)
EXTENDS Integers, FiniteSets

CONSTANTS
  Calls,      \* requests; each may come again once answered
  Clients,    \* client ids
  ClientOf,   \* [Calls -> Clients]
  Streaming,  \* calls whose wait is streamed (_stream_hold_wanted)
  Deferrals,  \* reasons to stream a wait before routing: "pace", then "share"
  Modes,      \* queue modes considered
  MaxCount    \* bound on what leaks may pile up in a counter

ASSUME LifecycleAssumption ==
  /\ IsFiniteSet(Calls) /\ IsFiniteSet(Clients)
  /\ ClientOf \in [Calls -> Clients]
  /\ Streaming \subseteq Calls
  /\ Deferrals \subseteq {"pace", "share"} /\ MaxCount \in Nat
  /\ Modes \subseteq {"off", "observe", "fair", "reactive"}

VARIABLES
  mode,      \* the queue mode, an environment setting (a promotion is FairLimiter!SwitchMode's)
  closed,    \* _admission_closed
  admitted,  \* state["admitted_holds"]
  queued, inflight,  \* of the process
  emitters,  \* state["keepalive_holds_active"]
  entry,     \* entry[c]: what the bearer keeps of client c, in a set: it may keep nothing
  pc,        \* pc[r]: where the call is
  marked,    \* calls whose counters say queued_incremented
  hold       \* hold[r]: its stream: "none", "open" (its wait's), "retry" (a pushback's) or "stopped"

counterVars == <<queued, inflight, entry, marked>>
vars == <<mode, closed, admitted, counterVars, emitters, pc, hold>>

QueueEnabled == mode \in {"fair", "reactive"}

\* Calls that hold a _Counters, and so their client's entry.
Registered == {r \in Calls : pc[r] \in {"opening", "waiting", "working", "stopping"}}
\* Calls without one that look for a route, and all calls inside _handler_core.
Unregistered == {r \in Calls : pc[r] \in {"arriving", "paced", "serving"}}
Core == Registered \cup Unregistered \cup {r \in Calls : pc[r] = "expired"}

Init ==
  /\ mode \in Modes /\ closed = FALSE
  /\ admitted = 0 /\ queued = 0 /\ inflight = 0 /\ emitters = 0
  /\ entry = [c \in Clients |-> {}]
  /\ pc = [r \in Calls |-> "out"]
  /\ marked = {}
  /\ hold = [r \in Calls |-> "none"]

-----------------------------------------------------------------------------
(* _Counters: each counter moves in all scopes at once. *)

\* The entry e of a client after its counters moved by q, i and h.
Moved(e, q, i, h) ==
  {[queued |-> x.queued + q, inflight |-> x.inflight + i, hold |-> x.hold + h] : x \in e}


\* prune_client_if_idle.
Pruned(e) == {x \in e : x.queued # 0 \/ x.inflight # 0 \/ x.hold # 0}

\* The queue and slot counters of r move by q and i.
Count(r, q, i) ==
  /\ queued' = queued + q
  /\ inflight' = inflight + i
  /\ entry' = [entry EXCEPT ![ClientOf[r]] = Moved(@, q, i, 0)]

\* ... and its claim on the entry ends (release_client_hold).
CountAndRelease(r, q, i) ==
  /\ queued' = queued + q
  /\ inflight' = inflight + i
  /\ entry' = [entry EXCEPT ![ClientOf[r]] = Pruned(Moved(@, q, i, -1))]

\* Variant: the rollback of one path does not know of the other's.
DequeuedAgain(r) == IF QueueEnabled THEN 1 ELSE 0

\* What dequeue takes off: nothing if it was not counted or taken off already.
Dequeued(r) == IF r \in marked THEN 1 ELSE 0

-----------------------------------------------------------------------------

\* Variant: the gate is not looked at.
AdmitAlways(r) ==
  /\ pc[r] = "out"
  /\ admitted' = admitted + 1
  /\ pc' = [pc EXCEPT ![r] = "arriving"]
  /\ UNCHANGED <<mode, closed, counterVars, emitters, hold>>

\* _handler_core admits; a closed gate answers before anything is touched.
Admit(r) ==
  /\ pc[r] = "out" /\ ~closed
  /\ admitted' = admitted + 1
  /\ pc' = [pc EXCEPT ![r] = "arriving"]
  /\ UNCHANGED <<mode, closed, counterVars, emitters, hold>>


\* _handler_core is left: the claim ends, and a stream whose answer is still
\* due is stopped by handler, which then writes the terminal event.
LeaveCore(r) ==
  /\ admitted' = admitted - 1
  /\ pc' = [pc EXCEPT ![r] = IF hold[r] = "open" THEN "ending" ELSE "out"]
  /\ hold' = [hold EXCEPT ![r] = IF @ = "open" THEN "stopped" ELSE "none"]
  /\ emitters' = emitters - (IF hold[r] \in {"open", "retry"} THEN 1 ELSE 0)

\* Any answer, error or cancellation before a slot is asked for.
AnswerEarly(r) ==
  /\ r \in Unregistered \/ pc[r] = "expired"
  /\ LeaveCore(r)
  /\ UNCHANGED <<mode, closed, counterVars>>

\* _hold_deferral: the wait for the weekly pace, and after it the wait for the
\* client's share of it, are streamed.
HoldPacing(r, why) ==
  /\ why \in Deferrals /\ r \in Streaming
  /\ pc[r] = "arriving" \/ (why = "share" /\ pc[r] = "paced")
  /\ pc' = [pc EXCEPT ![r] = IF why = "pace" THEN "paced" ELSE "serving"]
  /\ hold' = [hold EXCEPT ![r] = "open"]
  /\ emitters' = emitters + 1
  /\ UNCHANGED <<mode, closed, admitted, counterVars>>

\* Its budget expires: the terminal event is written inside the core.
PacingExpires(r) ==
  /\ pc[r] \in {"paced", "serving"} /\ hold[r] = "open"
  /\ pc' = [pc EXCEPT ![r] = "expired"]
  /\ hold' = [hold EXCEPT ![r] = "stopped"]
  /\ emitters' = emitters - 1
  /\ UNCHANGED <<mode, closed, admitted, counterVars>>

\* _run_slot up to its first await.
Register(r) ==
  /\ r \in Unregistered
  /\ LET c == ClientOf[r]
         q == IF QueueEnabled THEN 1 ELSE 0
         e == IF entry[c] = {} THEN {[queued |-> 0, inflight |-> 0, hold |-> 0]} ELSE entry[c]
     IN  /\ \A x \in e : x.hold < MaxCount
         /\ entry' = [entry EXCEPT ![c] = Moved(e, q, 0, 1)]
         /\ queued' = queued + q
  /\ marked' = IF QueueEnabled THEN marked \cup {r} ELSE marked
  /\ pc' = [pc EXCEPT ![r] = IF r \in Streaming /\ hold[r] = "none" THEN "opening" ELSE "waiting"]
  /\ UNCHANGED <<mode, closed, admitted, inflight, emitters, hold>>

\* _open_deferral_hold: the stream is committed before the slot is asked for.
Opened(r) ==
  /\ pc[r] = "opening"
  /\ pc' = [pc EXCEPT ![r] = "waiting"]
  /\ hold' = [hold EXCEPT ![r] = "open"]
  /\ emitters' = emitters + 1
  /\ UNCHANGED <<mode, closed, admitted, counterVars>>

\* It raises (the client has gone), or is cancelled, before _run_slot's try.
OpeningFails(r) ==
  /\ pc[r] = "opening"
  /\ marked' = marked \ {r}
  /\ LeaveCore(r)
  /\ UNCHANGED <<mode, closed, queued, inflight, entry>>

\* No slot in time, or cancelled in the queue: the rollback.
LeaveQueue(r) ==
  /\ pc[r] = "waiting"
  /\ CountAndRelease(r, -Dequeued(r), 0)
  /\ marked' = marked \ {r}
  /\ LeaveCore(r)
  /\ UNCHANGED <<mode, closed>>


\* The slot is entered.
Enter(r) ==
  /\ pc[r] = "waiting" /\ inflight < MaxCount
  /\ Count(r, -Dequeued(r), 1)
  /\ marked' = marked \ {r}
  /\ pc' = [pc EXCEPT ![r] = "working"]
  /\ UNCHANGED <<mode, closed, admitted, emitters, hold>>

\* _post_slot_recheck or _RetryAfterArmed: the slot is given back and the call
\* goes through the gate again.  A streamed call is past these.
GiveBack(r) ==
  /\ pc[r] = "working" /\ hold[r] = "none"
  /\ CountAndRelease(r, -Dequeued(r), -1)
  /\ pc' = [pc EXCEPT ![r] = "serving"]
  /\ UNCHANGED <<mode, closed, admitted, marked, emitters, hold>>

\* _keepalive_hold_and_retry: a pushback is waited out on a stream, when the
\* answer may be one (any body may ask for it) and no earlier wait was streamed.
HoldPushback(r) ==
  /\ pc[r] = "working" /\ hold[r] = "none"
  /\ hold' = [hold EXCEPT ![r] = "retry"]
  /\ emitters' = emitters + 1
  /\ UNCHANGED <<mode, closed, admitted, counterVars, pc>>

\* Answered, failed or cancelled in its slot: _finalize and every finally.
Finish(r) ==
  /\ pc[r] = "working" /\ hold[r] # "open"
  /\ CountAndRelease(r, -Dequeued(r), -1)
  /\ LeaveCore(r)
  /\ UNCHANGED <<mode, closed, marked>>

\* A streamed call is answered: _dispatch_into_hold stops the pings first.
StopHold(r) ==
  /\ pc[r] = "working" /\ hold[r] = "open"
  /\ hold' = [hold EXCEPT ![r] = "stopped"]
  /\ emitters' = emitters - 1
  /\ pc' = [pc EXCEPT ![r] = "stopping"]
  /\ UNCHANGED <<mode, closed, admitted, counterVars>>

\* ... and then finalizes.
FinishHeld(r) ==
  /\ pc[r] = "stopping"
  /\ CountAndRelease(r, -Dequeued(r), -1)
  /\ LeaveCore(r)
  /\ UNCHANGED <<mode, closed, marked>>

\* It is cancelled while the emitter unwinds: _finalize is skipped.
StopCancelled(r) ==
  /\ pc[r] = "stopping"
  /\ CountAndRelease(r, -Dequeued(r), 0)
  /\ LeaveCore(r)
  /\ UNCHANGED <<mode, closed, marked>>

\* handler has written the terminal event.
Ended(r) ==
  /\ pc[r] = "ending"
  /\ pc' = [pc EXCEPT ![r] = "out"]
  /\ hold' = [hold EXCEPT ![r] = "none"]
  /\ UNCHANGED <<mode, closed, admitted, counterVars, emitters>>

Quiesce == ~closed /\ closed' = TRUE /\ UNCHANGED <<mode, admitted, counterVars, emitters, pc, hold>>
Resume == closed /\ closed' = FALSE /\ UNCHANGED <<mode, admitted, counterVars, emitters, pc, hold>>

\* What a call does on its way out; it may go round by GiveBack.
Leave(r) ==
  AnswerEarly(r) \/ PacingExpires(r) \/ OpeningFails(r) \/ LeaveQueue(r) \/ Finish(r) \/ StopHold(r)
    \/ FinishHeld(r) \/ StopCancelled(r) \/ Ended(r)

CallStep(r) ==
  \/ Admit(r) \/ (\E why \in Deferrals : HoldPacing(r, why)) \/ Register(r) \/ Opened(r) \/ Enter(r) \/ GiveBack(r) \/ HoldPushback(r)
  \/ Leave(r)

Next == (\E r \in Calls : CallStep(r)) \/ Quiesce \/ Resume

Spec == Init /\ [][Next]_vars

\* A call is answered: timeouts and deadlines bound every wait on the way.
Fairness == \A r \in Calls : WF_vars(Leave(r))

FairSpec == Spec /\ Fairness

-----------------------------------------------------------------------------
Tally == [queued : Int, inflight : Int, hold : Int]

\* Every variable has its type, and a client has one entry at most.
TypeOK ==
  /\ mode \in Modes /\ closed \in BOOLEAN
  /\ admitted \in Nat /\ queued \in Nat /\ inflight \in Nat /\ emitters \in Nat
  /\ \A c \in Clients : entry[c] \subseteq Tally /\ Cardinality(entry[c]) <= 1
  /\ pc \in [Calls -> {"out", "arriving", "paced", "serving", "expired", "opening", "waiting", "working", "stopping", "ending"}]
  /\ marked \subseteq Calls
  /\ hold \in [Calls -> {"none", "open", "retry", "stopped"}]

\* What the clients' entries count in the queue and in flight, unit by unit.
QueuedUnits == UNION {UNION {{c} \X (1..e.queued) : e \in entry[c]} : c \in Clients}
InflightUnits == UNION {UNION {{c} \X (1..e.inflight) : e \in entry[c]} : c \in Clients}

\* Quiesce, then drain: once admission is closed and the claims are down to
\* zero, nobody is being served, whatever died on the way.
DrainIsTruthful == closed /\ admitted = 0 => Core = {}

\* A sibling's exit never takes away the entry of a call that is registered.
EntryIsKept == \A r \in Registered : entry[ClientOf[r]] # {}

\* The gauges never show less than what is there, on every path out of the
\* queue, and no count is lost with a pruned entry: the clients' counters add
\* up to the process's.
CountersAreTrue ==
  /\ queued >= Cardinality({r \in Calls : pc[r] = "waiting" /\ QueueEnabled})
  /\ inflight >= Cardinality({r \in Calls : pc[r] \in {"working", "stopping"}})
  /\ queued = Cardinality(QueuedUnits)
  /\ inflight = Cardinality(InflightUnits)

\* A keepalive emitter runs for exactly the open streams, and a call that has
\* been answered leaves none behind.
EmittersAreOwned ==
  /\ emitters = Cardinality({r \in Calls : hold[r] \in {"open", "retry"}})
  /\ \A r \in Calls : pc[r] = "out" => hold[r] = "none"

\* What an operator reads before a restart is true on every path of every call: the
\* claims, the gauges, the clients' entries and the emitters.
BooksAreTrue == DrainIsTruthful /\ EntryIsKept /\ CountersAreTrue /\ EmittersAreOwned

\* A closed gate drains: the claims of admission come down to zero.
DrainConverges == closed ~> (admitted = 0 \/ ~closed)

\* The claim of _run_slot's rollback: whatever is cancelled, nothing stays
\* counted once nobody is there, and the client's entry goes with its last call.
NothingLeaks ==
  Core = {} => queued = 0 /\ inflight = 0 /\ \A c \in Clients : entry[c] = {}
=============================================================================
