-------------------------- MODULE PersistenceOwner --------------------------
(***************************************************************************)
(* Prospective admission: PersistenceOwner (prospective_admission.py) and *)
(* the rolling-window ledger it persists (ledger.py), for one scope.      *)
(*                                                                         *)
(* The event loop owns the tickets; one worker thread owns the ledger and *)
(* its file and takes operations from a FIFO queue.  The loop and the     *)
(* worker interleave freely, a waiting caller may time out or be          *)
(* cancelled at any moment, any save may fail, and the process may be     *)
(* killed, or the machine lose power, between any two steps.              *)
(*                                                                         *)
(* A set of tickets stands for a set of ledger entries: an entry never    *)
(* changes but by leaving the set, and at[t] is the time of its debit.    *)
(* The clock is trusted to be monotonic, as ledger.py asks.               *)
(***************************************************************************)
EXTENDS Integers, Sequences, FiniteSets, FiniteSetsExt

CONSTANTS
  Tickets,      \* reservations ever asked for
  Cost,         \* [Tickets -> Nat]: input tokens and output bound
  MaxRequests,  \* Budgets.max_requests
  MaxTokens,    \* Budgets.max_tokens
  Window,       \* WINDOW_S, in ticks
  MaxPending,   \* max_pending
  MaxTime       \* bound on the clock

ASSUME OwnerAssumption ==
  /\ IsFiniteSet(Tickets)
  /\ Cost \in [Tickets -> Nat \ {0}]
  /\ MaxRequests \in Nat \ {0} /\ MaxTokens \in Nat \ {0}
  /\ Window \in Nat \ {0} /\ MaxPending \in Nat \ {0} /\ MaxTime \in Nat

VARIABLES
  now,
  mem,      \* entries of the LaneLedger, the worker's
  seen,     \* entries of the state file, as the running system shows it
  survivors, \* what a power loss may leave in its place, entries of each image
  at,       \* at[t]: time of t's debit
  queue,    \* operations submitted to the worker, the running one first
  stage,    \* where the worker is in that operation
  fault,    \* _fault
  owner,    \* "down", "loading", "loaded", "observed" or "ready"
  closing,  \* _closing
  pending,  \* _pending
  reading,  \* the snapshot asked for: "none", "asked" or "read"
  pc,       \* pc[t]: where the ticket's reserve() is
  result    \* result[t]: outcome of its operation, as its future has it

ledgerVars == <<mem, seen, survivors, at>>
workerVars == <<queue, stage, fault>>
loopVars == <<owner, closing, pending, reading>>
ticketVars == <<pc, result>>
vars == <<now, ledgerVars, workerVars, loopVars, ticketVars>>

Op(kind, t) == [kind |-> kind, ticket |-> t]
Ops == [kind : {"debit", "cancel"}, ticket : Tickets] \cup [kind : {"load", "snapshot"}]

\* Entries inside the rolling window (_prune drops the others).
Live(S) == {t \in S : now - at[t] < Window}

\* What their debits come to, one by one.
Tokens(S) == Cardinality(UNION {{t} \X (1..Cost[t]) : t \in S})

\* Variant: only the requests are counted.
FitsByCount(t) == Cardinality(Live(mem)) < MaxRequests

\* LaneLedger.check_and_debit accepts: one more request and its tokens fit.
Fits(t) ==
  /\ Cardinality(Live(mem)) < MaxRequests
  /\ Tokens(Live(mem)) + Cost[t] <= MaxTokens

-----------------------------------------------------------------------------
Init ==
  /\ now = 0
  /\ mem = {} /\ seen = {} /\ survivors = {{}}
  /\ at = [t \in Tickets |-> 0]
  /\ queue = <<>> /\ stage = "free" /\ fault = FALSE
  /\ owner = "down" /\ closing = FALSE /\ pending = 0 /\ reading = "none"
  /\ pc = [t \in Tickets |-> "idle"]
  /\ result = [t \in Tickets |-> "none"]

\* _available, once started.
Available == owner = "ready" /\ ~fault /\ ~closing

\* A new owner is built and start() submits the load.
Start ==
  /\ owner = "down"
  /\ owner' = "loading"
  /\ pending' = 1
  /\ queue' = <<[kind |-> "load"]>>
  /\ UNCHANGED <<now, ledgerVars, stage, fault, closing, reading, ticketVars>>

\* _operation_done of the load.
LoadObserved ==
  /\ owner = "loaded"
  /\ owner' = "observed"
  /\ pending' = pending - 1
  /\ UNCHANGED <<now, ledgerVars, workerVars, closing, reading, ticketVars>>

\* start() returns to its caller.
Started ==
  /\ owner = "observed" /\ ~fault /\ ~closing
  /\ owner' = "ready"
  /\ UNCHANGED <<now, ledgerVars, workerVars, closing, pending, reading, ticketVars>>


\* reserve: claim a permit and submit the debit.
Reserve(t) ==
  /\ pc[t] = "idle" /\ Available /\ pending < MaxPending
  /\ pc' = [pc EXCEPT ![t] = "waiting"]
  /\ pending' = pending + 1
  /\ queue' = Append(queue, Op("debit", t))
  /\ UNCHANGED <<now, ledgerVars, stage, fault, owner, closing, reading, result>>

\* The lease is yielded.
Granted(t) ==
  /\ pc[t] = "waiting" /\ result[t] = "leased"
  /\ pc' = [pc EXCEPT ![t] = "open"]
  /\ UNCHANGED <<now, ledgerVars, workerVars, loopVars, result>>

\* BudgetRefused.
BudgetRefused(t) ==
  /\ pc[t] = "waiting" /\ result[t] = "refused"
  /\ pc' = [pc EXCEPT ![t] = "left"]
  /\ pending' = pending - 1
  /\ UNCHANGED <<now, ledgerVars, workerVars, owner, closing, reading, result>>


\* The wait fails, times out or is cancelled, the outcome known or not:
\* _rollback_later takes the ticket over, permit included.
GiveUp(t) ==
  /\ pc[t] = "waiting"
  /\ pc' = [pc EXCEPT ![t] = "undo"]
  /\ UNCHANGED <<now, ledgerVars, workerVars, loopVars, result>>

\* Variant: a handed-off ticket keeps its permit.
HandoffKeepsPermit(t) ==
  /\ pc[t] = "open" /\ Available
  /\ now - at[t] < Window
  /\ pc' = [pc EXCEPT ![t] = "sent"]
  /\ UNCHANGED <<now, ledgerVars, workerVars, loopVars, result>>

\* handoff: the request goes to transport in the same step of the loop.
Handoff(t) ==
  /\ pc[t] = "open" /\ Available
  /\ now - at[t] < Window
  /\ pc' = [pc EXCEPT ![t] = "sent"]
  /\ pending' = pending - 1
  /\ UNCHANGED <<now, ledgerVars, workerVars, owner, closing, reading, result>>

\* The context ends with the ticket unsent (_finish).
ExitUnsent(t) ==
  /\ pc[t] = "open"
  /\ pc' = [pc EXCEPT ![t] = "undo"]
  /\ UNCHANGED <<now, ledgerVars, workerVars, loopVars, result>>

\* Variant: the rollback ends without cancelling the debit.
RollbackForgets(t) ==
  /\ pc[t] = "undo" /\ result[t] # "none"
  /\ pc' = [pc EXCEPT ![t] = IF result[t] = "failed" THEN "lost" ELSE "left"]
  /\ pending' = pending - 1
  /\ UNCHANGED <<now, ledgerVars, stage, fault, owner, closing, reading, queue, result>>


\* _rollback learns the debit's outcome: a lease is cancelled on the worker.
Rollback(t) ==
  /\ pc[t] = "undo" /\ result[t] # "none"
  /\ IF result[t] = "leased"
       THEN /\ pc' = [pc EXCEPT ![t] = "undoing"]
            /\ queue' = Append(queue, Op("cancel", t))
            /\ UNCHANGED pending
       ELSE /\ pc' = [pc EXCEPT ![t] = IF result[t] = "failed" THEN "lost" ELSE "left"]
            /\ pending' = pending - 1
            /\ UNCHANGED queue
  /\ UNCHANGED <<now, ledgerVars, stage, fault, owner, closing, reading, result>>

\* _rollback's finally, after the cancel.
RolledBack(t) ==
  /\ pc[t] = "undoing" /\ result[t] \in {"cancelled", "failed"}
  /\ pc' = [pc EXCEPT ![t] = IF result[t] = "failed" THEN "lost" ELSE "left"]
  /\ pending' = pending - 1
  /\ UNCHANGED <<now, ledgerVars, workerVars, owner, closing, reading, result>>

\* snapshot: a claim and a read on the worker (one at a time here).
Snapshot ==
  /\ Available /\ pending < MaxPending /\ reading = "none"
  /\ reading' = "asked"
  /\ pending' = pending + 1
  /\ queue' = Append(queue, [kind |-> "snapshot"])
  /\ UNCHANGED <<now, ledgerVars, stage, fault, owner, closing, ticketVars>>

\* _operation_done of the snapshot, whether or not its caller still waits.
SnapshotObserved ==
  /\ reading = "read"
  /\ reading' = "none"
  /\ pending' = pending - 1
  /\ UNCHANGED <<now, ledgerVars, workerVars, owner, closing, ticketVars>>

\* aclose; the task it creates waits for the last permit.
Close ==
  /\ owner # "down" /\ ~closing
  /\ closing' = TRUE
  /\ UNCHANGED <<now, ledgerVars, workerVars, owner, pending, reading, ticketVars>>

\* _drain: the executor is shut down, what is still queued dropped, and the
\* custody of the file may pass to a new owner.
Drained ==
  /\ closing /\ pending = 0
  /\ owner' = "down" /\ closing' = FALSE
  /\ mem' = {} /\ queue' = <<>> /\ stage' = "free" /\ fault' = FALSE
  /\ UNCHANGED <<now, seen, survivors, at, pending, reading, ticketVars>>

-----------------------------------------------------------------------------
(* The worker.  _run looks at the fault before every operation; a save is   *)
(* a whole new file, written and fsynced, then os.replace, then the fsync   *)
(* of its directory.                                                        *)

\* The running operation ends with outcome o, known to its ticket if it has one.
Finish(op, o) ==
  /\ queue' = Tail(queue)
  /\ stage' = "free"
  /\ result' = IF op.kind \in {"debit", "cancel"} THEN [result EXCEPT ![op.ticket] = o] ELSE result
  /\ owner' = IF op.kind = "load" THEN "loaded" ELSE owner
  /\ reading' = IF op.kind = "snapshot" THEN "read" ELSE reading
  /\ UNCHANGED <<pending, closing, pc>>

Running(kind) == stage = "free" /\ queue # <<>> /\ Head(queue).kind = kind /\ ~fault

\* The fault barrier.
Barred ==
  /\ stage = "free" /\ queue # <<>> /\ fault
  /\ Finish(Head(queue), "failed")
  /\ UNCHANGED <<now, ledgerVars, fault>>

\* _load; a missing or corrupt file is a failure.
Load ==
  /\ Running("load")
  /\ \/ mem' = seen /\ UNCHANGED fault
     \/ fault' = TRUE /\ UNCHANGED mem
  /\ Finish(Head(queue), "none")
  /\ UNCHANGED <<now, seen, survivors, at>>

\* The counters are read; expired entries are pruned from memory only.
TakeSnapshot ==
  /\ Running("snapshot")
  /\ mem' = Live(mem)
  /\ Finish(Head(queue), "none")
  /\ UNCHANGED <<now, seen, survivors, at, fault>>

\* check_and_debit up to the save.
Debit ==
  /\ Running("debit")
  /\ LET t == Head(queue).ticket
     IN  IF Fits(t)
           THEN /\ mem' = Live(mem) \cup {t}
                /\ at' = [at EXCEPT ![t] = now]
                /\ stage' = "write"
                /\ UNCHANGED <<queue, loopVars, ticketVars>>
           ELSE mem' = Live(mem) /\ UNCHANGED at /\ Finish(Head(queue), "refused")
  /\ UNCHANGED <<now, seen, survivors, fault>>

\* _cancel up to the save; an expired lease is a no-op.
Cancel ==
  /\ Running("cancel")
  /\ mem' = Live(mem) \ {Head(queue).ticket}
  /\ stage' = "write"
  /\ UNCHANGED <<now, seen, survivors, at, queue, fault, loopVars, ticketVars>>

Outcome(op) == IF op.kind = "debit" THEN "leased" ELSE "cancelled"

\* Variant: the operation is acknowledged after os.replace.
ReplaceAcknowledges ==
  /\ stage = "write"
  /\ seen' = mem
  /\ survivors' = survivors \cup {mem}
  /\ Finish(Head(queue), Outcome(Head(queue)))
  /\ UNCHANGED <<now, mem, at, fault>>

\* The new file is written, synced and renamed over the old: until the
\* directory is synced too a power loss may leave either.
Replace ==
  /\ stage = "write"
  /\ seen' = mem
  /\ survivors' = survivors \cup {mem}
  /\ stage' = "replaced"
  /\ UNCHANGED <<now, mem, at, queue, fault, loopVars, ticketVars>>

\* The directory is synced: save returns and the operation is acknowledged.
SyncDirectory ==
  /\ stage = "replaced"
  /\ survivors' = {seen}
  /\ Finish(Head(queue), Outcome(Head(queue)))
  /\ UNCHANGED <<now, mem, seen, at, fault>>

\* Variant: the failure is told to the caller only.
SaveFailsQuietly ==
  /\ stage \in {"write", "replaced"}
  /\ Finish(Head(queue), "failed")
  /\ UNCHANGED <<now, ledgerVars, fault>>

\* The save fails, before the rename or after it.
SaveFails ==
  /\ stage \in {"write", "replaced"}
  /\ fault' = TRUE
  /\ Finish(Head(queue), "failed")
  /\ UNCHANGED <<now, ledgerVars>>

-----------------------------------------------------------------------------
\* The process dies, alone or with the machine.  What was reserved and not
\* sent is lost.
Crash ==
  /\ owner # "down"
  /\ \/ UNCHANGED <<seen, survivors>>
     \/ seen' \in survivors /\ survivors' = {seen'}
  /\ mem' = {} /\ queue' = <<>> /\ stage' = "free" /\ fault' = FALSE
  /\ owner' = "down" /\ closing' = FALSE /\ pending' = 0 /\ reading' = "none"
  /\ pc' = [t \in Tickets |->
       IF pc[t] \in {"waiting", "open", "undo", "undoing"} THEN "lost" ELSE pc[t]]
  /\ result' = [t \in Tickets |-> "none"]
  /\ UNCHANGED <<now, at>>

Tick == now < MaxTime /\ now' = now + 1 /\ UNCHANGED <<ledgerVars, workerVars, loopVars, ticketVars>>

\* What the loop and the callers' coroutines do once they can.
TicketStep(t) ==
  \/ Granted(t) \/ BudgetRefused(t) \/ Handoff(t) \/ ExitUnsent(t) \/ Rollback(t) \/ RolledBack(t)
LoopStep == LoadObserved \/ Started \/ SnapshotObserved \/ Drained
WorkerStep ==
  Barred \/ Load \/ TakeSnapshot \/ Debit \/ Cancel \/ Replace \/ SyncDirectory \/ SaveFails

Next ==
  \/ \E t \in Tickets : Reserve(t) \/ GiveUp(t) \/ TicketStep(t)
  \/ Start \/ Snapshot \/ Close \/ LoopStep \/ WorkerStep \/ Crash \/ Tick

Spec == Init /\ [][Next]_vars

\* The worker and the loop run, a reserve() context ends.
Fairness ==
  /\ WF_vars(WorkerStep) /\ WF_vars(LoopStep)
  /\ \A t \in Tickets : WF_vars(GiveUp(t) \/ TicketStep(t))

FairSpec == Spec /\ Fairness

-----------------------------------------------------------------------------
Places == {"idle", "waiting", "open", "undo", "undoing", "sent", "left", "lost"}

\* Every variable has its type, and the permits never exceed their bound.
TypeOK ==
  /\ now \in Nat
  /\ mem \subseteq Tickets /\ seen \subseteq Tickets
  /\ survivors \subseteq SUBSET Tickets
  /\ at \in [Tickets -> Nat]
  /\ queue \in Seq(Ops)
  /\ stage \in {"free", "write", "replaced"} /\ fault \in BOOLEAN
  /\ owner \in {"down", "loading", "loaded", "observed", "ready"} /\ closing \in BOOLEAN
  /\ pending \in 0..MaxPending /\ reading \in {"none", "asked", "read"}
  /\ pc \in [Tickets -> Places]
  /\ result \in [Tickets -> {"none", "leased", "refused", "cancelled", "failed"}]

Sent == {t \in Tickets : pc[t] = "sent"}
Holding == {t \in Tickets : pc[t] \in {"waiting", "open", "undo", "undoing"}}

\* What went to transport is never forgotten while it counts: its debit stands
\* in the file, power loss included, and in the ledger that decides on the next.
SentIsDurable ==
  /\ \A image \in survivors \cup {seen} : Live(Sent) \subseteq image
  /\ owner \notin {"down", "loading"} /\ ~fault => Live(Sent) \subseteq mem

\* What was debited within one window and went to transport stays within both
\* budgets, through timeouts, failed saves, crashes and restarts.
SentWithinBudget ==
  /\ Cardinality(Live(Sent)) <= MaxRequests
  /\ Tokens(Live(Sent)) <= MaxTokens

\* Every permit is somebody's: a ticket's, the load's or a snapshot's.
PermitBalance ==
  pending = Cardinality(Holding)
    + (IF owner \in {"loading", "loaded"} THEN 1 ELSE 0)
    + (IF reading # "none" THEN 1 ELSE 0)

\* No operation decides on provisional state: whenever the worker may take one
\* up, memory and file agree on every entry that still counts.
DecisionsOnDurableState ==
  stage = "free" /\ ~fault /\ owner \notin {"down", "loading"} =>
    Live(mem) = Live(seen)

\* No debt leaks: when nothing is pending the ledger holds what was sent, and
\* debts no cancel could be acknowledged for (a crash, a failed save).
NoDebtLeak ==
  owner = "ready" /\ pending = 0 => \A t \in Live(mem) : pc[t] \in {"sent", "lost"}

\* When aclose stops the worker it drops nothing.
DrainIsQuiet == closing /\ pending = 0 => queue = <<>> /\ stage = "free"

\* aclose comes to an end once open reservations are left.
DrainCompletes == closing ~> owner = "down"
=============================================================================
