----------------------- MODULE PersistenceOwnerProofs -----------------------
(***************************************************************************)
(* Theorems about PersistenceOwner for any set of tickets, any costs,     *)
(* budgets and window, any bound on the permits and any run of the clock. *)
(*                                                                         *)
(* Durability needs two layers.  ControlInv says whose every queued       *)
(* operation and every permit is: with it a stopped worker drops nothing, *)
(* and only one operation at a time touches a ticket.  OwedInv says that  *)
(* what has been acknowledged and not taken back is in every image of the *)
(* file and in memory: it must count the acknowledged tickets too, since  *)
(* handing one of them to transport does not ask the worker again.        *)
(***************************************************************************)
EXTENDS PersistenceOwner, SequenceTheorems, FiniteSetTheorems, TLAPS

Results == {"none", "leased", "refused", "cancelled", "failed"}
Undecided == {"waiting", "open", "undo"}

ControlTypes ==
  /\ queue \in Seq(Ops)
  /\ stage \in {"free", "write", "replaced"} /\ fault \in BOOLEAN
  /\ owner \in {"down", "loading", "loaded", "observed", "ready"} /\ closing \in BOOLEAN
  /\ pending \in 0..MaxPending /\ reading \in {"none", "asked", "read"}
  /\ pc \in [Tickets -> Places]
  /\ result \in [Tickets -> Results]

\* Every queued operation has somebody who waits for it.
Awaited(o) ==
  /\ o.kind = "debit" => pc[o.ticket] \in {"waiting", "undo"} /\ result[o.ticket] = "none"
  /\ o.kind = "cancel" => pc[o.ticket] = "undoing" /\ result[o.ticket] = "leased"
  /\ o.kind = "load" => owner = "loading"
  /\ o.kind = "snapshot" => reading = "asked"

SameOp(o, p) == o.kind = p.kind /\ (o.kind \in {"debit", "cancel"} => o.ticket = p.ticket)

QueueAwaited == \A i \in 1..Len(queue) : Awaited(queue[i])
QueueDistinct == \A i, j \in 1..Len(queue) : SameOp(queue[i], queue[j]) => i = j

\* A half-done save is of a reservation or of its cancellation, with the
\* ledger loaded and nothing failed.
StageInv ==
  stage # "free" =>
    /\ queue # <<>> /\ queue[1].kind \in {"debit", "cancel"}
    /\ ~fault /\ owner \notin {"down", "loading"}

\* An owner that is not loaded has no tickets and no work but the load.
UnloadedInv ==
  owner \in {"down", "loading"} =>
    /\ Holding = {} /\ reading = "none" /\ ~fault
    /\ owner = "down" => queue = <<>> /\ pending = 0

PlaceFitsResult == \A t \in Tickets :
  (pc[t] = "open" => result[t] = "leased") /\ (pc[t] = "idle" => result[t] = "none")

ControlInv ==
  /\ ControlTypes /\ QueueAwaited /\ QueueDistinct /\ StageInv
  /\ UnloadedInv /\ PlaceFitsResult /\ PermitBalance

-----------------------------------------------------------------------------
\* What an operation is made of.
LEMMA OpsHaveTickets ==
  /\ \A o \in Ops : o.kind \in {"debit", "cancel", "load", "snapshot"}
  /\ \A o \in Ops : o.kind \in {"debit", "cancel"} => o.ticket \in Tickets
  /\ \A t \in Tickets : Op("debit", t) \in Ops /\ Op("cancel", t) \in Ops
  /\ [kind |-> "load"] \in Ops /\ [kind |-> "snapshot"] \in Ops
BY DEF Ops, Op

\* Before the first start nothing is queued and nobody holds a permit.
LEMMA InitControlInv == ASSUME OwnerAssumption, Init PROVE ControlInv
<1>1. ControlTypes
  <2>1. queue \in Seq(Ops)
    BY EmptySeq DEF Init
  <2>2. pending \in 0..MaxPending
    BY DEF Init, OwnerAssumption
  <2>3. pc \in [Tickets -> Places] /\ result \in [Tickets -> Results]
    BY DEF Init, Places, Results
  <2> QED BY <2>1, <2>2, <2>3 DEF Init, ControlTypes
<1>2. QueueAwaited /\ QueueDistinct
  BY DEF Init, QueueAwaited, QueueDistinct
<1>3. Holding = {}
  BY DEF Init, Holding
<1>4. PermitBalance
  BY <1>3, FS_EmptySet DEF Init, PermitBalance
<1> QED BY <1>1, <1>2, <1>3, <1>4 DEF ControlInv, Init, StageInv, UnloadedInv, PlaceFitsResult

\* A ticket begins or ends to hold a permit, or keeps it.
LEMMA HoldingMoves ==
  ASSUME OwnerAssumption, pc \in [Tickets -> Places],
         NEW t \in Tickets, NEW where \in Places, pc' = [pc EXCEPT ![t] = where]
  PROVE  LET now_held == where \in {"waiting", "open", "undo", "undoing"}
         IN  /\ IsFiniteSet(Holding) /\ Cardinality(Holding) \in Nat
             /\ t \in Holding /\ now_held => Holding' = Holding
             /\ t \notin Holding /\ ~now_held => Holding' = Holding
             /\ t \notin Holding /\ now_held => Cardinality(Holding') = Cardinality(Holding) + 1
             /\ t \in Holding /\ ~now_held => Cardinality(Holding') = Cardinality(Holding) - 1
<1>1. IsFiniteSet(Holding) /\ Cardinality(Holding) \in Nat
  <2>1. Holding \subseteq Tickets
    BY DEF Holding
  <2> QED BY <2>1, FS_Subset, FS_CardinalityType DEF OwnerAssumption
<1>2. Holding' = IF where \in {"waiting", "open", "undo", "undoing"}
                   THEN Holding \cup {t} ELSE Holding \ {t}
  BY DEF Holding
<1>3. CASE t \in Holding /\ where \in {"waiting", "open", "undo", "undoing"}
  <2>1. Holding' = Holding
    BY <1>2, <1>3
  <2> QED BY <2>1, <1>1, <1>3
<1>4. CASE t \notin Holding /\ where \notin {"waiting", "open", "undo", "undoing"}
  <2>1. Holding' = Holding
    BY <1>2, <1>4
  <2> QED BY <2>1, <1>1, <1>4
<1>5. CASE t \notin Holding /\ where \in {"waiting", "open", "undo", "undoing"}
  <2>1. Cardinality(Holding') = Cardinality(Holding) + 1
    BY <1>1, <1>2, <1>5, FS_AddElement
  <2> QED BY <2>1, <1>1, <1>5
<1>6. CASE t \in Holding /\ where \notin {"waiting", "open", "undo", "undoing"}
  <2>1. Cardinality(Holding') = Cardinality(Holding) - 1
    BY <1>1, <1>2, <1>6, FS_RemoveElement
  <2> QED BY <2>1, <1>1, <1>6
<1> QED BY <1>3, <1>4, <1>5, <1>6

-----------------------------------------------------------------------------
(* The queue: what an append, a take and a wait leave of its invariants.    *)

QueueInv == queue \in Seq(Ops) /\ QueueAwaited /\ QueueDistinct

\* A submitted operation is awaited, and nobody had submitted it yet.
LEMMA AppendKeeps ==
  ASSUME QueueInv, NEW o \in Ops, queue' = Append(queue, o), Awaited(o)',
         \A p \in Ops : Awaited(p) => Awaited(p)' /\ ~SameOp(p, o) /\ ~SameOp(o, p)
  PROVE  QueueInv'
<1>1. /\ queue' \in Seq(Ops) /\ Len(queue') = Len(queue) + 1 /\ Len(queue) \in Nat
      /\ \A i \in 1..Len(queue) : queue'[i] = queue[i] /\ queue[i] \in Ops
      /\ queue'[Len(queue) + 1] = o
  BY AppendProperties, ElementOfSeq, LenProperties DEF QueueInv
<1>2. \A i \in 1..Len(queue') : i \in 1..Len(queue) \/ i = Len(queue) + 1
  BY <1>1
<1>3. QueueAwaited'
  <2> SUFFICES ASSUME NEW i \in 1..Len(queue') PROVE Awaited(queue[i])'
    BY DEF QueueAwaited
  <2>1. CASE i \in 1..Len(queue)
    <3>1. Awaited(queue[i]) /\ queue[i] \in Ops /\ queue'[i] = queue[i]
      BY <1>1, <2>1 DEF QueueInv, QueueAwaited
    <3> DEFINE p == queue[i]
    <3>2. p \in Ops /\ Awaited(p) /\ queue'[i] = p
      BY <3>1
    <3> QED BY <3>2 DEF Awaited
  <2>2. CASE i = Len(queue) + 1
    BY <1>1, <2>2 DEF Awaited
  <2> QED BY <1>2, <2>1, <2>2
<1>4. QueueDistinct'
  <2>1. \A i \in 1..Len(queue) : ~SameOp(queue[i], o) /\ ~SameOp(o, queue[i])
    BY <1>1 DEF QueueInv, QueueAwaited
  <2>2. \A i, j \in 1..Len(queue') : SameOp(queue'[i], queue'[j]) => i = j
    BY <1>1, <1>2, <2>1 DEF QueueInv, QueueDistinct
  <2> QED BY <2>2 DEF QueueDistinct, SameOp
<1> QED BY <1>1, <1>3, <1>4 DEF QueueInv

\* The head leaves the queue: the others are still awaited.
LEMMA TakeKeeps ==
  ASSUME QueueInv, queue # <<>>, queue' = Tail(queue),
         \A p \in Ops : Awaited(p) /\ ~SameOp(p, queue[1]) => Awaited(p)'
  PROVE  QueueInv'
<1>1. /\ queue' \in Seq(Ops) /\ Len(queue') = Len(queue) - 1 /\ Len(queue) \in Nat
      /\ Len(queue) > 0
      /\ \A i \in 1..Len(queue') : queue'[i] = queue[i + 1]
  BY HeadTailProperties, EmptySeq, LenProperties DEF QueueInv
<1>2. \A i \in 1..Len(queue') : /\ i + 1 \in 1..Len(queue) /\ 1 \in 1..Len(queue)
                                /\ queue[i + 1] \in Ops /\ i + 1 # 1
  BY <1>1, ElementOfSeq DEF QueueInv
<1>3. QueueAwaited'
  <2> SUFFICES ASSUME NEW i \in 1..Len(queue') PROVE Awaited(queue[i])'
    BY DEF QueueAwaited
  <2> DEFINE p == queue[i + 1]
  <2>1. p \in Ops /\ Awaited(p) /\ queue'[i] = p
    BY <1>1, <1>2 DEF QueueInv, QueueAwaited
  <2>2. ~SameOp(p, queue[1])
    BY <1>2 DEF QueueInv, QueueDistinct
  <2> QED BY <2>1, <2>2 DEF Awaited
<1>4. \A i, j \in 1..Len(queue') : SameOp(queue'[i], queue'[j]) => i = j
  <2> SUFFICES ASSUME NEW i \in 1..Len(queue'), NEW j \in 1..Len(queue'),
                      SameOp(queue'[i], queue'[j])
               PROVE  i = j
    OBVIOUS
  <2>1. SameOp(queue[i + 1], queue[j + 1])
    BY <1>1
  <2>2. i + 1 = j + 1
    BY <1>2, <2>1 DEF QueueInv, QueueDistinct
  <2> QED BY <2>2, <1>1
<1>5. QueueDistinct'
  BY <1>4 DEF QueueDistinct, SameOp
<1> QED BY <1>1, <1>3, <1>5 DEF QueueInv

\* The queue stands still and everybody goes on waiting.
LEMMA WaitKeeps ==
  ASSUME QueueInv, queue' = queue, \A p \in Ops : Awaited(p) => Awaited(p)'
  PROVE  QueueInv'
<1>1. \A i \in 1..Len(queue) : queue[i] \in Ops /\ Awaited(queue[i])
  BY ElementOfSeq DEF QueueInv, QueueAwaited
<1>2. QueueAwaited'
  <2> SUFFICES ASSUME NEW i \in 1..Len(queue) PROVE Awaited(queue[i])'
    BY DEF QueueAwaited
  <2> DEFINE p == queue[i]
  <2>1. p \in Ops /\ Awaited(p) /\ queue'[i] = p
    BY <1>1
  <2> QED BY <2>1 DEF Awaited
<1> QED BY <1>2 DEF QueueInv, QueueDistinct, SameOp

\* The head of the queue is an operation somebody waits for.
LEMMA HeadIsAwaited ==
  ASSUME QueueInv, queue # <<>>
  PROVE  /\ Head(queue) = queue[1] /\ queue[1] \in Ops /\ Awaited(queue[1])
<1>1. Len(queue) \in Nat /\ Len(queue) > 0
  BY EmptySeq, LenProperties DEF QueueInv
<1> QED BY <1>1, ElementOfSeq, HeadTailProperties DEF QueueInv, QueueAwaited

-----------------------------------------------------------------------------
(* Whose the permits are, step by step.                                     *)

\* The types that the permit count needs, and a count that is somebody's is
\* not over the bound.
LEMMA CountIsFinite ==
  ASSUME OwnerAssumption, ControlInv
  PROVE  /\ IsFiniteSet(Holding) /\ Cardinality(Holding) \in Nat
         /\ QueueInv /\ MaxPending \in Nat \ {0} /\ pending \in 0..MaxPending
         /\ Cardinality(Holding) = 0 => Holding = {}
<1>1. Holding \subseteq Tickets
  BY DEF Holding
<1>2. IsFiniteSet(Holding)
  BY <1>1, FS_Subset DEF OwnerAssumption
<1> QED BY <1>2, FS_CardinalityType, FS_EmptySet DEF OwnerAssumption, ControlInv, ControlTypes, QueueInv

\* A ticket that holds a permit goes on without the worker: it keeps its
\* permit, or returns it on leaving.
LEMMA TicketMoves ==
  ASSUME OwnerAssumption, ControlInv, NEW t \in Tickets, NEW where \in Places,
         t \in Holding, pc' = [pc EXCEPT ![t] = where],
         where # "idle", where = "open" => result[t] = "leased",
         pending' = IF where \in {"waiting", "open", "undo", "undoing"} THEN pending ELSE pending - 1,
         \A p \in Ops : Awaited(p) => Awaited(p)',
         UNCHANGED <<queue, stage, fault, owner, closing, reading, result>>
  PROVE  ControlInv'
<1>1. QueueInv'
  BY CountIsFinite, WaitKeeps
<1>2. Cardinality(Holding') = Cardinality(Holding) - (pending - pending')
  <2>1. pc \in [Tickets -> Places] /\ pending \in Int /\ Cardinality(Holding) \in Nat
    BY CountIsFinite DEF ControlInv, ControlTypes
  <2>2. CASE where \in {"waiting", "open", "undo", "undoing"}
    <3>1. Holding' = Holding
      BY <2>1, <2>2, HoldingMoves
    <3> QED BY <2>1, <2>2, <3>1
  <2>3. CASE where \notin {"waiting", "open", "undo", "undoing"}
    <3>1. Cardinality(Holding') = Cardinality(Holding) - 1
      BY <2>1, <2>3, HoldingMoves
    <3> QED BY <2>1, <2>3, <3>1
  <2> QED BY <2>2, <2>3
<1>3. PermitBalance'
  BY <1>2, CountIsFinite DEF ControlInv, PermitBalance
<1>4. pending' \in 0..MaxPending
  <2>1. Cardinality(Holding) > 0
    BY CountIsFinite
  <2>2. pending >= 1
    BY <2>1, CountIsFinite DEF ControlInv, PermitBalance
  <2> QED BY <2>2, CountIsFinite
<1>5. pc' \in [Tickets -> Places]
  BY DEF ControlInv, ControlTypes
<1>6. ControlTypes'
  BY <1>1, <1>4, <1>5 DEF ControlInv, ControlTypes, QueueInv
<1>7. UnloadedInv'
  BY DEF ControlInv, UnloadedInv
<1>8. PlaceFitsResult'
  BY DEF ControlInv, ControlTypes, PlaceFitsResult
<1>9. StageInv'
  BY DEF ControlInv, StageInv
<1> QED BY <1>1, <1>3, <1>6, <1>7, <1>8, <1>9 DEF ControlInv, QueueInv

\* An owner that is running its head operation is past loading, unless that
\* operation is the load.
LEMMA HeadNeedsLoaded ==
  ASSUME ControlInv, queue # <<>>
  PROVE  owner # "down" /\ (owner = "loading" => queue[1].kind = "load")
<1>1. queue[1] \in Ops /\ Awaited(queue[1])
  BY HeadIsAwaited DEF ControlInv, ControlTypes, QueueInv
<1>2. owner # "down"
  BY DEF ControlInv, UnloadedInv
<1>3. CASE owner = "loading"
  <2>1. Holding = {} /\ reading = "none"
    BY <1>3 DEF ControlInv, UnloadedInv
  <2>2. queue[1].kind \in {"debit", "cancel"} => queue[1].ticket \in Holding
    BY <1>1, OpsHaveTickets DEF Awaited, Holding
  <2> QED BY <1>1, <1>2, <2>1, <2>2, OpsHaveTickets DEF Awaited
<1> QED BY <1>2, <1>3

\* The running operation ends: its waiter learns of it and keeps the permit.
LEMMA FinishKeeps ==
  ASSUME OwnerAssumption, ControlInv, queue # <<>>, NEW o \in Results,
         queue[1].kind \in {"debit", "cancel"} => o # "none",
         Finish(queue[1], o), fault' \in BOOLEAN
  PROVE  ControlInv'
<1> DEFINE op == queue[1]
<1>1. op \in Ops /\ Awaited(op)
  BY HeadIsAwaited, CountIsFinite
<1>2. op.kind \in {"debit", "cancel"} => op.ticket \in Tickets
  BY <1>1, OpsHaveTickets
<1>3. \A p \in Ops : Awaited(p) /\ ~SameOp(p, op) => Awaited(p)'
  <2> SUFFICES ASSUME NEW p \in Ops, Awaited(p), ~SameOp(p, op) PROVE Awaited(p)'
    OBVIOUS
  <2>1. CASE op.kind \notin {"debit", "cancel"}
    BY <2>1 DEF Finish, Awaited, SameOp
  <2>2. CASE op.kind \in {"debit", "cancel"}
    <3>1. p.kind \in {"debit", "cancel"} => p.ticket # op.ticket
      BY <1>1, <2>2 DEF Awaited, SameOp
    <3> QED BY <1>2, <2>2, <3>1 DEF Finish, Awaited, ControlInv, ControlTypes
  <2> QED BY <2>1, <2>2
<1>4. QueueInv'
  BY <1>3, CountIsFinite, TakeKeeps DEF Finish
<1>5. result' \in [Tickets -> Results] /\ owner' \in {"down", "loading", "loaded", "observed", "ready"}
      /\ reading' \in {"none", "asked", "read"} /\ pc' = pc /\ pending' = pending
      /\ closing' = closing /\ stage' = "free"
  BY <1>2 DEF Finish, ControlInv, ControlTypes
<1>6. ControlTypes'
  BY <1>4, <1>5 DEF ControlInv, ControlTypes, QueueInv
<1>7. owner' \notin {"down", "loading"}
  BY HeadNeedsLoaded DEF Finish
<1>8. Holding' = Holding
  BY <1>5 DEF Holding
<1>9. PermitBalance'
  <2>1. owner' \in {"loading", "loaded"} <=> owner \in {"loading", "loaded"}
    BY <1>1, HeadNeedsLoaded DEF Finish, Awaited
  <2>2. reading' # "none" <=> reading # "none"
    BY <1>1 DEF Finish, Awaited
  <2> QED BY <1>5, <1>8, <2>1, <2>2 DEF ControlInv, PermitBalance
<1>10. PlaceFitsResult'
  BY <1>1, <1>2, <1>5 DEF ControlInv, ControlTypes, PlaceFitsResult, Finish, Awaited
<1> QED BY <1>4, <1>5, <1>6, <1>7, <1>9, <1>10 DEF ControlInv, QueueInv, StageInv, UnloadedInv

\* The worker goes on inside its operation.
LEMMA StageMoves ==
  ASSUME ControlInv, stage' \in {"write", "replaced"},
         queue # <<>>, queue[1].kind \in {"debit", "cancel"}, ~fault,
         UNCHANGED <<queue, fault, loopVars, ticketVars>>
  PROVE  ControlInv'
<1>1. owner \notin {"down", "loading"}
  BY HeadNeedsLoaded
<1>2. \A p \in Ops : Awaited(p) => Awaited(p)'
  BY DEF Awaited, loopVars, ticketVars
<1>3. QueueInv'
  BY <1>2, WaitKeeps DEF ControlInv, ControlTypes, QueueInv
<1>4. Holding' = Holding
  BY DEF Holding, ticketVars
<1> QED BY <1>1, <1>3, <1>4 DEF ControlInv, ControlTypes, QueueInv, StageInv, UnloadedInv, PlaceFitsResult,
            PermitBalance, loopVars, ticketVars

-----------------------------------------------------------------------------
(* One lemma per group of actions: ControlInv is kept.                      *)

\* The steps of the loop that belong to no ticket.
LEMMA LoopKeeps ==
  ASSUME OwnerAssumption, ControlInv,
         Start \/ Snapshot \/ Close \/ LoadObserved \/ Started \/ SnapshotObserved
  PROVE  ControlInv'
<1>0. /\ IsFiniteSet(Holding) /\ Cardinality(Holding) \in Nat
      /\ QueueInv /\ MaxPending \in Nat \ {0} /\ pending \in 0..MaxPending
      /\ Cardinality(Holding) = 0 => Holding = {}
  BY CountIsFinite
<1>1. CASE Start
  <2>1. Holding' = {} /\ reading = "none" /\ fault = FALSE /\ queue = <<>> /\ pending = 0
    BY <1>1 DEF Start, ControlInv, ControlTypes, UnloadedInv, Holding, ticketVars
  <2>2. stage = "free"
    BY <2>1 DEF ControlInv, StageInv
  <2>3. queue' = Append(queue, [kind |-> "load"])
    BY <1>1, <2>1 DEF Start
  <2>4. \A p \in Ops : ~Awaited(p)
    BY <1>1, <2>1, OpsHaveTickets DEF Start, Awaited, ControlInv, UnloadedInv, Holding
  <2>5. Awaited([kind |-> "load"])'
    BY <1>1 DEF Start, Awaited
  <2>6. QueueInv'
    BY <1>0, <2>3, <2>4, <2>5, AppendKeeps, OpsHaveTickets
  <2>7. Cardinality(Holding') = 0
    BY <2>1, FS_EmptySet
  <2>8. PermitBalance'
    BY <1>1, <2>1, <2>7 DEF PermitBalance, Start
  <2> QED BY <1>0, <1>1, <2>1, <2>2, <2>6, <2>8
          DEF Start, ControlInv, ControlTypes, QueueInv, StageInv, UnloadedInv, PlaceFitsResult, ticketVars
<1>2. CASE Snapshot
  <2>1. queue' = Append(queue, [kind |-> "snapshot"]) /\ reading = "none" /\ reading' = "asked"
    BY <1>2 DEF Snapshot
  <2>2. \A p \in Ops : Awaited(p) => Awaited(p)' /\ p.kind # "snapshot"
    BY <1>2, <2>1 DEF Snapshot, Awaited, ticketVars
  <2>3. QueueInv'
    BY <1>0, <2>1, <2>2, AppendKeeps, OpsHaveTickets DEF SameOp, Awaited
  <2>4. Holding' = Holding
    BY <1>2 DEF Snapshot, Holding, ticketVars
  <2>5. queue # <<>> => queue' # <<>> /\ queue'[1] = queue[1]
    BY <1>0, <2>1, AppendProperties, EmptySeq, LenProperties DEF QueueInv
  <2>6. PermitBalance' /\ pending' \in 0..MaxPending
    BY <1>0, <1>2, <2>1, <2>4 DEF ControlInv, PermitBalance, Snapshot
  <2>7. StageInv'
    BY <1>2, <2>5 DEF ControlInv, StageInv, Snapshot
  <2> QED BY <1>2, <2>1, <2>3, <2>6, <2>7
          DEF Snapshot, Available, ControlInv, ControlTypes, QueueInv, UnloadedInv, PlaceFitsResult, ticketVars
<1>3. CASE Close \/ LoadObserved \/ Started \/ SnapshotObserved
  <2>1. \A p \in Ops : Awaited(p) => Awaited(p)'
    BY <1>3 DEF Close, LoadObserved, Started, SnapshotObserved, Awaited, ticketVars
  <2>2. QueueInv'
    BY <1>0, <1>3, <2>1, WaitKeeps DEF Close, LoadObserved, Started, SnapshotObserved, workerVars
  <2>3. Holding' = Holding
    BY <1>3 DEF Close, LoadObserved, Started, SnapshotObserved, Holding, ticketVars
  <2>4. PermitBalance' /\ pending' \in 0..MaxPending
    BY <1>0, <1>3, <2>3 DEF Close, LoadObserved, Started, SnapshotObserved, ControlInv, PermitBalance
  <2>5. UnloadedInv' /\ StageInv'
    BY <1>3, <2>3 DEF Close, LoadObserved, Started, SnapshotObserved, workerVars, ControlInv,
                      StageInv, UnloadedInv
  <2>6. UNCHANGED <<queue, stage, fault, pc, result>>
    BY <1>3 DEF Close, LoadObserved, Started, SnapshotObserved, workerVars, ticketVars
  <2>7. owner' \in {"down", "loading", "loaded", "observed", "ready"} /\ closing' \in BOOLEAN
        /\ reading' \in {"none", "asked", "read"}
    BY <1>3 DEF Close, LoadObserved, Started, SnapshotObserved, ControlInv, ControlTypes
  <2>8. ControlTypes'
    BY <2>4, <2>6, <2>7 DEF ControlInv, ControlTypes
  <2>9. PlaceFitsResult'
    BY <2>6 DEF ControlInv, PlaceFitsResult
  <2> QED BY <2>2, <2>4, <2>5, <2>8, <2>9 DEF ControlInv, QueueInv
<1> QED BY <1>1, <1>2, <1>3

\* A new reservation takes a permit that is free.
LEMMA ReserveKeeps ==
  ASSUME OwnerAssumption, ControlInv, NEW t \in Tickets, Reserve(t)
  PROVE  ControlInv'
<1>0. /\ IsFiniteSet(Holding) /\ Cardinality(Holding) \in Nat
      /\ QueueInv /\ MaxPending \in Nat \ {0} /\ pending \in 0..MaxPending
  BY CountIsFinite
<1>1. /\ pc' = [pc EXCEPT ![t] = "waiting"] /\ "waiting" \in Places /\ t \notin Holding
      /\ pc \in [Tickets -> Places] /\ queue' = Append(queue, Op("debit", t))
  BY DEF Reserve, Places, Holding, ControlInv, ControlTypes
<1>2. Cardinality(Holding') = Cardinality(Holding) + 1
  BY <1>1, HoldingMoves
<1>3. result[t] = "none" /\ result' = result
  BY DEF Reserve, ControlInv, PlaceFitsResult
<1>4. \A p \in Ops : /\ Awaited(p) => Awaited(p)'
                     /\ Awaited(p) /\ p.kind \in {"debit", "cancel"} => p.ticket # t
  <2> SUFFICES ASSUME NEW p \in Ops, Awaited(p)
               PROVE  Awaited(p)' /\ (p.kind \in {"debit", "cancel"} => p.ticket # t)
    OBVIOUS
  <2>1. p.kind \in {"debit", "cancel"} => p.ticket # t /\ p.ticket \in Tickets
    BY OpsHaveTickets DEF Reserve, Awaited
  <2> QED BY <1>1, <2>1 DEF Reserve, Awaited
<1>5. Awaited(Op("debit", t))'
  BY <1>1, <1>3 DEF Awaited, Op
<1>6. QueueInv'
  <2>1. \A p \in Ops : Awaited(p) => ~SameOp(p, Op("debit", t)) /\ ~SameOp(Op("debit", t), p)
    BY <1>4 DEF SameOp, Op
  <2> QED BY <1>0, <1>1, <1>4, <1>5, <2>1, AppendKeeps, OpsHaveTickets
<1>7. PermitBalance' /\ pending' \in 0..MaxPending
  BY <1>0, <1>2 DEF ControlInv, PermitBalance, Reserve
<1>8. queue # <<>> => queue' # <<>> /\ queue'[1] = queue[1]
  BY <1>0, <1>1, AppendProperties, EmptySeq, LenProperties DEF QueueInv
<1>9. StageInv'
  BY <1>8 DEF ControlInv, StageInv, Reserve
<1>10. pc' \in [Tickets -> Places]
  BY <1>1
<1>11. PlaceFitsResult'
  BY <1>1, <1>3 DEF ControlInv, PlaceFitsResult
<1> QED BY <1>3, <1>6, <1>7, <1>9, <1>10, <1>11
        DEF Reserve, Available, ControlInv, ControlTypes, QueueInv, UnloadedInv

\* The outcome is learnt, given up, handed off or taken back.
LEMMA TicketKeeps ==
  ASSUME OwnerAssumption, ControlInv, NEW t \in Tickets, GiveUp(t) \/ TicketStep(t)
  PROVE  ControlInv'
<1>0. pc \in [Tickets -> Places] /\ QueueInv
  BY DEF ControlInv, ControlTypes, QueueInv
<1>1. CASE Granted(t)
  <2>1. \A p \in Ops : Awaited(p) => Awaited(p)'
    BY <1>0, <1>1, OpsHaveTickets DEF Granted, Awaited, loopVars
  <2> QED BY <1>1, <2>1, TicketMoves DEF Granted, Holding, Places, workerVars, loopVars
<1>2. CASE BudgetRefused(t)
  <2>1. \A p \in Ops : Awaited(p) => Awaited(p)'
    BY <1>0, <1>2, OpsHaveTickets DEF BudgetRefused, Awaited
  <2> QED BY <1>2, <2>1, TicketMoves DEF BudgetRefused, Holding, Places, workerVars
<1>3. CASE GiveUp(t)
  <2>1. \A p \in Ops : Awaited(p) => Awaited(p)'
    BY <1>0, <1>3, OpsHaveTickets DEF GiveUp, Awaited, loopVars
  <2> QED BY <1>3, <2>1, TicketMoves DEF GiveUp, Holding, Places, workerVars, loopVars
<1>4. CASE Handoff(t)
  <2>1. \A p \in Ops : Awaited(p) => Awaited(p)'
    BY <1>0, <1>4, OpsHaveTickets DEF Handoff, Awaited
  <2> QED BY <1>4, <2>1, TicketMoves DEF Handoff, Holding, Places, workerVars
<1>5. CASE ExitUnsent(t)
  <2>1. \A p \in Ops : Awaited(p) => Awaited(p)'
    BY <1>0, <1>5, OpsHaveTickets DEF ExitUnsent, Awaited, loopVars
  <2> QED BY <1>5, <2>1, TicketMoves DEF ExitUnsent, Holding, Places, workerVars, loopVars
<1>6. CASE RolledBack(t)
  <2>1. \A p \in Ops : Awaited(p) => Awaited(p)'
    BY <1>0, <1>6, OpsHaveTickets DEF RolledBack, Awaited
  <2> DEFINE where == IF result[t] = "failed" THEN "lost" ELSE "left"
  <2>2. where \in Places /\ where \notin {"waiting", "open", "undo", "undoing", "idle"}
    BY DEF Places
  <2>3. pc' = [pc EXCEPT ![t] = where] /\ t \in Holding /\ pending' = pending - 1
        /\ UNCHANGED <<queue, stage, fault, owner, closing, reading, result>>
    BY <1>6 DEF RolledBack, Holding, workerVars
  <2> HIDE DEF where
  <2> QED BY <2>1, <2>2, <2>3, TicketMoves
<1>7. CASE Rollback(t) /\ result[t] # "leased"
  <2>1. \A p \in Ops : Awaited(p) => Awaited(p)'
    BY <1>0, <1>7, OpsHaveTickets DEF Rollback, Awaited
  <2> DEFINE where == IF result[t] = "failed" THEN "lost" ELSE "left"
  <2>2. where \in Places /\ where \notin {"waiting", "open", "undo", "undoing", "idle"}
    BY DEF Places
  <2>3. pc' = [pc EXCEPT ![t] = where] /\ t \in Holding /\ pending' = pending - 1
        /\ UNCHANGED <<queue, stage, fault, owner, closing, reading, result>>
    BY <1>7 DEF Rollback, Holding
  <2> HIDE DEF where
  <2> QED BY <2>1, <2>2, <2>3, TicketMoves
<1>8. CASE Rollback(t) /\ result[t] = "leased"
  <2>1. /\ pc' = [pc EXCEPT ![t] = "undoing"] /\ "undoing" \in Places /\ t \in Holding
        /\ queue' = Append(queue, Op("cancel", t)) /\ result' = result
        /\ UNCHANGED <<stage, fault, owner, closing, reading, pending>>
    BY <1>8 DEF Rollback, Places, Holding
  <2>2. Holding' = Holding
    BY <1>0, <2>1, HoldingMoves
  <2>3. \A p \in Ops : /\ Awaited(p) => Awaited(p)'
                       /\ Awaited(p) /\ p.kind \in {"debit", "cancel"} => p.ticket # t
    <3> SUFFICES ASSUME NEW p \in Ops, Awaited(p)
                 PROVE  Awaited(p)' /\ (p.kind \in {"debit", "cancel"} => p.ticket # t)
      OBVIOUS
    <3>1. p.kind \in {"debit", "cancel"} => p.ticket # t /\ p.ticket \in Tickets
      BY <1>8, OpsHaveTickets DEF Rollback, Awaited
    <3> QED BY <1>0, <2>1, <3>1 DEF Awaited
  <2>4. Awaited(Op("cancel", t))'
    BY <1>0, <1>8, <2>1 DEF Awaited, Op
  <2>5. QueueInv'
    <3>1. \A p \in Ops : Awaited(p) => ~SameOp(p, Op("cancel", t)) /\ ~SameOp(Op("cancel", t), p)
      BY <2>3 DEF SameOp, Op
    <3> QED BY <1>0, <2>1, <2>3, <2>4, <3>1, AppendKeeps, OpsHaveTickets
  <2>6. queue # <<>> => queue' # <<>> /\ queue'[1] = queue[1]
    BY <1>0, <2>1, AppendProperties, EmptySeq, LenProperties DEF QueueInv
  <2>7. StageInv'
    BY <2>1, <2>6 DEF ControlInv, StageInv
  <2>8. PermitBalance'
    BY <2>1, <2>2 DEF ControlInv, PermitBalance
  <2>9. pc' \in [Tickets -> Places]
    BY <1>0, <2>1
  <2>10. PlaceFitsResult'
    BY <1>0, <2>1 DEF ControlInv, PlaceFitsResult
  <2>11. UnloadedInv'
    BY <2>1, <2>2 DEF ControlInv, UnloadedInv
  <2> QED BY <2>1, <2>5, <2>7, <2>8, <2>9, <2>10, <2>11 DEF ControlInv, ControlTypes, QueueInv
<1> QED BY <1>1, <1>2, <1>3, <1>4, <1>5, <1>6, <1>7, <1>8 DEF TicketStep

\* The worker moves its operation on, or ends it.
LEMMA WorkerKeeps ==
  ASSUME OwnerAssumption, ControlInv, WorkerStep
  PROVE  ControlInv'
<1>0. QueueInv /\ fault \in BOOLEAN
  BY DEF ControlInv, ControlTypes, QueueInv
<1>1. queue # <<>> /\ Head(queue) = queue[1]
  <2>1. queue # <<>>
    BY DEF WorkerStep, Barred, Load, TakeSnapshot, Debit, Cancel, Replace, SyncDirectory, SaveFails,
           Running, ControlInv, StageInv
  <2> QED BY <1>0, <2>1, HeadIsAwaited
<1>2. CASE Barred
  <2>1. Finish(queue[1], "failed") /\ fault' = fault /\ "failed" \in Results
    BY <1>1, <1>2 DEF Barred, Results
  <2> QED BY <1>0, <1>1, <2>1, FinishKeeps
<1>3. CASE Load
  <2>1. Finish(queue[1], "none") /\ fault' \in BOOLEAN /\ "none" \in Results /\ queue[1].kind = "load"
    BY <1>0, <1>1, <1>3 DEF Load, Running, Results
  <2> QED BY <1>0, <1>1, <2>1, FinishKeeps
<1>4. CASE TakeSnapshot
  <2>1. Finish(queue[1], "none") /\ fault' \in BOOLEAN /\ "none" \in Results /\ queue[1].kind = "snapshot"
    BY <1>0, <1>1, <1>4 DEF TakeSnapshot, Running, Results
  <2> QED BY <1>0, <1>1, <2>1, FinishKeeps
<1>5. CASE Debit
  <2>1. CASE Fits(Head(queue).ticket)
    <3>1. /\ stage' = "write" /\ queue[1].kind = "debit" /\ ~fault
          /\ UNCHANGED <<queue, fault, loopVars, ticketVars>>
      BY <1>1, <1>5, <2>1 DEF Debit, Running
    <3> QED BY <1>1, <3>1, StageMoves
  <2>2. CASE ~Fits(Head(queue).ticket)
    <3>1. Finish(queue[1], "refused") /\ fault' \in BOOLEAN /\ "refused" \in Results
      BY <1>0, <1>1, <1>5, <2>2 DEF Debit, Results
    <3> QED BY <1>0, <1>1, <3>1, FinishKeeps
  <2> QED BY <2>1, <2>2
<1>6. CASE Cancel
  <2>1. /\ stage' = "write" /\ queue[1].kind = "cancel" /\ ~fault
        /\ UNCHANGED <<queue, fault, loopVars, ticketVars>>
    BY <1>1, <1>6 DEF Cancel, Running
  <2> QED BY <1>1, <2>1, StageMoves
<1>7. CASE Replace
  <2>1. /\ stage' = "replaced" /\ queue[1].kind \in {"debit", "cancel"} /\ ~fault
        /\ UNCHANGED <<queue, fault, loopVars, ticketVars>>
    BY <1>7 DEF Replace, ControlInv, StageInv
  <2> QED BY <1>1, <2>1, StageMoves
<1>8. CASE SyncDirectory
  <2> DEFINE o == Outcome(queue[1])
  <2>1. Finish(queue[1], o) /\ fault' \in BOOLEAN /\ o \in Results /\ o # "none"
    BY <1>0, <1>1, <1>8 DEF SyncDirectory, Outcome, Results
  <2> HIDE DEF o
  <2> QED BY <1>0, <1>1, <2>1, FinishKeeps
<1>9. CASE SaveFails
  <2>1. Finish(queue[1], "failed") /\ fault' \in BOOLEAN /\ "failed" \in Results
    BY <1>0, <1>1, <1>9 DEF SaveFails, Results
  <2> QED BY <1>0, <1>1, <2>1, FinishKeeps
<1> QED BY <1>2, <1>3, <1>4, <1>5, <1>6, <1>7, <1>8, <1>9 DEF WorkerStep

\* When the last permit is back, nothing is queued and nothing is running.
LEMMA QuietWhenPaid ==
  ASSUME OwnerAssumption, ControlInv, pending = 0
  PROVE  Holding = {} /\ reading = "none" /\ owner \notin {"loading", "loaded"}
         /\ queue = <<>> /\ stage = "free"
<1>1. Holding = {} /\ reading = "none" /\ owner \notin {"loading", "loaded"}
  <2>1. Cardinality(Holding) = 0 /\ reading = "none" /\ owner \notin {"loading", "loaded"}
    BY CountIsFinite DEF ControlInv, PermitBalance
  <2> QED BY <2>1, CountIsFinite
<1>2. ASSUME queue # <<>> PROVE FALSE
  <2>1. queue[1] \in Ops /\ Awaited(queue[1])
    BY <1>2, HeadIsAwaited, CountIsFinite
  <2>2. queue[1].kind \in {"debit", "cancel"} => queue[1].ticket \in Holding
    BY <2>1, OpsHaveTickets DEF Awaited, Holding
  <2> QED BY <1>1, <2>1, <2>2, OpsHaveTickets DEF Awaited
<1> QED BY <1>1, <1>2 DEF ControlInv, StageInv

\* After a close or a crash nothing is queued and no permit is out.
LEMMA StopKeeps ==
  ASSUME OwnerAssumption, ControlInv, Drained \/ Crash
  PROVE  ControlInv'
<1>1. queue' = <<>> /\ stage' = "free" /\ fault' = FALSE /\ owner' = "down" /\ closing' = FALSE
  BY DEF Drained, Crash
<1>2. pending' = 0 /\ reading' = "none" /\ Holding' = {}
  <2>1. CASE Drained
    <3>1. Holding' = Holding
      BY <2>1 DEF Drained, Holding, ticketVars
    <3> QED BY <2>1, <3>1, QuietWhenPaid DEF Drained
  <2>2. CASE Crash
    BY <2>2 DEF Crash, Holding
  <2> QED BY <2>1, <2>2
<1>3. pc' \in [Tickets -> Places] /\ result' \in [Tickets -> Results] /\ PlaceFitsResult'
  <2>1. CASE Drained
    BY <2>1 DEF Drained, ticketVars, ControlInv, ControlTypes, PlaceFitsResult
  <2>2. CASE Crash
    <3>1. \A t \in Tickets : pc'[t] \in Places /\ pc'[t] # "open" /\ result'[t] = "none"
      BY <2>2 DEF Crash, Places, ControlInv, ControlTypes
    <3> QED BY <2>2, <3>1 DEF Crash, PlaceFitsResult, Results
  <2> QED BY <2>1, <2>2
<1>4. PermitBalance'
  <2>1. Cardinality(Holding') = 0
    BY <1>2, FS_EmptySet
  <2> QED BY <1>1, <1>2, <2>1 DEF PermitBalance
<1>5. queue' \in Seq(Ops) /\ QueueAwaited' /\ QueueDistinct'
  BY <1>1, EmptySeq DEF QueueAwaited, QueueDistinct
<1>6. pending' \in 0..MaxPending
  BY <1>2 DEF OwnerAssumption
<1> QED BY <1>1, <1>2, <1>3, <1>4, <1>5, <1>6 DEF ControlInv, ControlTypes, StageInv, UnloadedInv

\* The inductive step.
LEMMA StepKeepsControl ==
  ASSUME OwnerAssumption, ControlInv, [Next]_vars
  PROVE  ControlInv'
<1>1. CASE \E t \in Tickets : Reserve(t) \/ GiveUp(t) \/ TicketStep(t)
  BY <1>1, ReserveKeeps, TicketKeeps
<1>2. CASE Start \/ Snapshot \/ Close \/ LoadObserved \/ Started \/ SnapshotObserved
  BY <1>2, LoopKeeps
<1>3. CASE WorkerStep
  BY <1>3, WorkerKeeps
<1>4. CASE Drained \/ Crash
  BY <1>4, StopKeeps
<1>5. CASE Tick \/ UNCHANGED vars
  <2>1. UNCHANGED <<queue, stage, fault, owner, closing, pending, reading, pc, result>>
    BY <1>5 DEF Tick, vars, workerVars, loopVars, ticketVars
  <2>2. QueueInv'
    BY <2>1, WaitKeeps DEF ControlInv, ControlTypes, QueueInv, Awaited
  <2>3. Holding' = Holding
    BY <2>1 DEF Holding
  <2>4. PermitBalance' /\ UnloadedInv' /\ StageInv'
    BY <2>1, <2>3 DEF ControlInv, PermitBalance, UnloadedInv, StageInv
  <2>5. ControlTypes' /\ PlaceFitsResult'
    BY <2>1 DEF ControlInv, ControlTypes, PlaceFitsResult
  <2> QED BY <2>2, <2>4, <2>5 DEF ControlInv, QueueInv
<1> QED BY <1>1, <1>2, <1>3, <1>4, <1>5 DEF Next, LoopStep

\* Every queued operation is awaited by one ticket, by the load or by the
\* snapshot, and every permit is somebody's.
THEOREM ControlInvHolds == Spec => []ControlInv
<1>1. Init => ControlInv
  BY InitControlInv, OwnerAssumption
<1>2. ControlInv /\ [Next]_vars => ControlInv'
  BY StepKeepsControl, OwnerAssumption
<1> QED BY <1>1, <1>2, PTL DEF Spec

\* Every permit of the owner is a ticket's, the load's or a snapshot's: none is
\* returned twice and none is lost (_operation_done, _finish, _rollback).
THEOREM PermitsAreOwned == Spec => []PermitBalance
<1>1. ControlInv => PermitBalance
  BY DEF ControlInv
<1> QED BY <1>1, ControlInvHolds, PTL

\* aclose stops the worker only once it has nothing left to do (_drain).
THEOREM DrainIsQuietHolds == Spec => []DrainIsQuiet
<1>1. ControlInv => DrainIsQuiet
  BY QuietWhenPaid, OwnerAssumption DEF DrainIsQuiet
<1> QED BY <1>1, ControlInvHolds, PTL

-----------------------------------------------------------------------------
(* What is owed: the acknowledged tickets that were sent or may still be.   *)

Owed == {t \in Tickets :
  pc[t] = "sent" \/ (result[t] = "leased" /\ pc[t] \in Undecided)}

Images == survivors \cup {seen}

\* The debit or cancel that the worker is saving.
Saving(kind, t) == stage # "free" /\ queue[1].kind = kind /\ queue[1].ticket = t

\* Tickets that were never debited, or whose debit has been taken back.
Absent == {t \in Tickets :
  \/ pc[t] \in {"idle", "left"} \/ result[t] \in {"refused", "cancelled"}
  \/ result[t] = "none" /\ pc[t] \in {"waiting", "undo"} /\ ~Saving("debit", t)}

DataTypes ==
  /\ now \in Nat /\ at \in [Tickets -> Nat]
  /\ mem \subseteq Tickets /\ seen \subseteq Tickets /\ survivors \subseteq SUBSET Tickets

OwedOnDisk == \A image \in Images : Live(Owed) \subseteq image
OwedInMemory == owner \notin {"down", "loading"} /\ ~fault => Live(Owed) \subseteq mem

SaveInv ==
  /\ stage = "replaced" => seen = mem
  /\ \A t \in Tickets : (Saving("debit", t) => t \in mem) /\ (Saving("cancel", t) => t \notin mem)

AbsentInv == \A image \in Images \cup {mem} : Absent \cap image = {}

\* Entries that both budgets allow.
Within(S) == Cardinality(S) <= MaxRequests /\ Tokens(S) <= MaxTokens

WithinBudget == \A image \in Images \cup {mem} : Within(Live(image))

DataInv ==
  /\ DataTypes /\ OwedOnDisk /\ OwedInMemory /\ SaveInv /\ DecisionsOnDurableState
  /\ AbsentInv /\ WithinBudget

-----------------------------------------------------------------------------
Units(S) == UNION {{t} \X (1..Cost[t]) : t \in S}

\* What some tickets cost is a number, and grows with each by its cost.
LEMMA TokensTyped ==
  ASSUME OwnerAssumption, NEW S \in SUBSET Tickets
  PROVE  /\ IsFiniteSet(S) /\ Cardinality(S) \in Nat
         /\ IsFiniteSet(Units(S)) /\ Tokens(S) \in Nat /\ Tokens(S) = Cardinality(Units(S))
<1>1. IsFiniteSet(S)
  BY FS_Subset DEF OwnerAssumption
<1>2. ASSUME NEW t \in Tickets
      PROVE  IsFiniteSet({t} \X (1..Cost[t]))
  <2>1. Cost[t] \in Int /\ 1 \in Int
    BY DEF OwnerAssumption
  <2>2. IsFiniteSet(1..Cost[t])
    BY <2>1, FS_Interval
  <2>3. IsFiniteSet({t})
    BY FS_Singleton
  <2> QED BY <2>2, <2>3, FS_Product
<1> DEFINE F == {{t} \X (1..Cost[t]) : t \in S}
<1>3. IsFiniteSet(F)
  <2> DEFINE f == [t \in S |-> {t} \X (1..Cost[t])]
  <2>1. f \in [S -> F] /\ \A u \in F : \E t \in S : f[t] = u
    OBVIOUS
  <2> HIDE DEF f, F
  <2>2. f \in Surjection(S, F)
    BY <2>1 DEF Surjection
  <2> QED BY <1>1, <2>2, FS_Surjection
<1>4. \A U \in F : IsFiniteSet(U)
  BY <1>2
<1>5. IsFiniteSet(UNION F)
  <2> HIDE DEF F
  <2> QED BY <1>3, <1>4, FS_UNION
<1> QED BY <1>1, <1>5, FS_CardinalityType DEF Tokens, Units

LEMMA TokensAdd ==
  ASSUME OwnerAssumption, NEW S \in SUBSET Tickets, NEW t \in Tickets
  PROVE  Tokens(S \cup {t}) <= Tokens(S) + Cost[t]
<1> DEFINE new == {t} \X (1..Cost[t])
<1>1. IsFiniteSet(new) /\ Cardinality(new) = Cost[t] /\ Cost[t] \in Nat
  <2>1. Cost[t] \in Nat /\ IsFiniteSet(1..Cost[t]) /\ Cardinality(1..Cost[t]) = Cost[t]
    BY FS_Interval DEF OwnerAssumption
  <2>2. IsFiniteSet({t}) /\ Cardinality({t}) = 1
    BY FS_Singleton
  <2>3. IsFiniteSet(new) /\ Cardinality(new) = Cardinality({t}) * Cardinality(1..Cost[t])
    BY <2>1, <2>2, FS_Product
  <2> HIDE DEF new
  <2> QED BY <2>1, <2>2, <2>3
<1>2. Units(S \cup {t}) = Units(S) \cup new
  BY DEF Units
<1>3. IsFiniteSet(Units(S)) /\ Tokens(S) \in Nat /\ Tokens(S) = Cardinality(Units(S))
      /\ Tokens(S \cup {t}) = Cardinality(Units(S \cup {t}))
  <2>1. S \cup {t} \in SUBSET Tickets
    OBVIOUS
  <2> QED BY <2>1, TokensTyped
<1> HIDE DEF new
<1>4. /\ IsFiniteSet(Units(S) \cap new)
      /\ Cardinality(Units(S) \cup new)
           = Cardinality(Units(S)) + Cardinality(new) - Cardinality(Units(S) \cap new)
  <2>1. IsFiniteSet(Units(S) \cap new)
    BY <1>1, FS_Subset
  <2> QED BY <1>1, <1>3, <2>1, FS_Union
<1>5. Cardinality(Units(S) \cap new) \in Nat
  BY <1>4, FS_CardinalityType
<1>6. Tokens(S \cup {t}) = Tokens(S) + Cost[t] - Cardinality(Units(S) \cap new)
  BY ONLY <1>1, <1>2, <1>3, <1>4
<1> QED BY ONLY <1>1, <1>3, <1>5, <1>6

\* A subset stays within the budgets.
LEMMA FewerAreWithin ==
  ASSUME OwnerAssumption, NEW S \in SUBSET Tickets, NEW T \in SUBSET S, Within(S)
  PROVE  Within(T)
<1>1. T \in SUBSET Tickets /\ Units(T) \subseteq Units(S)
  BY DEF Units
<1>2. IsFiniteSet(S) /\ IsFiniteSet(Units(S)) /\ Cardinality(T) \in Nat /\ Cardinality(S) \in Nat
  BY <1>1, TokensTyped
<1>3. Cardinality(T) <= Cardinality(S) /\ Cardinality(Units(T)) <= Cardinality(Units(S))
  BY <1>1, <1>2, FS_Subset
<1>4. /\ Tokens(T) \in Nat /\ Tokens(T) = Cardinality(Units(T))
      /\ Tokens(S) \in Nat /\ Tokens(S) = Cardinality(Units(S))
  BY <1>1, TokensTyped
<1> QED BY <1>2, <1>3, <1>4 DEF Within, OwnerAssumption

LEMMA NoneAreWithin == ASSUME OwnerAssumption PROVE Within({})
<1>1. Units({}) = {} /\ Cardinality({}) = 0
  BY FS_EmptySet DEF Units
<1>2. Tokens({}) = 0
  BY <1>1, TokensTyped
<1> QED BY <1>1, <1>2 DEF Within, OwnerAssumption

\* The empty ledger owes nothing.
LEMMA InitDataInv == ASSUME OwnerAssumption, Init PROVE DataInv
<1>1. DataTypes
  BY DEF Init, DataTypes
<1>2. Owed = {} /\ Images = {{}} /\ mem = {} /\ stage = "free"
  BY DEF Init, Owed, Images
<1>3. Live({}) = {} /\ Cardinality({}) = 0
  BY FS_EmptySet DEF Live
<1>4. OwedOnDisk /\ OwedInMemory /\ AbsentInv /\ SaveInv
  BY <1>2, <1>3 DEF Init, OwedOnDisk, OwedInMemory, AbsentInv, SaveInv, Saving
<1>5. WithinBudget
  BY <1>2, <1>3, NoneAreWithin DEF WithinBudget
<1>6. DecisionsOnDurableState
  BY DEF Init, DecisionsOnDurableState
<1> QED BY <1>1, <1>4, <1>5, <1>6 DEF DataInv

\* Pruning is idempotent and monotonic.
LEMMA LiveFacts ==
  /\ \A S : Live(S) \subseteq S /\ Live(Live(S)) = Live(S)
  /\ \A S, T : S \subseteq T => Live(S) \subseteq Live(T)
BY DEF Live

\* The file and the ledger are left alone, and nobody new is owed anything.
LEMMA UntouchedKeepsData ==
  ASSUME DataInv, UNCHANGED <<now, ledgerVars>>, Owed' \subseteq Owed, Absent' \subseteq Absent, SaveInv',
         owner' \notin {"down", "loading"} /\ ~fault' =>
           owner \notin {"down", "loading"} /\ ~fault /\ (stage' = "free" => stage = "free")
  PROVE  DataInv'
<1>1. DataTypes' /\ Images' = Images /\ mem' = mem
  BY DEF DataInv, DataTypes, Images, ledgerVars
<1>3. Live(Owed)' \subseteq Live(Owed) /\ Live(mem)' = Live(mem)
      /\ Live(seen)' = Live(seen)
  BY DEF Live, ledgerVars
<1>4. OwedOnDisk' /\ OwedInMemory'
  BY <1>1, <1>3 DEF DataInv, OwedOnDisk, OwedInMemory
<1>5. AbsentInv'
  BY <1>1 DEF DataInv, AbsentInv
<1>6. WithinBudget'
  <2> SUFFICES ASSUME NEW image \in Images \cup {mem} PROVE Within(Live(image))'
    BY <1>1 DEF WithinBudget
  <2>1. Live(image)' = Live(image)
    BY DEF Live, ledgerVars
  <2> QED BY <2>1 DEF DataInv, WithinBudget
<1>7. DecisionsOnDurableState'
  BY <1>3 DEF DataInv, DecisionsOnDurableState
<1> QED BY <1>1, <1>4, <1>5, <1>6, <1>7 DEF DataInv

\* No step of a caller makes a ticket owed or absent that was not.
LEMMA CallersKeepData ==
  ASSUME OwnerAssumption, ControlInv, DataInv,
         \/ \E t \in Tickets : Reserve(t) \/ GiveUp(t) \/ TicketStep(t)
         \/ Start \/ Snapshot \/ Close \/ LoadObserved \/ Started \/ SnapshotObserved
  PROVE  DataInv'
<1>1. UNCHANGED <<now, ledgerVars, stage, fault, result>>
  BY DEF TicketStep, Reserve, GiveUp, Granted, BudgetRefused, Handoff, ExitUnsent, Rollback, RolledBack,
         Start, Snapshot, Close, LoadObserved, Started, SnapshotObserved, workerVars, ticketVars
<1>2. stage # "free" => queue # <<>> /\ queue' # <<>> /\ queue'[1] = queue[1]
  <2> SUFFICES ASSUME stage # "free" PROVE queue # <<>> /\ queue' # <<>> /\ queue'[1] = queue[1]
    OBVIOUS
  <2>1. queue # <<>> /\ queue \in Seq(Ops) /\ owner # "down"
    BY DEF ControlInv, ControlTypes, StageInv
  <2>2. Len(queue) \in Nat /\ Len(queue) > 0
    BY <2>1, EmptySeq, LenProperties
  <2>3. queue' = queue \/ \E o \in Ops : queue' = Append(queue, o)
    BY <2>1, OpsHaveTickets
       DEF TicketStep, Reserve, GiveUp, Granted, BudgetRefused, Handoff, ExitUnsent, Rollback, RolledBack,
           Start, Snapshot, Close, LoadObserved, Started, SnapshotObserved, workerVars
  <2> QED BY <2>1, <2>2, <2>3, AppendProperties, EmptySeq
<1>3. \A kind, t : Saving(kind, t)' <=> Saving(kind, t)
  BY <1>1, <1>2 DEF Saving
<1>4. SaveInv'
  BY <1>1, <1>3 DEF DataInv, SaveInv, ledgerVars
<1>5. Owed' \subseteq Owed /\ Absent' \subseteq Absent
  <2> SUFFICES ASSUME NEW t \in Tickets PROVE (t \in Owed' => t \in Owed) /\ (t \in Absent' => t \in Absent)
    BY DEF Owed, Absent
  <2>1. result'[t] = result[t] /\ (Saving("debit", t)' <=> Saving("debit", t))
    BY <1>1, <1>3
  <2>2. \/ pc'[t] = pc[t]
        \/ pc[t] = "idle" /\ pc'[t] = "waiting"
        \/ pc[t] = "waiting" /\ result[t] = "leased" /\ pc'[t] = "open"
        \/ pc[t] = "waiting" /\ result[t] = "refused" /\ pc'[t] = "left"
        \/ pc[t] = "waiting" /\ pc'[t] = "undo"
        \/ pc[t] = "open" /\ pc'[t] \in {"sent", "undo"}
        \/ pc[t] = "undo" /\ result[t] = "leased" /\ pc'[t] = "undoing"
        \/ pc[t] = "undo" /\ result[t] \in {"refused", "cancelled"} /\ pc'[t] = "left"
        \/ pc[t] = "undoing" /\ result[t] = "cancelled" /\ pc'[t] = "left"
        \/ result[t] = "failed" /\ pc'[t] = "lost"
    BY DEF TicketStep, Reserve, GiveUp, Granted, BudgetRefused, Handoff, ExitUnsent, Rollback, RolledBack,
           Start, Snapshot, Close, LoadObserved, Started, SnapshotObserved, ticketVars, ControlInv,
           ControlTypes, Results
  <2>3. (pc[t] = "open" => result[t] = "leased") /\ (pc[t] = "idle" => result[t] = "none")
    BY DEF ControlInv, PlaceFitsResult
  <2>4. ~Saving("debit", t) \/ pc[t] # "idle"
    <3> SUFFICES ASSUME Saving("debit", t) PROVE pc[t] # "idle"
      OBVIOUS
    <3>1. queue # <<>> /\ queue[1].kind = "debit" /\ queue[1].ticket = t
      BY DEF Saving, ControlInv, StageInv
    <3> QED BY <3>1, HeadIsAwaited, CountIsFinite DEF Awaited
  <2> QED BY <2>1, <2>2, <2>3, <2>4 DEF Owed, Absent, Undecided
<1>6. owner' \notin {"down", "loading"} => owner \notin {"down", "loading"}
  BY DEF TicketStep, Reserve, GiveUp, Granted, BudgetRefused, Handoff, ExitUnsent, Rollback, RolledBack,
         Start, Snapshot, Close, LoadObserved, Started, SnapshotObserved, loopVars
<1> QED BY <1>1, <1>4, <1>5, <1>6, UntouchedKeepsData

\* Time only takes entries out of the window.
LEMMA TimeKeepsData ==
  ASSUME OwnerAssumption, ControlInv, DataInv, Tick \/ UNCHANGED vars
  PROVE  DataInv'
<1>1. UNCHANGED <<ledgerVars, workerVars, loopVars, ticketVars>> /\ now' \in Nat /\ now' >= now
  BY DEF Tick, vars, DataInv, DataTypes
<1>2. DataTypes' /\ Images' = Images /\ mem' = mem /\ Owed' = Owed /\ Absent' = Absent /\ SaveInv'
      /\ owner' = owner /\ fault' = fault
  BY <1>1 DEF DataInv, DataTypes, Images, Owed, Absent, SaveInv, Saving,
         ledgerVars, workerVars, loopVars, ticketVars
<1>3. \A S \in SUBSET Tickets : {t \in S : now' - at'[t] < Window} = {t \in Live(S) : now' - at'[t] < Window}
  BY <1>1 DEF Live, DataInv, DataTypes, ledgerVars, OwnerAssumption
<1>4. Owed \subseteq Tickets /\ mem \subseteq Tickets /\ seen \subseteq Tickets
      /\ \A image \in Images \cup {mem} : image \subseteq Tickets
  BY DEF Owed, DataInv, DataTypes, Images
<1>5. \A S \in SUBSET Tickets : {t \in S : now' - at'[t] < Window} \subseteq Live(S)
  BY <1>3
<1>6. OwedOnDisk' /\ OwedInMemory'
  BY <1>2, <1>4, <1>5 DEF DataInv, OwedOnDisk, OwedInMemory, Live
<1>7. AbsentInv'
  BY <1>2 DEF DataInv, AbsentInv
<1>8. WithinBudget'
  <2> SUFFICES ASSUME NEW image \in Images \cup {mem}
               PROVE  Within({t \in image : now' - at'[t] < Window})
    BY <1>2 DEF WithinBudget, Live
  <2>1. Live(image) \in SUBSET Tickets /\ Within(Live(image))
    BY <1>4, LiveFacts DEF DataInv, WithinBudget
  <2>2. {t \in image : now' - at'[t] < Window} \in SUBSET Live(image)
    BY <1>4, <1>5
  <2> QED BY <2>1, <2>2, FewerAreWithin
<1>9. DecisionsOnDurableState'
  <2> SUFFICES ASSUME stage = "free", ~fault, owner \notin {"down", "loading"}
               PROVE  {t \in mem : now' - at'[t] < Window} = {t \in seen : now' - at'[t] < Window}
    BY <1>1, <1>2 DEF DecisionsOnDurableState, Live, ledgerVars, workerVars
  <2>1. Live(mem) = Live(seen)
    BY DEF DataInv, DecisionsOnDurableState
  <2> QED BY <1>3, <1>4, <2>1
<1> QED BY <1>2, <1>6, <1>7, <1>8, <1>9 DEF DataInv

\* A power loss leaves one of the images; what is owed shrinks to what was sent.
LEMMA StopKeepsData ==
  ASSUME OwnerAssumption, ControlInv, DataInv, Drained \/ Crash
  PROVE  DataInv'
<1>1. now' = now /\ at' = at /\ mem' = {} /\ owner' = "down" /\ stage' = "free" /\ fault' = FALSE
  BY DEF Drained, Crash
<1>2. seen' \in Images /\ Images' \subseteq Images
  BY DEF Drained, Crash, Images
<1>3. DataTypes'
  BY <1>1, <1>2 DEF Drained, Crash, DataInv, DataTypes, Images
<1>4. Owed' \subseteq Owed /\ Absent' \subseteq Absent
  <2>1. CASE Drained
    <3>1. stage = "free"
      BY <2>1, QuietWhenPaid DEF Drained
    <3> QED BY <1>1, <2>1, <3>1 DEF Drained, Owed, Absent, Saving, ticketVars
  <2>2. CASE Crash
    BY <2>2 DEF Crash, Owed, Absent, Undecided, ControlInv, ControlTypes
  <2> QED BY <2>1, <2>2
<1>5. OwedOnDisk'
  BY <1>1, <1>2, <1>4 DEF DataInv, OwedOnDisk, Live
<1>6. AbsentInv'
  BY <1>1, <1>2, <1>4 DEF DataInv, AbsentInv
<1>7. WithinBudget'
  <2>1. Within(Live({})')
    BY NoneAreWithin DEF Live
  <2>2. \A image \in Images : Within(Live(image)')
    BY <1>1 DEF DataInv, WithinBudget, Live
  <2> QED BY <1>1, <1>2, <2>1, <2>2 DEF WithinBudget
<1> QED BY <1>1, <1>3, <1>5, <1>6, <1>7
        DEF DataInv, OwedInMemory, SaveInv, Saving, DecisionsOnDurableState

-----------------------------------------------------------------------------
(* The worker: what an operation's end and its two halves do to the data.   *)

\* The end of an operation makes its ticket owed only by acknowledging a
\* debit, and absent only by refusing one or acknowledging a cancel.
LEMMA FinishMoves ==
  ASSUME ControlInv, queue # <<>>, NEW o \in Results, Finish(queue[1], o),
         queue[1].kind \in {"debit", "cancel"} => o # "none"
  PROVE  /\ \A t \in Owed' : t \in Owed \/ (o = "leased" /\ queue[1].kind = "debit" /\ queue[1].ticket = t)
         /\ \A t \in Absent' :
              t \in Absent \/ (o \in {"refused", "cancelled"} /\ queue[1].kind \in {"debit", "cancel"}
                               /\ queue[1].ticket = t)
         /\ SaveInv' /\ stage' = "free"
         /\ owner \notin {"down"} /\ owner' \notin {"down", "loading"}
<1> DEFINE op == queue[1]
<1>1. op \in Ops /\ Awaited(op) /\ pc' = pc /\ stage' = "free" /\ result \in [Tickets -> Results]
  BY HeadIsAwaited DEF Finish, ControlInv, ControlTypes, QueueInv
<1>2. owner \notin {"down"} /\ owner' \notin {"down", "loading"}
  BY HeadNeedsLoaded DEF Finish
<1>3. CASE op.kind \notin {"debit", "cancel"}
  <2>1. result' = result /\ \A t \in Tickets : ~Saving("debit", t)
    BY <1>3 DEF Finish, Saving
  <2> QED BY <1>1, <1>2, <2>1 DEF Owed, Absent, SaveInv, Saving
<1>4. CASE op.kind \in {"debit", "cancel"}
  <2>1. op.ticket \in Tickets /\ result' = [result EXCEPT ![op.ticket] = o]
    BY <1>1, <1>4, OpsHaveTickets DEF Finish
  <2>2. \A t \in Tickets : t # op.ticket => result'[t] = result[t] /\ ~Saving("debit", t)
    BY <1>1, <2>1 DEF Saving
  <2>3. result'[op.ticket] = o /\ o # "none"
    BY <1>1, <1>4, <2>1
  <2>4. op.kind = "cancel" => pc[op.ticket] = "undoing"
    BY <1>1 DEF Awaited
  <2>5. op.kind = "debit" => pc[op.ticket] \in {"waiting", "undo"}
    BY <1>1 DEF Awaited
  <2> QED BY <1>1, <1>2, <1>4, <2>1, <2>2, <2>3, <2>4, <2>5 DEF Owed, Absent, SaveInv, Saving, Undecided
<1> QED BY <1>3, <1>4

\* A barred operation, or one whose save fails, promises nothing.
LEMMA FailureKeepsData ==
  ASSUME OwnerAssumption, ControlInv, DataInv, Barred \/ SaveFails
  PROVE  DataInv'
<1>1. queue # <<>> /\ Head(queue) = queue[1]
  <2>1. queue # <<>>
    BY DEF Barred, SaveFails, ControlInv, StageInv
  <2> QED BY <2>1, HeadIsAwaited, CountIsFinite
<1>2. Finish(queue[1], "failed") /\ fault' = TRUE /\ UNCHANGED <<now, ledgerVars>> /\ "failed" \in Results
  BY <1>1 DEF Barred, SaveFails, Results, ControlInv, ControlTypes
<1>3. Owed' \subseteq Owed /\ Absent' \subseteq Absent /\ SaveInv'
  BY <1>1, <1>2, FinishMoves
<1> QED BY <1>2, <1>3, UntouchedKeepsData

\* The ledger is loaded from the file, or only its expired entries go.
LEMMA ReadKeepsData ==
  ASSUME OwnerAssumption, ControlInv, DataInv, Load \/ TakeSnapshot \/ (Debit /\ ~Fits(Head(queue).ticket))
  PROVE  DataInv'
<1>1. queue # <<>> /\ stage = "free" /\ ~fault /\ Head(queue) = queue[1]
  <2>1. queue # <<>> /\ stage = "free" /\ ~fault
    BY DEF Load, TakeSnapshot, Debit, Running
  <2> QED BY <2>1, HeadIsAwaited, CountIsFinite
<1>2. UNCHANGED <<now, at, seen, survivors>>
  BY DEF Load, TakeSnapshot, Debit
<1>3. PICK o \in {"none", "refused"} :
        /\ Finish(queue[1], o)
        /\ o = "none" => queue[1].kind \notin {"debit", "cancel"}
        /\ o = "refused" => queue[1].kind = "debit"
  BY <1>1 DEF Load, TakeSnapshot, Debit, Running
<1>4. /\ Owed' \subseteq Owed /\ SaveInv' /\ stage' = "free" /\ owner' \notin {"down", "loading"}
      /\ owner # "down"
      /\ \A t \in Absent' : t \in Absent \/ (queue[1].kind = "debit" /\ queue[1].ticket = t)
  BY <1>1, <1>3, FinishMoves DEF Results
<1>5. Absent' \subseteq Absent
  <2>1. ASSUME NEW t \in Tickets, queue[1].kind = "debit", queue[1].ticket = t PROVE t \in Absent
    BY <1>1, <2>1, HeadIsAwaited, CountIsFinite DEF Awaited, Absent, Saving
  <2> QED BY <1>4, <2>1 DEF Absent
<1>6. \/ mem' = seen
      \/ mem' = mem /\ fault' = TRUE
      \/ mem' = Live(mem) /\ owner \notin {"down", "loading"}
  <2>1. owner \notin {"down", "loading"} \/ queue[1].kind = "load"
    BY <1>1, HeadNeedsLoaded
  <2> QED BY <1>1, <2>1 DEF Load, TakeSnapshot, Debit, Running
<1>7. Images' = Images /\ seen \in Images
  BY <1>2 DEF Images
<1>8. mem' \subseteq Tickets /\ Live(mem)' = Live(mem') /\ mem' \subseteq mem \cup seen
  BY <1>2, <1>6 DEF Live, DataInv, DataTypes
<1>9. OwedOnDisk'
  BY <1>2, <1>4, <1>7 DEF DataInv, OwedOnDisk, Live
<1>10. OwedInMemory'
  <2>1. Live(Owed)' \subseteq Live(Owed)
    BY <1>2, <1>4 DEF Live
  <2>2. CASE mem' = seen
    BY <1>7, <2>1, <2>2 DEF DataInv, OwedOnDisk, OwedInMemory
  <2>3. CASE mem' = Live(mem) /\ owner \notin {"down", "loading"}
    <3>1. Live(Owed) \subseteq mem
      BY <1>1, <2>3 DEF DataInv, OwedInMemory
    <3>2. Live(Owed) \subseteq Live(mem)
      BY <3>1 DEF Live
    <3> QED BY <2>1, <2>3, <3>2 DEF OwedInMemory
  <2> QED BY <1>6, <2>2, <2>3 DEF OwedInMemory
<1>11. AbsentInv'
  BY <1>5, <1>6, <1>7, LiveFacts DEF DataInv, AbsentInv
<1>12. WithinBudget'
  <2>2. \A image \in Images : Within(Live(image)')
    BY <1>2 DEF DataInv, WithinBudget, Live
  <2>3. Within(Live(mem)')
    <3>1. Live(mem)' = Live(seen) \/ Live(mem)' = Live(mem)
      BY <1>6, <1>8, LiveFacts
    <3> QED BY <1>7, <3>1 DEF DataInv, WithinBudget
  <2> QED BY <1>7, <2>2, <2>3 DEF WithinBudget
<1>13. DecisionsOnDurableState'
  <2>1. Live(seen)' = Live(seen)
    BY <1>2 DEF Live
  <2>2. CASE mem' = seen
    BY <1>8, <2>1, <2>2 DEF DecisionsOnDurableState
  <2>3. CASE mem' = Live(mem) /\ owner \notin {"down", "loading"}
    <3>1. Live(mem)' = Live(mem)
      BY <1>8, <2>3, LiveFacts
    <3> QED BY <1>1, <2>1, <2>3, <3>1 DEF DataInv, DecisionsOnDurableState
  <2> QED BY <1>6, <2>2, <2>3 DEF DecisionsOnDurableState
<1>14. DataTypes'
  BY <1>2, <1>8 DEF DataInv, DataTypes
<1> QED BY <1>4, <1>9, <1>10, <1>11, <1>12, <1>13, <1>14 DEF DataInv

\* A reservation enters the ledger before its save.
LEMMA DebitKeepsData ==
  ASSUME OwnerAssumption, ControlInv, DataInv, Debit, Fits(Head(queue).ticket)
  PROVE  DataInv'
<1> DEFINE t == queue[1].ticket
<1>1. queue # <<>> /\ queue[1].kind = "debit" /\ Fits(t)
      /\ stage = "free" /\ ~fault /\ t \in Tickets /\ Awaited(queue[1])
  <2>1. queue # <<>> /\ Head(queue) = queue[1] /\ queue[1] \in Ops /\ Awaited(queue[1])
    BY HeadIsAwaited, CountIsFinite DEF Debit, Running
  <2> QED BY <2>1, OpsHaveTickets DEF Debit, Running
<1>2. /\ mem' = Live(mem) \cup {t} /\ at' = [at EXCEPT ![t] = now] /\ stage' = "write"
      /\ UNCHANGED <<now, seen, survivors, queue, fault, owner, pc, result>>
  <2>1. Head(queue) = queue[1]
    BY <1>1, HeadIsAwaited, CountIsFinite
  <2> QED BY <2>1 DEF Debit, loopVars, ticketVars
<1>3. Owed' = Owed /\ t \in Absent /\ t \notin Owed /\ Absent' \subseteq Absent \ {t}
  BY <1>1, <1>2 DEF Owed, Absent, Saving, Awaited, Undecided
<1>4. Images' = Images /\ owner \notin {"down", "loading"}
  BY <1>1, <1>2, HeadNeedsLoaded DEF Images
<1>5. \A S \in SUBSET Tickets : t \notin S => Live(S)' = Live(S)
  BY <1>1, <1>2 DEF Live, DataInv, DataTypes
<1>6. Live(Owed)' = Live(Owed)
  BY <1>2, <1>3 DEF Live, Owed, DataInv, DataTypes
<1>7. \A image \in Images : image \in SUBSET Tickets /\ t \notin image
  BY <1>3 DEF DataInv, DataTypes, AbsentInv, Images
<1>8. DataTypes'
  BY <1>1, <1>2, LiveFacts DEF DataInv, DataTypes
<1>9. OwedOnDisk'
  BY <1>4, <1>6 DEF DataInv, OwedOnDisk
<1>10. OwedInMemory'
  <2>1. Live(Owed) \subseteq mem
    BY <1>1, <1>4 DEF DataInv, OwedInMemory
  <2>2. Live(Owed) \subseteq Live(mem)
    BY <2>1 DEF Live
  <2> QED BY <1>2, <1>6, <2>2 DEF OwedInMemory
<1>11. SaveInv'
  BY <1>1, <1>2 DEF SaveInv, Saving
<1>12. AbsentInv'
  BY <1>2, <1>3, <1>4, LiveFacts DEF DataInv, AbsentInv
<1>13. WithinBudget'
  <2>1. \A image \in Images : Within(Live(image)')
    BY <1>5, <1>7 DEF DataInv, WithinBudget
  <2>2. Within(mem')
    <3>1. Live(mem) \in SUBSET Tickets
      BY LiveFacts DEF DataInv, DataTypes
    <3>2. /\ IsFiniteSet(Live(mem)) /\ Cardinality(Live(mem)) \in Nat /\ Cardinality(Live(mem)) < MaxRequests
          /\ Tokens(Live(mem)) \in Nat /\ Tokens(Live(mem)) + Cost[t] <= MaxTokens /\ Cost[t] \in Nat
      BY <1>1, <3>1, TokensTyped DEF Fits, OwnerAssumption
    <3>3. Cardinality(mem') = Cardinality(Live(mem)) \/ Cardinality(mem') = Cardinality(Live(mem)) + 1
      BY <1>2, <3>2, FS_AddElement
    <3>4. Tokens(mem') <= Tokens(Live(mem)) + Cost[t] /\ Tokens(mem') \in Nat
      <4>1. mem' \in SUBSET Tickets
        BY <1>8 DEF DataTypes
      <4> QED BY <1>1, <1>2, <3>1, <4>1, TokensAdd, TokensTyped
    <3> QED BY <3>2, <3>3, <3>4 DEF Within, OwnerAssumption
  <2>3. mem' \in SUBSET Tickets /\ Live(mem)' \in SUBSET mem'
    BY <1>8 DEF DataTypes, Live
  <2>4. Within(Live(mem)')
    BY <2>2, <2>3, FewerAreWithin
  <2> QED BY <1>4, <2>1, <2>4 DEF WithinBudget
<1> QED BY <1>2, <1>8, <1>9, <1>10, <1>11, <1>12, <1>13 DEF DataInv, DecisionsOnDurableState

\* A cancelled reservation leaves the ledger before its save.
LEMMA CancelKeepsData ==
  ASSUME OwnerAssumption, ControlInv, DataInv, Cancel
  PROVE  DataInv'
<1> DEFINE t == queue[1].ticket
<1>1. queue # <<>> /\ queue[1].kind = "cancel" /\ Head(queue) = queue[1]
      /\ stage = "free" /\ ~fault /\ t \in Tickets /\ Awaited(queue[1])
  <2>1. queue # <<>> /\ Head(queue) = queue[1] /\ queue[1] \in Ops /\ Awaited(queue[1])
    BY HeadIsAwaited, CountIsFinite DEF Cancel, Running
  <2> QED BY <2>1, OpsHaveTickets DEF Cancel, Running
<1>2. /\ mem' = Live(mem) \ {t} /\ stage' = "write"
      /\ UNCHANGED <<now, at, seen, survivors, queue, fault, owner, pc, result>>
  BY <1>1 DEF Cancel, loopVars, ticketVars
<1>3. Owed' = Owed /\ t \notin Owed /\ Absent' = Absent
  BY <1>1, <1>2 DEF Owed, Absent, Saving, Awaited, Undecided
<1>4. Images' = Images /\ owner \notin {"down", "loading"} /\ mem \in SUBSET Tickets
  BY <1>1, <1>2, HeadNeedsLoaded DEF Images, DataInv, DataTypes
<1>5. Live(Owed)' = Live(Owed) /\ \A image \in Images : Live(image)' = Live(image)
  BY <1>2, <1>3 DEF Live
<1>6. Live(mem)' \in SUBSET Live(mem) /\ Live(mem) \in SUBSET Tickets
  BY <1>2, <1>4 DEF Live
<1>7. DataTypes'
  BY <1>2, LiveFacts DEF DataInv, DataTypes
<1>8. OwedOnDisk'
  BY <1>4, <1>5 DEF DataInv, OwedOnDisk
<1>9. OwedInMemory'
  <2>1. Live(Owed) \subseteq mem
    BY <1>1, <1>4 DEF DataInv, OwedInMemory
  <2>2. Live(Owed) \subseteq Live(mem) \ {t}
    BY <1>3, <2>1 DEF Live
  <2> QED BY <1>2, <1>5, <2>2 DEF OwedInMemory
<1>10. SaveInv'
  BY <1>1, <1>2 DEF SaveInv, Saving
<1>11. AbsentInv'
  <2>1. mem' \subseteq mem /\ Images' \cup {mem'} = Images \cup {mem'}
    BY <1>2, <1>4 DEF Live
  <2> QED BY <1>3, <2>1 DEF DataInv, AbsentInv
<1>12. WithinBudget'
  <2>1. Within(Live(mem))
    BY DEF DataInv, WithinBudget
  <2>2. Within(Live(mem)')
    BY <1>6, <2>1, FewerAreWithin
  <2>3. \A image \in Images : Within(Live(image)')
    BY <1>5 DEF DataInv, WithinBudget
  <2> QED BY <1>4, <2>2, <2>3 DEF WithinBudget
<1> QED BY <1>2, <1>7, <1>8, <1>9, <1>10, <1>11, <1>12 DEF DataInv, DecisionsOnDurableState

\* The new file takes the old one's place.
LEMMA ReplaceKeepsData ==
  ASSUME OwnerAssumption, ControlInv, DataInv, Replace
  PROVE  DataInv'
<1>1. ~fault /\ owner \notin {"down", "loading"} /\ stage = "write"
  BY DEF Replace, ControlInv, StageInv
<1>2. /\ seen' = mem /\ mem' = mem /\ stage' = "replaced" /\ Images' \subseteq Images \cup {mem}
      /\ UNCHANGED <<now, at, queue, fault, owner, pc, result>>
  BY DEF Replace, Images, loopVars, ticketVars
<1>3. Owed' = Owed /\ Absent' = Absent
  BY <1>1, <1>2 DEF Owed, Absent, Saving
<1>4. DataTypes'
  BY DEF Replace, DataInv, DataTypes
<1>5. OwedOnDisk' /\ OwedInMemory'
  <2>1. Live(Owed) \subseteq mem /\ Live(Owed)' = Live(Owed)
    BY <1>1, <1>2, <1>3 DEF DataInv, OwedInMemory, Live
  <2> QED BY <1>2, <2>1 DEF DataInv, OwedOnDisk, OwedInMemory
<1>6. SaveInv'
  BY <1>1, <1>2 DEF DataInv, SaveInv, Saving
<1>7. AbsentInv'
  BY <1>2, <1>3 DEF DataInv, AbsentInv
<1>8. WithinBudget'
  <2>1. \A image \in Images \cup {mem} : Within(Live(image)')
    BY <1>2 DEF DataInv, WithinBudget, Live
  <2> QED BY <1>2, <2>1 DEF WithinBudget
<1> QED BY <1>2, <1>4, <1>5, <1>6, <1>7, <1>8 DEF DataInv, DecisionsOnDurableState

\* The save has returned: a debit is owed from here on, a cancelled one gone.
LEMMA SyncKeepsData ==
  ASSUME OwnerAssumption, ControlInv, DataInv, SyncDirectory
  PROVE  DataInv'
<1> DEFINE op == queue[1]
           o == Outcome(queue[1])
<1>1. queue # <<>> /\ Head(queue) = op /\ op \in Ops /\ op.kind \in {"debit", "cancel"}
      /\ ~fault /\ owner \notin {"down", "loading"} /\ stage = "replaced"
  <2>1. queue # <<>> /\ op.kind \in {"debit", "cancel"}
        /\ ~fault /\ owner \notin {"down", "loading"} /\ stage = "replaced"
    BY DEF SyncDirectory, ControlInv, StageInv
  <2> QED BY <2>1, HeadIsAwaited, CountIsFinite
<1>2. /\ Finish(queue[1], o) /\ survivors' = {seen} /\ UNCHANGED <<now, mem, seen, at, fault>>
      /\ o \in Results /\ (op.kind = "debit" => o = "leased") /\ (op.kind = "cancel" => o = "cancelled")
  BY <1>1 DEF SyncDirectory, Outcome, Results
<1>3. seen = mem /\ op.ticket \in Tickets /\ (op.kind = "debit" => op.ticket \in mem)
      /\ (op.kind = "cancel" => op.ticket \notin mem)
  BY <1>1, OpsHaveTickets DEF DataInv, SaveInv, Saving
<1>4. Images' = {mem} /\ mem \in Images /\ Live(Owed) \subseteq mem
  BY <1>1, <1>2, <1>3 DEF Images, DataInv, OwedInMemory
<1>5. /\ \A t \in Owed' : t \in Owed \/ (o = "leased" /\ op.kind = "debit" /\ op.ticket = t)
      /\ \A t \in Absent' : t \in Absent \/ (o \in {"refused", "cancelled"} /\ op.ticket = t)
      /\ SaveInv' /\ stage' = "free"
  <2>1. op.kind \in {"debit", "cancel"} => o # "none"
    BY <1>1, <1>2
  <2> HIDE DEF o
  <2> QED BY <1>1, <1>2, <2>1, FinishMoves
<1>6. Live(Owed)' \subseteq mem
  <2> SUFFICES ASSUME NEW t \in Owed', now - at[t] < Window PROVE t \in mem
    BY <1>2 DEF Live
  <2>1. t \in Owed => t \in Live(Owed)
    BY DEF Live
  <2> QED BY <1>3, <1>4, <1>5, <2>1
<1>7. OwedOnDisk' /\ OwedInMemory'
  BY <1>2, <1>4, <1>6 DEF OwedOnDisk, OwedInMemory
<1>8. AbsentInv'
  <2>1. ASSUME NEW t \in Absent', t \in mem PROVE FALSE
    <3>1. t \notin Absent
      BY <1>4, <2>1 DEF DataInv, AbsentInv
    <3>2. o = "cancelled" /\ op.ticket = t
      BY <1>1, <1>2, <1>5, <2>1, <3>1
    <3>3. op.kind = "cancel"
      BY <1>1, <1>2, <3>2
    <3> QED BY <1>3, <2>1, <3>2, <3>3
  <2> QED BY <1>2, <1>4, <2>1 DEF AbsentInv
<1>9. WithinBudget'
  <2>1. Within(Live(mem)')
    BY <1>2 DEF DataInv, WithinBudget, Live
  <2> QED BY <1>2, <1>4, <2>1 DEF WithinBudget
<1>10. DecisionsOnDurableState'
  BY <1>2, <1>3 DEF DecisionsOnDurableState
<1>11. DataTypes'
  BY <1>2 DEF DataInv, DataTypes
<1> QED BY <1>5, <1>7, <1>8, <1>9, <1>10, <1>11 DEF DataInv

\* The inductive step.
LEMMA StepKeepsData ==
  ASSUME OwnerAssumption, ControlInv, DataInv, [Next]_vars
  PROVE  DataInv'
<1>1. CASE \/ \E t \in Tickets : Reserve(t) \/ GiveUp(t) \/ TicketStep(t)
           \/ Start \/ Snapshot \/ Close \/ LoadObserved \/ Started \/ SnapshotObserved
  BY <1>1, CallersKeepData
<1>2. CASE Drained \/ Crash
  BY <1>2, StopKeepsData
<1>3. CASE Tick \/ UNCHANGED vars
  BY <1>3, TimeKeepsData
<1>4. CASE WorkerStep
  BY <1>4, FailureKeepsData, ReadKeepsData, DebitKeepsData, CancelKeepsData, ReplaceKeepsData, SyncKeepsData
     DEF WorkerStep
<1> QED BY <1>1, <1>2, <1>3, <1>4 DEF Next, LoopStep

\* What is owed is on disk and in memory, and what is not owed any more is
\* neither.
THEOREM DataInvHolds == Spec => []DataInv
<1>1. Init => ControlInv /\ DataInv
  BY InitControlInv, InitDataInv, OwnerAssumption
<1>2. (ControlInv /\ DataInv) /\ [Next]_vars => (ControlInv /\ DataInv)'
  BY StepKeepsControl, StepKeepsData, OwnerAssumption
<1> QED BY <1>1, <1>2, PTL DEF Spec

\* Every variable keeps its type, and no more permits are out than there are.
THEOREM TypeOKHolds == Spec => []TypeOK
<1>1. ControlInv /\ DataInv => TypeOK
  BY DEF ControlInv, ControlTypes, DataInv, DataTypes, TypeOK, Results
<1> QED BY <1>1, ControlInvHolds, DataInvHolds, PTL

\* What was handed to transport is never forgotten while it counts: its debit
\* is in every image a power loss may leave, and in the ledger that decides on
\* the next reservation (save before acknowledgement, the fault barrier).
THEOREM SentIsDurableHolds == Spec => []SentIsDurable
<1>1. DataInv => SentIsDurable
  <2> SUFFICES ASSUME DataInv PROVE SentIsDurable
    OBVIOUS
  <2>1. Live(Sent) \subseteq Live(Owed)
    BY DEF Sent, Owed, Live
  <2> QED BY <2>1 DEF DataInv, OwedOnDisk, OwedInMemory, SentIsDurable, Images
<1> QED BY <1>1, DataInvHolds, PTL

\* The worker takes up an operation only on a ledger that the file agrees with
\* (the fault barrier of _run).
THEOREM DecisionsOnDurableStateHolds == Spec => []DecisionsOnDurableState
<1>1. DataInv => DecisionsOnDurableState
  BY DEF DataInv
<1> QED BY <1>1, DataInvHolds, PTL

\* When nothing is pending, the ledger of a ready owner holds what was sent and
\* debts no cancel could be acknowledged for (_rollback).
THEOREM NoDebtLeakHolds == Spec => []NoDebtLeak
<1>1. ControlInv /\ DataInv => NoDebtLeak
  <2> SUFFICES ASSUME ControlInv, DataInv, pending = 0, NEW t \in Live(mem) PROVE pc[t] \in {"sent", "lost"}
    BY DEF NoDebtLeak
  <2>1. t \in mem /\ t \in Tickets
    BY DEF Live, DataInv, DataTypes
  <2>2. t \notin Absent
    BY <2>1 DEF DataInv, AbsentInv
  <2>3. Holding = {}
    BY QuietWhenPaid, OwnerAssumption
  <2> QED BY <2>1, <2>2, <2>3 DEF Absent, Holding, ControlInv, ControlTypes, Places
<1> QED BY <1>1, ControlInvHolds, DataInvHolds, PTL

\* The requests that were sent within one window stay within their budget, and
\* so do their tokens, through timeouts, failed saves, crashes and restarts
\* (check_and_debit).
THEOREM SentWithinBudgetHolds == Spec => []SentWithinBudget
<1>1. DataInv => SentWithinBudget
  <2> SUFFICES ASSUME DataInv PROVE SentWithinBudget
    OBVIOUS
  <2>1. Live(Sent) \subseteq Live(Owed) /\ seen \in Images /\ Live(seen) \in SUBSET Tickets
    BY DEF Sent, Owed, Live, Images, DataInv, DataTypes
  <2>2. Live(Owed) \subseteq seen
    BY <2>1 DEF DataInv, OwedOnDisk
  <2>3. Live(Owed) \subseteq Live(seen)
    BY <2>2 DEF Live
  <2>4. Within(Live(seen))
    BY <2>1 DEF DataInv, WithinBudget
  <2>5. Live(Sent) \in SUBSET Live(seen)
    BY <2>1, <2>3
  <2>6. Within(Live(Sent))
    BY <2>1, <2>4, <2>5, FewerAreWithin, OwnerAssumption
  <2> QED BY <2>6 DEF SentWithinBudget, Within
<1> QED BY <1>1, DataInvHolds, PTL
=============================================================================
