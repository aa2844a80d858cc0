---------------------------- MODULE DispatchLoop ----------------------------
(***************************************************************************)
(* The dispatcher of limiter.py as the loop it is (_try_dispatch popping  *)
(* with _next_waiter), beside the closed forms FairLimiter uses for it,   *)
(* and the count of the waiters an arrival stands behind (_ahead_of)      *)
(* beside what the loop would do.  The dispatchers are compared in every  *)
(* state the limiter reaches, cancelled futures in the queues and the     *)
(* lane closed under its waiters included, and there for every occupancy  *)
(* and limit.  A loop is the function from the number of its rounds to    *)
(* where it stands after them.                                            *)
(***************************************************************************)
EXTENDS FairLimiter

CONSTANT MaxSlots   \* bound on the occupancies, caps and reserves compared

ASSUME LoopAssumption == MaxSlots \in Nat

-----------------------------------------------------------------------------
(* The loop.  A lane is [order, qs, got]; got collects the resolved futures. *)

\* One round of _next_waiter: the head client's oldest future leaves its queue, and is
\* resolved unless it was cancelled; the client goes to the tail while it has work left.
Served(s, live) ==
  LET c    == Head(s.order)
      q    == s.qs[c]
      left == Tail(q)
  IN  IF q = <<>> THEN [s EXCEPT !.order = Tail(@)]
      ELSE [order |-> IF left = <<>> THEN Tail(s.order) ELSE Append(Tail(s.order), c),
            qs    |-> [s.qs EXCEPT ![c] = left],
            got   |-> s.got \cup ({Head(q)} \cap live)]

\* Every round drops an entry of the rotation or takes a future out of a queue.
MaxRounds(order) == Len(order) + Cardinality(Requests)

\* A lane after each number of rounds.  The loop is over with the rotation, or when its
\* condition fails; room holds the numbers of resolved futures with which it does not.
LoopRounds(order, qs, live, room) ==
  LET round[i \in 0..MaxRounds(order)] ==
        IF i = 0 THEN [order |-> order, qs |-> qs, got |-> {}]
        ELSE LET s == round[i - 1]
             IN  IF s.order = <<>> \/ Cardinality(s.got) \notin room THEN s ELSE Served(s, live)
  IN  round

Loop(order, qs, live, room) == LoopRounds(order, qs, live, room)[MaxRounds(order)]

Counts == 0..Cardinality(Requests)

\* _migrate_priority_to_normal, one client of the closed lane after the other.
MigrateLoop(qs, rr) ==
  LET pending == rr["priority"]
      moved[i \in 0..Len(pending)] ==
        IF i = 0 THEN [qs |-> qs["main"], order |-> rr["main"]]
        ELSE LET m == moved[i - 1]
                 c == pending[i]
             IN  IF qs["priority"][c] = <<>> THEN m
                 ELSE [qs    |-> [m.qs EXCEPT ![c] = @ \o qs["priority"][c]],
                       order |-> IF \E n \in DOMAIN m.order : m.order[n] = c THEN m.order
                                 ELSE Append(m.order, c)]
  IN  moved[Len(pending)]

TryDispatchLoop(live, n, p, cap) ==
  LET closed == reserve = 0 /\ rotation["priority"] # <<>>
      mig    == MigrateLoop(queues, rotation)
      qm0    == IF closed THEN mig.qs ELSE queues["main"]
      om0    == IF closed THEN mig.order ELSE rotation["main"]
      qp0    == IF closed THEN [c \in Clients |-> <<>>] ELSE queues["priority"]
      op0    == IF closed THEN <<>> ELSE rotation["priority"]
      pr     == Loop(op0, qp0, live, {g \in Counts : p + g < reserve})
      b      == Cardinality(pr.got)
      mn     == Loop(om0, qm0, live, {g \in Counts : NormalBusy(n + b + g, p + b, reserve) < cap})
  IN  [queues   |-> [main |-> mn.qs, priority |-> pr.qs],
       rotation |-> [main |-> mn.order, priority |-> pr.order],
       main     |-> mn.got,
       priority |-> pr.got]

-----------------------------------------------------------------------------

\* _ahead_of: queued futures that go before the next arrival of client c.
AheadOf(c, l) ==
  LET own == Len(queues[l][c])
      at(n) == \E m \in DOMAIN rotation[l] : rotation[l][m] = c /\ m <= n
      turns(n) == IF at(n) THEN own ELSE own + 1
      others == {n \in DOMAIN rotation[l] : rotation[l][n] # c}
      ahead(n) == Lesser(Len(queues[l][rotation[l][n]]), turns(n))
      pairs == {x \in others \X (1..Cardinality(Requests)) : x[2] <= ahead(x[1])}
  IN  own + Cardinality(pairs)

\* The futures the loop, with a slot for everybody, resolves before call r's.
LoopAhead(order, qs, live, r) ==
  LET round == LoopRounds(order, qs, live, Counts)
      last  == CHOOSE i \in 1..MaxRounds(order) : r \in round[i].got \ round[i - 1].got
  IN  Cardinality(round[last - 1].got)

-----------------------------------------------------------------------------
\* The closed forms are the loop: same futures resolved in the same lanes, same
\* queues and rotations left, for every occupancy, cap and reserve, with
\* cancelled futures anywhere and with the lane closed under its waiters.
ClosedFormIsTheLoop ==
  \A n \in 0..MaxSlots, p \in 0..MaxSlots, cap \in 1..MaxSlots :
    p <= n => Dispatched(queues, rotation, Live, n, p, cap) = TryDispatchLoop(Live, n, p, cap)

\* _ahead_of, on which a request is refused before it queues, is exactly the
\* number of calls the dispatcher resolves before that request, as long as
\* nobody ahead of it has been cancelled.
AheadOfIsExact ==
  \A r \in Requests, l \in Lanes :
    LET c  == ClientOf[r]
        qs == [queues[l] EXCEPT ![c] = Append(@, r)]
        order == IF queues[l][c] = <<>> THEN Append(rotation[l], c) ELSE rotation[l]
    IN  status[r] = "idle" /\ cancelled = {} =>
          AheadOf(c, l) = LoopAhead(order, qs, Live \cup {r}, r)

\* What the limiter computes without the loop, its dispatches and the rank it
\* refuses a call by, is what the loop does.
LoopIsKept == ClosedFormIsTheLoop /\ AheadOfIsExact
=============================================================================
