----------------------------- MODULE AccountPool -----------------------------
(***************************************************************************)
(* Token-work balancing with round-robin ties (account_pool.py), as        *)
(* operators on the balancer's state.  A label and its bearer are one      *)
(* account here; a ticket is the account it is charged to and an estimate. *)
(***************************************************************************)
EXTENDS Integers, FiniteSetsExt

CONSTANTS
  Accounts,
  DefaultQuantum,   \* the estimate while nothing has been measured
  NoTicket

ASSUME PoolAssumption ==
  DefaultQuantum \in Nat \ {0} /\ NoTicket \notin [of : Accounts, estimate : Nat]

EmptyPool ==
  [work |-> [a \in Accounts |-> 0], pending |-> [a \in Accounts |-> 0],
   turn |-> [a \in Accounts |-> 0], members |-> {},
   turns |-> 0, measured |-> 0, tokens |-> 0, floor |-> 0]

\* The mean of what was measured.
Quantum(p) ==
  IF p.measured = 0 THEN DefaultQuantum
  ELSE LET mean == p.tokens \div p.measured IN IF mean < 1 THEN 1 ELSE mean

\* Whoever is not a member counts for no less than the floor.
Lifted(p, a) == IF p.work[a] < p.floor THEN p.floor ELSE p.work[a]

WorkOf(p, a) == IF a \in p.members THEN p.work[a] ELSE Lifted(p, a)

\* key: least work first, and the longest without a turn among equals.
Key(p, a, queued) == <<WorkOf(p, a) + p.pending[a] + queued * Quantum(p), p.turn[a]>>

Before(k, l) == k[1] < l[1] \/ (k[1] = l[1] /\ k[2] <= l[2])

\* selected: the members that stayed set the floor, and newcomers are lifted to it.
Floor(p, members) ==
  LET staying == p.members \cap members
  IN  IF staying = {} THEN p.floor ELSE Min({p.work[s] : s \in staying})

Selected(p, a, members) ==
  LET floor == Floor(p, members)
  IN  [work |-> [m \in Accounts |-> IF m \in members \ p.members /\ p.work[m] < floor
                                    THEN floor ELSE p.work[m]],
       pending |-> p.pending, turn |-> [p.turn EXCEPT ![a] = p.turns + 1],
       members |-> members, turns |-> p.turns + 1,
       measured |-> p.measured, tokens |-> p.tokens, floor |-> floor]

\* begin: an account that is no member gets no ticket.
TicketFor(p, a) == IF a \in p.members THEN [of |-> a, estimate |-> Quantum(p)] ELSE NoTicket
Begun(p, ticket) ==
  IF ticket = NoTicket THEN p ELSE [p EXCEPT !.pending[ticket.of] = @ + ticket.estimate]

\* Variant: the ticket is settled with whoever is a member now.
FinishedAsMember(p, ticket, tokens) ==
  IF ticket = NoTicket \/ ticket.of \notin p.members THEN p
  ELSE [p EXCEPT !.pending[ticket.of] = @ - ticket.estimate,
                 !.work[ticket.of] = @ + (IF tokens > 0 THEN tokens ELSE ticket.estimate),
                 !.tokens = @ + tokens,
                 !.measured = IF tokens > 0 THEN @ + 1 ELSE @]

\* finish, once per ticket: no usage is charged as estimated.  That a ticket be discarded
\* is never asked for.
Finished(p, ticket, tokens) ==
  IF ticket = NoTicket THEN p
  ELSE [p EXCEPT !.pending[ticket.of] = @ - ticket.estimate,
                 !.work[ticket.of] = @ + (IF tokens > 0 THEN tokens ELSE ticket.estimate),
                 !.tokens = @ + tokens,
                 !.measured = IF tokens > 0 THEN @ + 1 ELSE @]
=============================================================================
