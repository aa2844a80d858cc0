--------------------------- MODULE AccountRouting ---------------------------
(***************************************************************************)
(* Which account a message is sent with (proxy.py: _route_account_if_      *)
(* enabled, _account_route_decision, _account_selection; session_affinity; *)
(* account_pool).  Sessions come back again and again; between their calls *)
(* the accounts' gauges, queues and pins change under them.                *)
(*                                                                         *)
(* Routing is synchronous: one action.  Prices are the code's in tenths,   *)
(* with the load and the surcharges as they are; the term with which a     *)
(* mode breaks ties (utilisation, pacing) is abstracted to "no difference".*)
(* A key the client brings as x-api-key is not routed, and not modelled.   *)
(*                                                                         *)
(* Each bearer's limiter is what its load is made of: the slots that are   *)
(* owned, the calls that wait, and the live cap that pushback shrinks and  *)
(* success raises.  Which call waits and which is of the priority lane is  *)
(* left open; FairLimiter has the limiter itself.                          *)
(***************************************************************************)
EXTENDS AccountPool, Sequences, SequencesExt

CONSTANTS
  Calls, Sessions,
  Caller,            \* the callers' own bearer, if it is not a configured account
  Metered,           \* the API-key lane's bearer
  Setups,            \* [mode, affinity, apiKey, static, gauges |-> what gauges may say,
                     \*  slots |-> MAX_CONCURRENT, reserve |-> PRIORITY_RESERVE_SLOTS,
                     \*  caps |-> what a live cap may come to]
  Scale,             \* what makes every load a whole number
  MaxPins,           \* MAX_PINS
  MaxTokens,         \* of one call (bound)
  MaxTurns           \* turns of the balancer (bound)

Bearers == Accounts \cup {Caller}
Own == "own"   \* no rewrite: what the caller brought

ASSUME RoutingAssumption ==
  /\ Accounts \cap {Caller, Metered} = {} /\ Caller # Metered
  /\ Own \notin Accounts \cup {Caller, Metered} /\ IsFiniteSet(Calls)
  /\ \A s \in Setups : s.mode \in {"least_loaded", "budget_paced", "round_robin"}
  /\ \A s \in Setups : s.slots \in Nat \ {0} /\ s.reserve \in Nat /\ s.caps \subseteq Nat \ {0}
  /\ Scale \in Nat \ {0}
  /\ \A s \in Setups : \A k \in s.caps : (k + s.reserve) * (Scale \div (k + s.reserve)) = Scale
  /\ MaxPins \in Nat \ {0} /\ MaxTokens \in Nat \ {0}

VARIABLES
  setup,    \* the knobs
  gauge,    \* what is known of each bearer, a set of
            \* "warn": near its limit; "crossed": past the soft target; "held": in a
            \* Retry-After of 3 s; "shut": in a long one, exhausted or being probed;
            \* "dead": credential refused; "ahead": of its weekly schedule.  Of the
            \* callers' own bearer "warn" also says that nothing fresh is known
  cap,      \* per bearer: its live cap, max_concurrent
  busy,     \* per bearer: the calls that own one of its slots, inflight
  pins,     \* <<[of |-> session, to |-> bearer], ...>>, least recently routed first
  lapsed,   \* sessions idle for longer than TTL_S
  pc, at,   \* per call: where it is, and with which bearer
  ticket,
  pool,
  joined    \* ghost: per account, its work when it last became a member

vars == <<setup, gauge, cap, busy, pins, lapsed, pc, at, ticket, pool, joined>>

Init ==
  /\ setup \in Setups
  /\ gauge \in [Bearers -> setup.gauges]
  /\ cap \in [Bearers -> setup.caps] /\ busy = [b \in Bearers |-> 0]
  /\ pins = <<>> /\ lapsed = {}
  /\ pc = [r \in Calls |-> "idle"] /\ at = [r \in Calls |-> Caller]
  /\ ticket = [r \in Calls |-> NoTicket]
  /\ pool = EmptyPool /\ joined = [a \in Accounts |-> 0]

-----------------------------------------------------------------------------
(* Prices. *)

On(b) == {r \in Calls : pc[r] # "idle" /\ at[r] = b}
Queued(b) == LET n == Cardinality(On(b)) IN IF n > busy[b] THEN n - busy[b] ELSE 0

\* _bearer_local_load_score, in tenths of 1/Scale: what is queued and what is under
\* way, by the share of the configured capacity that pushback has left.
Load(b) ==
  (1000 * Queued(b) + 100 * busy[b])
    * (setup.slots + setup.reserve) * (Scale \div (cap[b] + setup.reserve))
Full == 1000 * Scale   \* _QUEUE_SPILLOVER_LOAD_THRESHOLD

Has(b, word) == word \in gauge[b]
Closed(b) == Has(b, "dead") \/ Has(b, "shut")
Crossed(b) == setup.mode = "budget_paced" /\ Has(b, "crossed")

\* _account_routing_candidate_score is finite.
Priced(b, pressure, spill) ==
  ~Closed(b) /\ (Has(b, "warn") => pressure) /\ (Crossed(b) => spill)

\* ... and this; a caller's own account has a hair's breadth of an advantage.
Price(b, incoming) ==
  10 * (Load(b) + Scale * ((IF Has(b, "warn") THEN 800 ELSE 0)
                           + (IF Crossed(b) THEN 1000 ELSE 0)
                           + (IF Has(b, "held") THEN 300 ELSE 0)))
  - (IF b = incoming /\ ~Has(b, "held") THEN 1 ELSE 0)

Strict(b) == Priced(b, FALSE, FALSE)

Cheapest(S, incoming) == {b \in S : \A c \in S : Price(b, incoming) <= Price(c, incoming)}

-----------------------------------------------------------------------------
(* The choice. *)

\* Variant: a clean account beats one under pressure whatever its queue.
LadderStrictFirst(routable, incoming) ==
  LET strict == {b \in routable : Strict(b)}
      spill == strict # {} /\ \A b \in strict : Load(b) >= Full
      pressured == {b \in routable : Priced(b, TRUE, spill)}
      spilled == {b \in routable : Priced(b, TRUE, TRUE)}
  IN  IF strict # {} THEN Cheapest(strict, incoming)
      ELSE IF pressured # {} THEN Cheapest(pressured, incoming)
      ELSE Cheapest(spilled, incoming)

\* _account_selection without the balancer: strict candidates, unless the best
\* under pressure is cheaper; past the soft target only when all strict ones
\* are full or nothing else is left.  Which of equals is first is left open.
Ladder(routable, incoming) ==
  LET strict == {b \in routable : Strict(b)}
      spill == strict # {} /\ \A b \in strict : Load(b) >= Full
      pressured == {b \in routable : Priced(b, TRUE, spill)}
      spilled == {b \in routable : Priced(b, TRUE, TRUE)}
      cheaper == \E p \in pressured : \A s \in strict : Price(p, incoming) < Price(s, incoming)
  IN  IF strict # {} /\ ~cheaper THEN Cheapest(strict, incoming)
      ELSE IF pressured # {} THEN Cheapest(pressured, incoming)
      ELSE Cheapest(spilled, incoming)

\* _round_robin_candidates.
Candidates(routable) == {b \in routable : ~Closed(b) /\ ~Has(b, "held")}

\* The balancer's order among them.
FirstInTurn(S) ==
  {b \in S : \A c \in S : Before(Key(pool, b, Queued(b)), Key(pool, c, Queued(c)))}

Choice(routable, incoming) ==
  IF setup.mode = "round_robin" THEN FirstInTurn(Candidates(routable))
  ELSE Ladder(routable, incoming)

\* The least load among the strict (or balanced) candidates.
LoadFloor(routable, b) ==
  LET pool0 == IF setup.mode = "round_robin" THEN Candidates(routable)
               ELSE {c \in routable : Strict(c)}
  IN  \A c \in pool0 : Load(b) <= Load(c)

\* _weekly_pacing_filter: accounts ahead of schedule only when all are.
Snapshot ==
  LET onSchedule == {a \in Accounts : ~Has(a, "ahead")}
  IN  IF onSchedule = {} THEN Accounts ELSE onSchedule

\* Variant: a pin is kept whatever became of its account.
PinHoldsAnyway(b, routable) == b \in routable

\* Variant: a pin goes to whoever has less to do.
PinHoldsWhileIdle(b, routable) ==
  /\ b \in routable /\ ~Has(b, "held") /\ Strict(b)
  /\ ~\E c \in routable \ {b} : Strict(c) /\ Load(c) < Load(b)

\* _pinned_account: the pin holds while its account passes every gate, and is not
\* full where another has room.
PinHolds(b, routable) ==
  /\ b \in routable /\ ~Has(b, "held") /\ Strict(b)
  /\ ~(Load(b) >= Full /\ \E c \in routable \ {b} : Strict(c) /\ Load(c) < Full)

\* _healthy_known_unconfigured_bearer: the call may stay with what it brought,
\* if that is none of the accounts it could be routed to.
CallerStays(incoming, routable) ==
  /\ incoming \notin routable /\ ~setup.static
  /\ gauge[incoming] \cap {"dead", "shut", "held", "warn"} = {}
  /\ LoadFloor(routable, incoming)

\* _account_route_decision past the choice: the API key, or nothing better than
\* what the call brought, unless that is refused or a retired key.
Fallback(incoming, routable) ==
  LET live == {b \in routable : ~Has(b, "dead")}
  IN  IF setup.apiKey = "overflow" THEN {Metered}
      ELSE IF live # {} /\ (Has(incoming, "dead") \/ (setup.static /\ incoming \notin routable))
           THEN {b \in live : \A c \in live : Load(b) <= Load(c)}
      ELSE {Own}

PinOf(s) == {pins[i].to : i \in {j \in DOMAIN pins : pins[j].of = s /\ s \notin lapsed}}

Decision(s, incoming) ==
  LET kept == {b \in PinOf(s) : setup.affinity /\ PinHolds(b, Snapshot)}
      chosen == Choice(Snapshot, incoming)
  IN  IF setup.apiKey = "prefer" THEN {Metered}
      ELSE IF kept # {} THEN kept
      ELSE IF CallerStays(incoming, Snapshot) THEN {Own}
      ELSE IF chosen # {} THEN chosen
      ELSE Fallback(incoming, Snapshot)

-----------------------------------------------------------------------------
(* Calls. *)

\* How many of n calls may own a slot of a bearer whose cap is c when some do
\* already (_try_dispatch): nobody waits beside a slot of their lane that is
\* free, and nobody is given one above cap and reserve.
Granted(n, owned, c) ==
  LET sure == IF setup.reserve \in 1..c THEN setup.reserve ELSE c
  IN  {k \in owned..n : (k >= sure \/ k = n) /\ (k = owned \/ k <= c + setup.reserve)}

\* A session has one pin at most.
Without(s) ==
  IF \A i \in DOMAIN pins : pins[i].of # s THEN pins
  ELSE RemoveAt(pins, CHOOSE i \in DOMAIN pins : pins[i].of = s)

\* pin: to the end of the order; over the limit the first goes.
Remember(s, b) ==
  LET kept == Append(Without(s), [of |-> s, to |-> b])
  IN  IF Len(kept) > MaxPins THEN Tail(kept) ELSE kept

\* pinned: a pin that lapsed goes when it is looked up.
LookedUp(s) == IF s \in lapsed /\ setup.affinity /\ setup.apiKey # "prefer" THEN Without(s) ELSE pins

\* _route_account_if_enabled.
Route(r, s, incoming) ==
  /\ pc[r] = "idle" /\ pool.turns < MaxTurns
  /\ pc' = [pc EXCEPT ![r] = "slot"]
  /\ \E b \in Decision(s, incoming) :
       /\ at' = [at EXCEPT ![r] = IF b = Own THEN incoming ELSE b]
       /\ IF at'[r] \in Bearers
          THEN \E k \in Granted(Cardinality(On(at'[r])) + 1, busy[at'[r]], cap[at'[r]]) :
                 busy' = [busy EXCEPT ![at'[r]] = k]
          ELSE busy' = busy
       /\ pins' = IF b \in Snapshot /\ setup.affinity THEN Remember(s, b) ELSE LookedUp(s)
       /\ pool' = IF setup.mode = "round_robin" /\ b \in Candidates(Snapshot)
                  THEN Selected(pool, b, Candidates(Snapshot)) ELSE pool
  /\ lapsed' = {t \in lapsed \ {s} : \E i \in DOMAIN pins' : pins'[i].of = t}
  /\ joined' = [a \in Accounts |-> IF a \in pool'.members \ pool.members
                                   THEN pool'.work[a] ELSE joined[a]]
  /\ UNCHANGED <<setup, gauge, cap, ticket>>

\* A call that owns a slot is handed to transport.
Send(r) ==
  /\ pc[r] = "slot" /\ at[r] # Metered
  /\ Cardinality({q \in On(at[r]) : pc[q] = "sent"}) < busy[at[r]]
  /\ pc' = [pc EXCEPT ![r] = "sent"]
  /\ ticket' = [ticket EXCEPT ![r] =
       IF setup.mode = "round_robin" THEN TicketFor(pool, at[r]) ELSE NoTicket]
  /\ pool' = Begun(pool, ticket'[r])
  /\ UNCHANGED <<setup, gauge, cap, busy, pins, lapsed, at, joined>>

\* A slot is given back and goes to whoever waits.
Freed(b) ==
  \E k \in Granted(Cardinality(On(b)) - 1, busy[b] - 1, cap[b]) : busy' = [busy EXCEPT ![b] = k]

\* It is answered, with or without a count of its tokens, or fails.
Finish(r) ==
  /\ pc[r] = "sent" \/ (pc[r] = "slot" /\ at[r] = Metered)
  /\ pc' = [pc EXCEPT ![r] = "idle"] /\ at' = [at EXCEPT ![r] = Caller]
  /\ ticket' = [ticket EXCEPT ![r] = NoTicket]
  /\ \E tokens \in 0..(IF ticket[r] = NoTicket THEN 0 ELSE MaxTokens) :
       pool' = Finished(pool, ticket[r], tokens)
  /\ IF pc[r] = "sent" THEN Freed(at[r]) ELSE busy' = busy
  /\ UNCHANGED <<setup, gauge, cap, pins, lapsed, joined>>

\* It gives up, in the queue or with a slot it was just given.
Leave(r) ==
  /\ pc[r] = "slot"
  /\ IF at[r] = Metered THEN busy' = busy
     ELSE \/ Queued(at[r]) > 0 /\ busy' = busy
          \/ /\ Cardinality({q \in On(at[r]) : pc[q] = "sent"}) < busy[at[r]]
             /\ Freed(at[r])
  /\ pc' = [pc EXCEPT ![r] = "idle"] /\ at' = [at EXCEPT ![r] = Caller]
  /\ UNCHANGED <<setup, gauge, cap, pins, lapsed, ticket, pool, joined>>

\* AIMD: pushback shrinks a live cap, success raises it and lets waiters in.
Adapt(b) ==
  /\ \E c \in setup.caps :
       /\ c # cap[b] /\ cap' = [cap EXCEPT ![b] = c]
       /\ IF c < cap[b] THEN busy' = busy
          ELSE \E k \in Granted(Cardinality(On(b)), busy[b], c) : busy' = [busy EXCEPT ![b] = k]
  /\ UNCHANGED <<setup, gauge, pins, lapsed, pc, at, ticket, pool, joined>>

\* A response, a poll or the calendar changes what is known of a bearer.
Learn(b) ==
  /\ \E words \in setup.gauges : words # gauge[b] /\ gauge' = [gauge EXCEPT ![b] = words]
  /\ UNCHANGED <<setup, cap, busy, pins, lapsed, pc, at, ticket, pool, joined>>

\* A session is idle for two hours.
Lapse(s) ==
  /\ s \notin lapsed /\ \E i \in DOMAIN pins : pins[i].of = s
  /\ lapsed' = lapsed \cup {s}
  /\ UNCHANGED <<setup, gauge, cap, busy, pins, pc, at, ticket, pool, joined>>

Next ==
  \/ \E r \in Calls : \/ \E s \in Sessions, incoming \in Bearers : Route(r, s, incoming)
                      \/ Send(r) \/ Finish(r) \/ Leave(r)
  \/ \E b \in Bearers : Adapt(b) \/ Learn(b)
  \/ \E s \in Sessions : Lapse(s)

Spec == Init /\ [][Next]_vars

-----------------------------------------------------------------------------
TypeOK ==
  /\ setup \in Setups
  /\ gauge \in [Bearers -> setup.gauges]
  /\ cap \in [Bearers -> setup.caps] /\ busy \in [Bearers -> 0..Cardinality(Calls)]
  /\ Len(pins) <= MaxPins /\ lapsed \subseteq Sessions
  /\ pc \in [Calls -> {"idle", "slot", "sent"}]
  /\ at \in [Calls -> Bearers \cup {Metered}]
  /\ pool.members \subseteq Accounts

\* A bearer is full once its calls, those that wait counted tenfold, come to ten
\* for its slots at full capacity, or to fewer by as much as its cap has shrunk.
Saturated(b) ==
  (10 * Queued(b) + busy[b]) * (setup.slots + setup.reserve) >= 10 * (cap[b] + setup.reserve)

\* The ladder of pools and passes in _account_selection comes to this: the
\* cheapest account that is not closed, those past their soft target only when
\* every clean one is full or nothing else is open.
ChoiceIsCheapest ==
  setup.mode # "round_robin" =>
    LET open == {b \in Snapshot : ~Closed(b)}
        below == {b \in open : ~Crossed(b)}
        clean == {b \in below : ~Has(b, "warn")}
        pickable == IF below = {} \/ (clean # {} /\ \A b \in clean : Saturated(b))
                    THEN open ELSE below
    IN  \A incoming \in Bearers :
          /\ Ladder(Snapshot, incoming) \subseteq Cheapest(pickable, incoming)
          /\ pickable # {} => Ladder(Snapshot, incoming) # {}

\* However a call came by its bearer (pin, ladder, balancer, fallback), it is
\* not sent with a refused credential while a configured one is alive and on
\* schedule.
DeadServesNobody ==
  [][\A r \in Calls : pc[r] = "idle" /\ pc'[r] = "slot" /\ at'[r] # Metered =>
       ~Has(at'[r], "dead") \/ \A b \in Snapshot : Has(b, "dead")]_vars

\* A session that has a pin is moved only off an account that is not clean or
\* ahead of its weekly schedule, or one that is full while another is clean and
\* has room; and a pin is given up only to make room for a new session's, by the
\* one that was routed least recently.
SessionsStay ==
  [][\A i \in DOMAIN pins : pins[i].of \notin lapsed =>
       \/ \E j \in DOMAIN pins' : pins'[j] = pins[i]
       \/ gauge[pins[i].to] # {}
       \/ Saturated(pins[i].to) /\ \E c \in Snapshot : Strict(c) /\ ~Saturated(c)
       \/ /\ i = 1 /\ Len(pins) = MaxPins
          /\ \A k \in DOMAIN pins : pins[k].of # pins'[MaxPins].of]_vars

\* What is pending on an account is what its open tickets were estimated at,
\* also when the account has left the pool since.
Owed(a) == UNION {{r} \X (1..ticket[r].estimate) : r \in {q \in Calls : ticket[q] # NoTicket /\ ticket[q].of = a}}
PendingIsOwed == \A a \in Accounts : pool.pending[a] = Cardinality(Owed(a))

\* No account works ahead of another member by more than what the calls under
\* way can make of their estimates, and what it brought along when it joined;
\* where an API key takes what the balancer cannot place.
NobodyRunsAhead ==
  setup.apiKey = "overflow" =>
    \A a, b \in pool.members :
      \/ pool.work[a] <= pool.work[b] + Cardinality(Calls) * MaxTokens
      \/ pool.work[a] <= joined[a] + Cardinality(Calls) * MaxTokens

\* The balancer's books: what is owed is pending, and what was done evens out.
BooksAreKept == PendingIsOwed /\ NobodyRunsAhead
=============================================================================
