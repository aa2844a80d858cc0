------------------------------ MODULE SlotPool ------------------------------
(***************************************************************************)
(* What one bearer's limiter promises its callers, without its queues:    *)
(* a request is outside, waiting or inside; those inside occupy either    *)
(* the main pool, bounded by the live AIMD cap, or the priority pool,     *)
(* bounded by PRIORITY_RESERVE_SLOTS.  Nobody already inside is thrown    *)
(* out when a limit falls: a limit binds those who ENTER.  Which waiter   *)
(* enters first is not said here; FairLimiter says it and implements this *)
(* module.                                                                *)
(***************************************************************************)
EXTENDS Integers, FiniteSets

CONSTANT Requests     \* the calls that may want a slot of this bearer

VARIABLES waiting,    \* requests that wait for a slot
          inMain,     \* requests inside, charged to the main pool
          inPriority, \* requests inside, charged to the priority pool
          limit       \* the cap and reserve now in force, and whether calls queue

poolVars == <<waiting, inMain, inPriority, limit>>

Limits == [cap : Nat \ {0}, reserve : Nat, queueing : BOOLEAN]

\* Main-pool occupancy: holders of the priority pool beyond the live reserve
\* (it was lowered under them) count against the main pool.
Occupancy(main, priority, reserve) ==
  Cardinality(main)
    + (IF Cardinality(priority) > reserve THEN Cardinality(priority) - reserve ELSE 0)

\* Of the candidates W some enter the pools, which hold main and priority
\* once the departing have left, and the others wait.
Enter(W, main, priority) ==
  /\ main \subseteq inMain'
  /\ priority \subseteq inPriority'
  /\ waiting' \subseteq W
  /\ inMain' \ main \subseteq W \ waiting'
  /\ inPriority' \ priority \subseteq W \ waiting'
  /\ W \ waiting' \subseteq (inMain' \ main) \cup (inPriority' \ priority)
  /\ inMain' \cap inPriority' = {}
  /\ inPriority' # priority => Cardinality(inPriority') <= limit'.reserve
  /\ inMain' # main => Occupancy(inMain', inPriority', limit'.reserve) <= limit'.cap

PoolInit ==
  /\ waiting = {} /\ inMain = {} /\ inPriority = {}
  /\ limit \in Limits

\* A request arrives, and those that fit enter.  Without a queue it enters at
\* once: the caps are then only observed.
Arrive(r) ==
  /\ r \notin waiting \cup inMain \cup inPriority
  /\ UNCHANGED limit
  /\ \/ limit.queueing /\ Enter(waiting \cup {r}, inMain, inPriority)
     \/ /\ ~limit.queueing
        /\ UNCHANGED waiting
        /\ \/ inMain' = inMain \cup {r} /\ UNCHANGED inPriority
           \/ inPriority' = inPriority \cup {r} /\ UNCHANGED inMain

\* A request leaves (served, timed out or cancelled) from wherever it is.
Depart(r) ==
  /\ r \in waiting \cup inMain \cup inPriority
  /\ UNCHANGED limit
  /\ Enter(waiting \ {r}, inMain \ {r}, inPriority \ {r})

\* The limits change: the cap by AIMD or an operator, the reserve by an operator.
Retune ==
  /\ limit' \in Limits
  /\ Enter(waiting, inMain, inPriority)

PoolNext == (\E r \in Requests : Arrive(r) \/ Depart(r)) \/ Retune

PoolSpec == PoolInit /\ [][PoolNext]_poolVars
=============================================================================
