------------------------------- MODULE Rules -------------------------------
(***************************************************************************)
(* The components of the proxy and of its tools that share no state with   *)
(* one another, side by side: "which" says whose behaviour this is, the    *)
(* others rest.  With "none" all of them rest.                             *)
(***************************************************************************)
EXTENDS Integers, Sequences, FiniteSets

VARIABLE which

-----------------------------------------------------------------------------
(* The queue-wait client. *)
CONSTANTS NativeRetries, MaxRejections, ClientMaxWait, Delays
VARIABLES
  clientPc, aborted, fetches, rejection, capture, saw, event, rejections, waited, delay, out,
  waiting, proven
Client == INSTANCE QueueWait WITH pc <- clientPc, MaxWait <- ClientMaxWait
clientVars == <<clientPc, aborted, fetches, rejection, capture, saw, event, rejections, waited,
                delay, proven, out, waiting>>

\* Counts and times are natural numbers; zero retries, rejections or seconds are fine.
ClientParameters ==
  /\ NativeRetries \in Nat /\ MaxRejections \in Nat /\ ClientMaxWait \in Nat
  /\ Delays \subseteq Nat

(* The cut of oversize bodies. *)
CONSTANTS
  Budget, KeepTail, Envelope, Note, Cap, KeepTurns, MinBlock, Stub, Sizes, Anchors, Spares, MaxTurns
VARIABLES anchor, turns, spare
Body == INSTANCE BodyFit
bodyVars == <<anchor, turns, spare>>

\* Sizes are natural numbers, and the live tail is not empty.
BodyParameters ==
  /\ Budget \in Nat /\ KeepTail \in Nat \ {0} /\ Envelope \in Nat /\ Note \in Nat
  /\ Cap \in Nat /\ KeepTurns \in Nat /\ MinBlock \in Nat /\ Stub \in Nat
  /\ Sizes \subseteq Nat /\ Anchors \subseteq Nat /\ Spares \subseteq Nat

(* The watchdog of the free gate. *)
CONSTANTS
  Gates, Statuses, Util, Floor, Start, PinDwell, Threshold, WatchWindow, WatchCooldown,
  MaxScrapes, MaxShrinks, MaxGap
VARIABLES live, gates, turn, clock, ceiling, shrinks, lastLabel, shrunk, scrapes, attempts
Watch == INSTANCE Watchdog WITH Window <- WatchWindow, Cooldown <- WatchCooldown
watchVars == <<live, gates, turn, clock, ceiling, shrinks, lastLabel, shrunk, scrapes, attempts>>

\* Statuses in their sort order; at least one shrink makes a spike, and one gate is polled.
WatchParameters ==
  /\ Gates \subseteq Nat \ {0} /\ Util \in Statuses
  /\ Statuses \subseteq Nat /\ IsFiniteSet(Statuses) /\ Floor \in Nat /\ Start \in Nat
  /\ PinDwell \in Nat /\ Threshold \in Nat \ {0} /\ WatchWindow \in Nat /\ WatchCooldown \in Nat

(* The drain estimate of a limiter. *)
CONSTANTS MaxSlots, MaxHolds, MaxQueue, Typical, DrainMaxWait, RetryFloor, DrainRetryCap
VARIABLES slots, evidenced, ages, queue, heavy, told
Drain == INSTANCE DrainEstimate WITH MaxWait <- DrainMaxWait, RetryCap <- DrainRetryCap
drainVars == <<slots, evidenced, ages, queue, heavy, told>>

\* A service takes time (limiter.py, _MIN_SERVICE_TIME_S); a budget may be spent at once.
DrainParameters ==
  /\ MaxSlots \in Nat /\ MaxHolds \in Nat /\ MaxQueue \in Nat
  /\ Typical \in Nat \ {0} /\ DrainMaxWait \in Nat

(* The feedback of pushback into a lane's cap. *)
CONSTANTS
  AimdMin, Initial, Ceilings, LiveFloors, DecreasePct, Backoff, Cooldown, MaxHold, RejectCap,
  Fresh, Slow, Fast, Storm, Claims, LaneRetryAfters, MaxWindows, MaxEvents
VARIABLES lane, window, events
Lane == INSTANCE LaneFeedback WITH RetryAfters <- LaneRetryAfters
laneVars == <<lane, window, events>>

\* A floor, ceilings and a backoff of at least one, as the configuration has them.
LaneParameters ==
  /\ AimdMin \in Nat \ {0} /\ Initial \in Int /\ Backoff \in Nat \ {0} /\ DecreasePct \in Nat
  /\ Ceilings \subseteq Nat \ {0} /\ LiveFloors \subseteq Nat

(* The weekly pace of accounts and the share of projects. *)
CONSTANTS
  PaceAccounts, Projects, Direct, Share, Week, Full, Burst, PaceRetryCap, MaxProjects, Overflow,
  MaxCalls, MaxHour
VARIABLES reading, hour, buckets, known, lastSeen, answer, spent
Pace == INSTANCE WeeklyPacing WITH Accounts <- PaceAccounts, RetryCap <- PaceRetryCap
paceVars == <<reading, hour, buckets, known, lastSeen, answer, spent>>

\* Any burst from nothing to the whole week, as parse_burst has it.
PaceParameters ==
  /\ Week \in Nat /\ Full \in Nat /\ Burst \in 0..Full /\ PaceRetryCap \in Nat
\* Shares are configured for projects, and for none by the name of the overflow bucket.
ShareParameters ==
  /\ IsFiniteSet(Projects) /\ MaxHour \in Nat
  /\ Share \in [DOMAIN Share -> Nat] /\ DOMAIN Share \subseteq Projects \ {Overflow}

(* The health and the admission of a lane, and what the ingress makes of them. *)
CONSTANTS
  Bearers, Bound, Windows, DoorReadings, DoorRetryAfters, Pools, Reserve, Streak, RecheckEvery, MaxAge,
  None, DoorEvents
VARIABLES
  seen, windows, paused, pool, dead, streak, restored, stored, unchecked, due, checking, upstream,
  class, probe, laneState, good, faults, condemned, unsaved, quiet, lagging
Door == INSTANCE LaneHealth WITH
  reading <- windows, live <- dead, disk <- stored, lane <- upstream, entry <- laneState,
  events <- faults, refused <- condemned, Readings <- DoorReadings, RetryAfters <- DoorRetryAfters,
  MaxEvents <- DoorEvents
doorVars == <<seen, windows, paused, pool, dead, streak, restored, stored, unchecked, due, checking,
              upstream, class, probe, laneState, good, faults, condemned, unsaved, quiet, lagging>>

WindowReading == [rejected : BOOLEAN, spent : BOOLEAN, left : Nat]
Bodies == [open : BOOLEAN, sound : BOOLEAN, age : Nat]

\* Times are natural numbers, and no probe is no body.
DoorParameters ==
  /\ DoorReadings \subseteq [Windows -> WindowReading] /\ DoorRetryAfters \subseteq Nat
  /\ MaxAge \in Nat /\ None \notin Bodies

(* The identities behind the credential stores. *)
CONSTANTS Stores, Emails, MaxTasks, MaxLogins
VARIABLES holder, label, probed, sig, emitted, tasks, logins, warned, broken
Guard == INSTANCE IdentityGuard
guardVars == <<holder, label, probed, sig, emitted, tasks, logins, warned, broken>>

ASSUME RulesAssumption ==
  /\ ClientParameters /\ BodyParameters /\ WatchParameters /\ DrainParameters
  /\ LaneParameters /\ PaceParameters /\ ShareParameters /\ DoorParameters

-----------------------------------------------------------------------------
rulesVars ==
  <<which, clientVars, bodyVars, watchVars, drainVars, laneVars, paceVars, doorVars, guardVars>>

Movers == {"none", "client", "body", "watch", "drain", "lane", "pace", "door", "guard"}

RulesInit ==
  /\ which \in Movers
  /\ Client!Init /\ Body!BodyInit /\ Watch!WatchInit /\ Drain!DrainInit /\ Lane!FeedbackInit
  /\ Pace!PaceInit /\ Door!HealthInit /\ Guard!IdentityInit

RulesNext ==
  \/ /\ which = "client" /\ Client!Next
     /\ UNCHANGED <<which, bodyVars, watchVars, drainVars, laneVars, paceVars, doorVars, guardVars>>
  \/ /\ which = "body" /\ Body!BodyNext
     /\ UNCHANGED <<which, clientVars, watchVars, drainVars, laneVars, paceVars, doorVars, guardVars>>
  \/ /\ which = "watch" /\ Watch!WatchNext
     /\ UNCHANGED <<which, clientVars, bodyVars, drainVars, laneVars, paceVars, doorVars, guardVars>>
  \/ /\ which = "drain" /\ Drain!DrainNext
     /\ UNCHANGED <<which, clientVars, bodyVars, watchVars, laneVars, paceVars, doorVars, guardVars>>
  \/ /\ which = "lane" /\ Lane!FeedbackNext
     /\ UNCHANGED <<which, clientVars, bodyVars, watchVars, drainVars, paceVars, doorVars, guardVars>>
  \/ /\ which = "pace" /\ Pace!PaceNext
     /\ UNCHANGED <<which, clientVars, bodyVars, watchVars, drainVars, laneVars, doorVars, guardVars>>
  \/ /\ which = "door" /\ Door!HealthNext
     /\ UNCHANGED <<which, clientVars, bodyVars, watchVars, drainVars, laneVars, paceVars, guardVars>>
  \/ /\ which = "guard" /\ Guard!IdentityNext
     /\ UNCHANGED <<which, clientVars, bodyVars, watchVars, drainVars, laneVars, paceVars, doorVars>>

RulesSpec == RulesInit /\ [][RulesNext]_rulesVars

\* The fairness each component assumes, of the one that moves.
RulesFairness ==
  /\ WF_clientVars(which = "client" /\ Client!LoopStep)
  /\ WF_clientVars(which = "client" /\ aborted /\ Client!NativeEnds)
  /\ WF_laneVars(which = "lane" /\ Lane!Served)
  /\ WF_laneVars(which = "lane" /\ Lane!Tick)
  /\ WF_doorVars(which = "door" /\ Door!RecheckPass)
  /\ WF_doorVars(which = "door" /\ Door!RecheckSend)
  /\ WF_doorVars(which = "door" /\ Door!RecheckAnswer)
  /\ WF_doorVars(which = "door" /\ Door!Tick)

-----------------------------------------------------------------------------
(* The properties are those of the components. *)

\* QueueWait: a call ends once, and every rejection by the queue is accounted for.
CallsEndAccounted == which = "client" => Client!EndsOnce /\ Client!RejectionsAreCounted
\* QueueWait: a request is sent again only on a proven rejection of its latest fetch.
RetryIsProven == Client!RetryIsProven
\* QueueWait: a caller that aborts is let go.
AbortEnds == Client!AbortEnds
\* BodyFit: no more of a request is left out than its lane's limit asks for.
BodiesAreCutLeast == which = "body" => Body!BodiesAreCutLeast
\* Watchdog: a spike stands for shrinks that happened, and every ceiling that stayed down
\* is alerted, and no other.
\* IdentityGuard: a collision of credential stores on the books is warned of, or being
\* verified by one task that has not broken off.
AlertsAreTrue ==
  /\ which = "watch" => Watch!AlertsAreTrue
  /\ which = "guard" => Guard!CollisionsAreFollowedUp
\* DrainEstimate: who is admitted on the estimate is dispatched in time.
EstimatesAreKept == which = "drain" => Drain!EstimatesAreKept
\* LaneFeedback: the cap comes back to the ceiling once pushback stops.  LaneHealth: a
\* credential the upstream accepts again comes out of quarantine.
LanesComeBack == Lane!CeilingComesBack /\ Door!CredentialsComeBack
\* LaneFeedback: pushback never widens a lane.
PushbackNarrows == Lane!PushbackNarrows
\* WeeklyPacing: a caller told to come back later finds an account when it does, and a
\* project told that it had its share really had it.  LaneHealth: what a lane says of its
\* credentials, of when it serves again and of its load is so, as is what the ingress
\* makes of it.
RefusalsAreHonest ==
  /\ which = "pace" => Pace!RefusalsAreHonest
  /\ which = "door" => Door!VerdictsAreHonest
=============================================================================
