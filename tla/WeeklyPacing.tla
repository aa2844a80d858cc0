--------------------------- MODULE WeeklyPacing ---------------------------
(***************************************************************************)
(* Pacing of the week under the line law (usage_allocator.py and its use   *)
(* in proxy.py, both modes enforced): what the proxy last read of each     *)
(* account's seven days decides where a call may go, and whether it is     *)
(* told to come back; the tokens it has measured decide whether a project  *)
(* has had its share.  Time is in hours, as the token buckets are.         *)
(***************************************************************************)
EXTENDS Integers, FiniteSetsExt

CONSTANTS
  Accounts,
  Projects,       \* projects that call; the unnamed ones are Direct
  Direct,
  Share,          \* CLIENT_SHARES, in tenths, of the configured projects
  Week,           \* WEEK_S and TOKEN_WINDOW_HOURS
  Full,           \* utilisation of a spent window
  Burst,          \* WEEKLY_BURST, out of Full
  RetryCap,       \* QUEUE_RETRY_AFTER_MAX_S
  MaxProjects,    \* MAX_PROJECTS
  Overflow,       \* the bucket of the projects beyond it
  MaxCalls,       \* bound of the model: calls served
  MaxHour         \* bound of the model: hours

Names == Projects \cup {Overflow}
Configured == DOMAIN Share

VARIABLES
  reading,     \* unified util_7d and hours left to reset_7d; left is 0 when past or unknown
  hour,
  buckets,     \* WeeklyTokens: per name, tokens of each hour
  known,       \* names that have buckets
  lastSeen,    \* hour of a name's last tokens
  answer,      \* of the last call: [to, retry, project]
  spent        \* ghost: calls measured, per project and hour

paceVars == <<reading, hour, buckets, known, lastSeen, answer, spent>>

Hours == 0..MaxHour
Nothing == [to |-> "none", retry |-> 0, project |-> Direct]

PaceInit ==
  /\ reading = [a \in Accounts |-> [util |-> 0, left |-> 0]]
  /\ hour = 0 /\ buckets = [n \in Names |-> [h \in Hours |-> 0]]
  /\ known = {} /\ lastSeen = [n \in Names |-> 0]
  /\ answer = Nothing /\ spent = [p \in Projects |-> [h \in Hours |-> 0]]

(***************************************************************************)
(* The pace.                                                               *)
(***************************************************************************)
\* account_state: above the line that climbs from Burst to Full as the week passes.
AheadOn(a, left) ==
  left > 0 /\ reading[a].util * Week > (Week - left) * Full + left * Burst
Ahead == {a \in Accounts : AheadOn(a, reading[a].left)}
Known == {a \in Accounts : reading[a].left > 0}

\* decide_pacing: accounts ahead of schedule are for when all are.
Routable == IF Ahead = Accounts THEN Accounts ELSE Accounts \ Ahead
PacingDefers(priority) == Ahead = Accounts /\ ~priority

\* Variant: the wait is cut to whole hours.
CatchupTruncated(a) ==
  LET at == Min({Week, (Week * (Full - reading[a].util)) \div (Full - Burst) + 1})
  IN Max({1, reading[a].left - at})
\* Hours until the line reaches the reading, rounded up; the reset at the latest.
CatchupWait(a) ==
  LET at == Max({0, Min({Week, (Week * (Full - reading[a].util)) \div (Full - Burst)})})
  IN Max({1, reading[a].left - at})
\* catchup_retry: the soonest of them.
CatchupRetry == Min({RetryCap} \cup {CatchupWait(a) : a \in Ahead})

(***************************************************************************)
(* The shares.                                                             *)
(***************************************************************************)
NameOf(p) == IF p \in known \/ Cardinality(known) < MaxProjects THEN p ELSE Overflow

\* WeeklyTokens.add: it prunes only the bucket it adds to.
Add(p) ==
  LET name == NameOf(p)
  IN /\ buckets' = [buckets EXCEPT ![name] =
           [h \in Hours |-> IF h = hour THEN @[h] + 1 ELSE IF h <= hour - Week THEN 0 ELSE @[h]]]
     /\ known' = known \cup {name}
     /\ lastSeen' = [lastSeen EXCEPT ![name] = hour]
     /\ spent' = [spent EXCEPT ![p][hour] = @ + 1]

Total(n) == MapThenSumSet(LAMBDA h : buckets[n][h], {h \in Hours : h > hour - Week})
AllTokens == MapThenSumSet(Total, known)

\* publish: the known accounts have used more of their weeks than has passed.
FleetAhead ==
  LET used == MapThenSumSet(LAMBDA a : reading[a].util, Known)
      elapsed == MapThenSumSet(LAMBDA a : Week - reading[a].left, Known)
  IN elapsed > 0 /\ used * Week > elapsed * Full

\* Somebody else with a share has spent in the last half hour.
Contended(p) == \E q \in (known \cap Configured) \ {p} : lastSeen[q] = hour

ShareDefers(p, priority) ==
  /\ ~priority /\ p \in Configured
  /\ Total(p) * 10 > Share[p] * AllTokens
  /\ FleetAhead /\ Contended(p)

(***************************************************************************)
(* Calls and time.                                                         *)
(***************************************************************************)
\* What the answer to a call on a says of its week: nothing new, the same window further
\* spent, or a new window.
Next7d(a) ==
  IF reading[a].left > 0
  THEN {[util |-> u, left |-> reading[a].left] : u \in reading[a].util..Full}
  ELSE {reading[a]} \cup [util : 0..Full, left : 1..Week]

Spent(p, hours) == MapThenSumSet(LAMBDA h : spent[p][h], hours)

Deferred(p, priority) ==
  /\ PacingDefers(priority) \/ ShareDefers(p, priority)
  /\ answer' = [to |-> IF PacingDefers(priority) THEN "pace" ELSE "share",
                retry |-> CatchupRetry, project |-> p]
  /\ UNCHANGED <<reading, hour, buckets, known, lastSeen, spent>>

Served(p, priority) ==
  /\ ~PacingDefers(priority) /\ ~ShareDefers(p, priority)
  /\ MapThenSumSet(LAMBDA q : Spent(q, Hours), Projects) < MaxCalls
  /\ \E a \in Routable : \E r \in Next7d(a) : reading' = [reading EXCEPT ![a] = r]
  /\ Add(p) \/ UNCHANGED <<buckets, known, lastSeen, spent>>
  /\ answer' = Nothing
  /\ UNCHANGED hour

Call == \E p \in Projects, priority \in BOOLEAN : Deferred(p, priority) \/ Served(p, priority)

Hour ==
  /\ hour < MaxHour
  /\ hour' = hour + 1
  /\ reading' = [a \in Accounts |-> [reading[a] EXCEPT !.left = Max({0, @ - 1})]]
  /\ answer' = Nothing
  /\ UNCHANGED <<buckets, known, lastSeen, spent>>

PaceNext == Call \/ Hour

(***************************************************************************)
(* What must hold.                                                         *)
(***************************************************************************)
\* The Retry-After of a lane that is ahead on every account is honest: a caller that waits
\* that long, while nobody spends, finds an account to go to, unless the cap cut the wait
\* short; and before that there is none.
RetryAfterIsHonest ==
  Ahead = Accounts =>
    /\ CatchupRetry < RetryCap => \E a \in Accounts : ~AheadOn(a, reading[a].left - CatchupRetry)
    /\ \A t \in 0..CatchupRetry - 1 : \A a \in Accounts : AheadOn(a, reading[a].left - t)

\* A project is told that it has had its share only when the calls served in the last week
\* say so, whatever was pruned, aged or put under the overflow name since; and only while
\* another project that has a share has used it within the hour.
ShareRefusalIsDue ==
  LET lastWeek == {h \in Hours : h > hour - Week}
      all == MapThenSumSet(LAMBDA p : Spent(p, lastWeek), Projects)
  IN answer.to = "share" =>
       /\ Spent(answer.project, lastWeek) * 10 > Share[answer.project] * all
       /\ \E p \in Configured \ {answer.project} : spent[p][hour] > 0

RefusalsAreHonest == RetryAfterIsHonest /\ ShareRefusalIsDue
=============================================================================
