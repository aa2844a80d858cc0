------------------------------ MODULE Watchdog ------------------------------
(***************************************************************************)
(* The watchdog of the free gates (free_gate_watchdog.py): the ceiling and *)
(* the shrink counters each gate has for a bearer, the scrapes a watchdog  *)
(* keeps of them - polled live, gate after gate, or rebuilt from the       *)
(* journal of one gate, a scrape per event - and the rules that turn the   *)
(* scrapes into alerts when the run is over.                               *)
(* The series of one bearer are modelled; the rules treat bearers apart,   *)
(* and the gates that serve a bearer alike.  A ceiling is Floor or above   *)
(* it; 0 stands for a series not there.                                    *)
(***************************************************************************)
EXTENDS Integers, Sequences, FiniteSetsExt, SequencesExt

CONSTANTS
  Gates,       \* how many gates serve the bearer: the choices
  Statuses,    \* status labels of the shrink counter, as their sort order
  Util,        \* the one of a glide; the others are answers that pushed back
  Floor,       \* the AIMD floor
  Start,       \* ceiling a bearer starts with
  PinDwell,    \* pin_dwell_s
  Threshold,   \* pushback_count
  Window,      \* pushback_window_s
  Cooldown,    \* pushback_cooldown_s
  MaxScrapes,  \* bound of the model, per number of gates: attempts to scrape, or journal events
  MaxShrinks,  \* bound of the model, per number of gates: shrinks
  MaxGap       \* bound of the model: time between two journal events

VARIABLES
  live,      \* scrapes are polled, not rebuilt from the journal
  gates,     \* how many gates are polled
  turn,      \* the gate poll scrapes next
  clock,
  ceiling,   \* M_AIMD_MAX: each gate's when live, else the reconstructor's
  shrinks,   \* M_AIMD_SHRINKS per gate and status
  lastLabel, \* the label each gate's counter got last
  shrunk,    \* ghost: shrinks that really happened
  scrapes,   \* the landed scrapes
  attempts   \* attempts of poll, or events fed

watchVars == <<live, gates, turn, clock, ceiling, shrinks, lastLabel, shrunk, scrapes, attempts>>

Nothing == [s \in Statuses |-> 0]

WatchInit ==
  /\ live \in BOOLEAN
  /\ gates \in Gates /\ (~live => gates = 1) /\ turn = 1
  /\ clock = 0 /\ ceiling = [g \in 1..gates |-> Start]
  /\ shrinks = [g \in 1..gates |-> Nothing] /\ lastLabel = [g \in 1..gates |-> Util]
  /\ shrunk = 0 /\ scrapes = <<>> /\ attempts = 0

(***************************************************************************)
(* The gate, its journal and the scrapes.                                  *)
(***************************************************************************)
\* Scrape.bearers keeps one sample of a bearer, the last: live of the labels as they came,
\* in a replay of the labels as they sort.
Visible(counters, latest) ==
  LET there == {s \in Statuses : counters[s] > 0}
  IN IF there = {} THEN 0 ELSE IF live THEN counters[latest] ELSE counters[Max(there)]

\* A scrape of the series; "shrunk" is a ghost.
ScrapeOf(at, max, seenNow, truth) == [ts |-> at, ceiling |-> max, shrinks |-> seenNow, shrunk |-> truth]

\* What happens to a gate: live it only moves the series, in a replay the line that
\* reports it is fed to the reconstructor, which emits a scrape.
Report(g, max, counters, latest, truth) ==
  /\ attempts < MaxScrapes[gates]
  /\ ceiling' = [ceiling EXCEPT ![g] = max] /\ shrinks' = [shrinks EXCEPT ![g] = counters]
  /\ lastLabel' = [lastLabel EXCEPT ![g] = latest] /\ shrunk' = truth
  /\ IF live THEN UNCHANGED <<clock, scrapes, attempts>>
     ELSE \E gap \in 0..MaxGap :
            /\ clock' = clock + gap
            /\ scrapes' = Append(scrapes, ScrapeOf(clock', max, Visible(counters, latest), truth))
            /\ attempts' = attempts + 1
  /\ UNCHANGED <<live, gates, turn>>

\* The labels a shrink is counted under: in a replay the line of a glide has no recorder.
Counted == IF live THEN Statuses ELSE Statuses \ {Util}

RecordShrink ==
  \E g \in 1..gates, status \in Counted :
    /\ ceiling[g] # 0
    /\ shrunk < MaxShrinks[gates]
    /\ Report(g, Max({Floor, ceiling[g] - 1}), [shrinks[g] EXCEPT ![status] = @ + 1],
              IF shrinks[g][status] = 0 THEN status ELSE lastLabel[g], shrunk + 1)

RecordCeiling ==
  \E g \in 1..gates, max \in {Floor, Start} :
    max # ceiling[g] /\ Report(g, max, shrinks[g], lastLabel[g], shrunk)

\* A line about something else is a scrape as well.
RecordDone == ~live /\ Report(1, ceiling[1], shrinks[1], lastLabel[1], shrunk)

\* The counters of a new process start at nothing; live its ceilings are gone too, the
\* reconstructor keeps the last it read.
RecordRestart ==
  \E g \in 1..gates :
    /\ shrinks[g] # Nothing
    /\ Report(g, IF live THEN 0 ELSE ceiling[g], Nothing, lastLabel[g], shrunk)

\* One live attempt at the gate whose turn it is, an interval after the round before: it
\* lands among the scrapes of all gates, or it only counts as a failure.
Poll ==
  /\ live
  /\ attempts < MaxScrapes[gates]
  /\ clock' = IF turn = 1 THEN clock + 1 ELSE clock
  /\ \E landed \in BOOLEAN :
       scrapes' = IF landed THEN Append(scrapes, ScrapeOf(clock', ceiling[turn],
                                           Visible(shrinks[turn], lastLabel[turn]), shrunk))
                  ELSE scrapes
  /\ turn' = IF turn = gates THEN 1 ELSE turn + 1
  /\ attempts' = attempts + 1
  /\ UNCHANGED <<live, gates, ceiling, shrinks, lastLabel, shrunk>>

WatchNext == RecordShrink \/ RecordCeiling \/ RecordDone \/ RecordRestart \/ Poll

(***************************************************************************)
(* The rules.                                                              *)
(***************************************************************************)
\* Indices of the scrapes the bearer's counter is in, and of those where it rose.
Seen == {i \in DOMAIN scrapes : scrapes[i].shrinks > 0}
Before(i) == Max({j \in Seen : j < i})
\* Variant: a counter that stands still has risen.
RisesOrRests == {i \in Seen : Min(Seen) < i /\ scrapes[i].shrinks >= scrapes[Before(i)].shrinks}
Rises == {i \in Seen : Min(Seen) < i /\ scrapes[i].shrinks > scrapes[Before(i)].shrinks}

\* _window_counts: the rises inside the window that ends with scrape i.
InWindow(i) == {j \in Rises : j <= i /\ scrapes[j].ts >= scrapes[i].ts - Window}

\* _rule_rate: the scrapes that fire, each outside the cooldown of the one before.
RateAlerts ==
  LET fold(fired, i) ==
        IF /\ i \in Seen /\ Cardinality(InWindow(i)) >= Threshold
           /\ fired # {} => scrapes[i].ts - scrapes[Max(fired)].ts >= Cooldown
        THEN fired \cup {i} ELSE fired
  IN FoldLeft(fold, {}, [i \in 1..Len(scrapes) |-> i])

AtFloor(i) == scrapes[i].ceiling \in 1..Floor
Above(i) == scrapes[i].ceiling > Floor

\* _collect_pin_runs: contiguous runs at the floor, as [started, ended] in scrape times.
PinRuns ==
  LET step(acc, i) ==
        IF AtFloor(i) /\ acc.open = 0 THEN [acc EXCEPT !.open = i]
        ELSE IF Above(i) /\ acc.open # 0
        THEN [open |-> 0, closed |-> acc.closed \cup {<<scrapes[acc.open].ts, scrapes[i].ts>>}]
        ELSE acc
      end == FoldLeft(step, [open |-> 0, closed |-> {}], [i \in 1..Len(scrapes) |-> i])
  IN IF end.open = 0 THEN end.closed
     ELSE end.closed \cup {<<scrapes[end.open].ts, Last(scrapes).ts>>}

\* Variant: a run that lasts just the dwell is let pass.
PinAlertsStrict == {run[1] + PinDwell : run \in {r \in PinRuns : r[2] - r[1] > PinDwell}}
\* _classify_pin_run: the instants at which a run crossed the dwell.
PinAlerts == {run[1] + PinDwell : run \in {r \in PinRuns : r[2] - r[1] >= PinDwell}}

(***************************************************************************)
(* What must hold.                                                         *)
(***************************************************************************)
\* A pushback alert for a bearer of one gate stands for at least Threshold shrinks of its
\* cap - answers that pushed back, and glides where a target is set - that happened between
\* the scrape before the window's first rise and the alert, whatever restarts, failed
\* scrapes and status labels did to the counter; two alerts are a cooldown apart.
\* (Of a bearer of two gates the rule compares one gate's counter with the other's.)
StormsAreReal ==
  \A i \in RateAlerts :
    /\ gates = 1 => scrapes[i].shrunk - scrapes[Before(Min(InWindow(i)))].shrunk >= Threshold
    /\ \A j \in RateAlerts : i < j => scrapes[j].ts - scrapes[i].ts >= Cooldown

\* A pin alert stands for a run of scrapes, of whichever gate, that begins at the floor,
\* never shows the bearer above it before the dwell is over, and ends no earlier; and every
\* such run is alerted.
PinsAreSustained ==
  PinAlerts =
    {scrapes[i].ts + PinDwell : i \in
       {i \in DOMAIN scrapes :
          /\ AtFloor(i)
          /\ \A j \in 1..i - 1 : AtFloor(j) => \E k \in j..i : Above(k)
          /\ Last(scrapes).ts - scrapes[i].ts >= PinDwell
          /\ \A j \in i..Len(scrapes) : scrapes[j].ts < scrapes[i].ts + PinDwell => ~Above(j)}}

AlertsAreTrue == StormsAreReal /\ PinsAreSustained
=============================================================================
