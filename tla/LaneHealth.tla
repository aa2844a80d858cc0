----------------------------- MODULE LaneHealth -----------------------------
(***************************************************************************)
(* Whether a lane may be used: the verdicts on its credentials, which       *)
(* survive a restart and are tested again in the background (proxy.py), the *)
(* answer of its admission endpoint, and what the ingress makes of it in    *)
(* two reads, of the health body and then of admission (ingress.py).        *)
(***************************************************************************)
EXTENDS Integers, FiniteSetsExt

CONSTANTS
  Bearers,
  Bound,        \* bearers bound to a plan's meter (METER_BINDINGS)
  Windows,      \* unified windows; "all" is the one without a suffix
  Readings,     \* what the headers of an answer can say of the windows
  RetryAfters,  \* pauses that pushback arms, in seconds
  Pools,        \* snapshots of a limiter: [queue, cap, total, reserve, depth, admits]
  Reserve,      \* PRIORITY_RESERVE_SLOTS
  Streak,       \* CREDENTIAL_DEAD_STREAK
  RecheckEvery, \* CREDENTIAL_RECHECK_S
  MaxAge,       \* bound of the model: seconds a probe takes
  None,         \* no probe, no message
  MaxEvents     \* bound of the model: answers, faults and orders

VARIABLES
  seen,      \* keys of bearer_state, "_anon" and the API key left out
  reading,   \* unified, by window: rejected, spent (utilisation at 1.0), left to the reset
  paused,    \* seconds left of the Retry-After pause
  pool,      \* limiter snapshot
  live,      \* bearers whose bearer_state holds a quarantine
  streak,    \* credential_streak
  restored,  \* _restored_credentials
  disk,      \* CREDENTIAL_STATE_FILE
  unchecked, \* seconds since last_checked
  due,       \* bearers the recheck pass has left
  checking,  \* the synthetic message under way: its bearer and whether it will be served
  lane,      \* [egress, auth, closed, meter]: upstream's state, quiesce, room on the meter
  class,     \* credential mode of the lane, as the ingress classifies it
  probe,     \* health body the ingress holds while it reads admission, and its age
  entry,     \* the ingress's LaneState: [open, capacity, reset]
  good,      \* bearers the upstream would serve now
  events,
  refused,   \* ghost: bearers whose last verdict is a refusal
  unsaved,   \* ghost: those whose verdict could not be written
  quiet,     \* ghost: only time has passed since the "health" or the "admission" read
  lagging    \* ghost: bearers that were locked then by no lock that states its end

healthVars == <<seen, reading, paused, pool, live, streak, restored, disk, unchecked, due, checking,
                lane, class, probe, entry, good, events, refused, unsaved, quiet, lagging>>
credentialVars == <<live, streak, restored, disk, unchecked, refused, unsaved>>
recheckVars == <<due, checking>>
ingressVars == <<class, probe, entry, lagging>>
windowVars == <<seen, reading, paused, pool>>

NoWindow == [rejected |-> FALSE, spent |-> FALSE, left |-> 0]

HealthInit ==
  /\ seen \in {{}, Bearers} /\ reading = [b \in Bearers |-> [w \in Windows |-> NoWindow]]
  /\ paused = [b \in Bearers |-> 0]
  /\ \E p \in Pools : p.queue = "unknown" /\ pool = [b \in Bearers |-> p]
  /\ live = {} /\ streak = [b \in Bearers |-> 0] /\ restored = {} /\ disk = {}
  /\ unchecked = [b \in Bearers |-> 0] /\ due = {} /\ checking = None
  /\ lane = [egress |-> TRUE, auth |-> TRUE, closed |-> FALSE, meter |-> TRUE]
  /\ class \in {"subscription", "proxy-key"}
  /\ probe = None /\ entry = [open |-> FALSE, capacity |-> FALSE, reset |-> 0]
  /\ good = Bearers /\ events = 0
  /\ refused = {} /\ unsaved = {} /\ quiet = "no" /\ lagging = {}

-----------------------------------------------------------------------------
(* Who is usable. *)

\* _bearer_credential: the live verdict, else the restored one.
Dead(b) == b \in live \cup restored

\* unified_live_view: a window whose reset has passed is no window.
LiveWindows(b) == {w \in Windows : reading[b][w].left > 0}
Spent(b) == \E w \in LiveWindows(b) \ {"all"} : reading[b][w].spent
Rejected(b) == \E w \in LiveWindows(b) : reading[b][w].rejected

\* bearer_usable, of a bearer in a view without credentials (_admission_bearers).
WindowsAllow(b) == b \in seen /\ paused[b] = 0 /\ ~Rejected(b) /\ ~Spent(b)

\* _meter_binding_allows
MeterAllows(b) == b \in Bound => lane.meter

\* admission: what the lane would serve on.
Usable(b) == WindowsAllow(b) /\ ~Dead(b) /\ MeterAllows(b)
Serving == {b \in Bearers : Usable(b)}

\* A lane that owns its key needs no bearer.
OwnsKey == class = "proxy-key"
\* lane_usable: admission hands it bearers without their credential, health with it.
LaneOpen(alive) == lane.egress /\ lane.auth /\ \E b \in alive : WindowsAllow(b)
Allow == LaneOpen(Bearers) /\ Serving # {} /\ ~lane.closed
HealthOpen ==
  /\ ~lane.closed
  /\ \/ LaneOpen({b \in Bearers : ~Dead(b)})
     \/ OwnsKey /\ lane.egress /\ lane.auth /\ seen \cup restored = {}

\* _bearer_due_in: when each lock lapses that states it.
DueIn(b) ==
  {p \in {paused[b]} : p > 0}
    \cup {reading[b][w].left : w \in {v \in LiveWindows(b) \ {"all"} : reading[b][v].rejected}}
\* Variant: of the last bearer.
LatestDue == LET dues == UNION {DueIn(b) : b \in seen}
             IN  IF dues = {} THEN 0 ELSE Max(dues)
\* _soonest_bearer_due: of any bearer, 0 when nothing is on a timed lock.
SoonestDue == LET dues == UNION {DueIn(b) : b \in seen}
              IN  IF dues = {} THEN 0 ELSE Min(dues)

-----------------------------------------------------------------------------
(* Whether a new call would park (_lane_saturation). *)

\* limiter.normal_busy
NormalBusy(p) == p.total - Min({p.reserve, Reserve})
\* _pool_reading: a snapshot to be trusted.
Measured(p) == p.queue # "unknown" /\ (p.queue = "fair" => p.cap > 0 /\ p.reserve <= p.total)
Parks(p) == p.queue = "fair" /\ (NormalBusy(p) >= p.cap \/ p.depth > 0)

WouldPark == Serving # {} /\ \A b \in Serving : Measured(pool[b]) /\ Parks(pool[b])
\* _aggregate_drain: the estimate of any measured queue, or of a cold limiter.
AdmitsNewClient ==
  LET measured == {pool[b] : b \in {s \in Serving : Measured(pool[s])}} IN
  \/ \A p \in measured : p.queue # "fair"
  \/ \E p \in measured : p.queue = "off" \/ p.admits

-----------------------------------------------------------------------------
(* Verdicts on credentials. *)

Event == events < MaxEvents /\ events' = events + 1
Stir == quiet' = "no"
Met(b) == seen' = seen \cup {b}

\* _persist_credential_state: all quarantines in memory are written, or none.
Persist(b) ==
  \/ disk' = restored' /\ unsaved' = {}
  \/ UNCHANGED disk /\ unsaved' = unsaved \cup {b}

\* Variant: only the verdict of this process is cleared.
ClearLive(b) ==
  /\ live' = live \ {b} /\ streak' = [streak EXCEPT ![b] = 0]
  /\ refused' = refused \ {b} /\ UNCHANGED <<restored, disk, unsaved, unchecked>>
\* _clear_bearer_credential
Clear(b) ==
  /\ live' = live \ {b} /\ restored' = restored \ {b}
  /\ streak' = [streak EXCEPT ![b] = 0]
  /\ IF b \in restored THEN Persist(b) ELSE UNCHANGED <<disk, unsaved>>
  /\ refused' = refused \ {b} /\ UNCHANGED unchecked

\* Variant: a verdict is kept in memory only.
QuarantineUnwritten(b) ==
  /\ refused' = refused \cup {b} /\ UNCHANGED <<disk, unsaved>>
  /\ IF Dead(b) THEN UNCHANGED <<live, restored, unchecked>>
     ELSE /\ live' = live \cup {b} /\ restored' = restored \cup {b}
          /\ unchecked' = [unchecked EXCEPT ![b] = 0]
\* _quarantine_bearer
Quarantine(b) ==
  /\ refused' = refused \cup {b}
  /\ IF Dead(b) THEN UNCHANGED <<live, restored, disk, unsaved, unchecked>>
     ELSE /\ live' = live \cup {b} /\ restored' = restored \cup {b} /\ Persist(b)
          /\ unchecked' = [unchecked EXCEPT ![b] = 0]

\* _note_bearer_credential: a refusal says that the credential is dead, or counts.
Condemn(b) == Quarantine(b) /\ UNCHANGED streak
Suspect(b) ==
  /\ streak' = [streak EXCEPT ![b] = Min({Streak, @ + 1})]
  /\ IF streak[b] + 1 >= Streak THEN Quarantine(b)
     ELSE UNCHANGED <<live, restored, disk, unchecked, refused, unsaved>>

\* A call is answered: what its headers say of the windows, and its status of the credential.
Served(b) ==
  /\ Event /\ Stir /\ Met(b) /\ Clear(b)
  /\ \E r \in Readings : reading' = [reading EXCEPT ![b] = r]
  /\ UNCHANGED <<paused, pool, recheckVars, lane, ingressVars, good>>
Refused(b) ==
  /\ Event /\ Stir /\ Met(b) /\ (Condemn(b) \/ Suspect(b))
  /\ UNCHANGED <<reading, paused, pool, recheckVars, lane, ingressVars, good>>
PushedBack(b) ==
  /\ Event /\ Stir /\ Met(b)
  /\ \E r \in Readings, s \in RetryAfters :
       /\ reading' = [reading EXCEPT ![b] = r] /\ paused' = [paused EXCEPT ![b] = Max({@, s})]
  /\ UNCHANGED <<pool, credentialVars, recheckVars, lane, ingressVars, good>>

\* load_credential_state, in a process that starts.
Restart ==
  /\ Event /\ Stir
  /\ live' = {} /\ streak' = [b \in Bearers |-> 0] /\ restored' = disk
  /\ refused' = refused \ unsaved /\ unsaved' = {}
  /\ \E old \in {0, RecheckEvery} : unchecked' = [b \in Bearers |-> old]
  /\ seen' = {} /\ reading' = [b \in Bearers |-> [w \in Windows |-> NoWindow]]
  /\ due' = {} /\ checking' = None /\ lane' = [lane EXCEPT !.closed = FALSE]
  /\ UNCHANGED <<disk, paused, pool, ingressVars, good>>

-----------------------------------------------------------------------------
(* The recheck of quarantined accounts (_credential_recheck_once). *)

RecheckPass ==
  /\ due = {} /\ checking = None
  /\ due' = {b \in Bearers : Dead(b) /\ unchecked[b] >= RecheckEvery} /\ due' # {}
  /\ UNCHANGED <<windowVars, credentialVars, checking, lane, ingressVars, good, events, quiet>>

\* No quota is spent on an account whose meter has no room.
RecheckSend ==
  /\ checking = None
  /\ \E b \in due :
       /\ due' = due \ {b}
       /\ IF MeterAllows(b) THEN checking' = [of |-> b, ok |-> b \in good] /\ UNCHANGED unchecked
          ELSE unchecked' = [unchecked EXCEPT ![b] = 0] /\ UNCHANGED checking
  /\ UNCHANGED <<windowVars, live, streak, restored, disk, refused, unsaved, lane, ingressVars,
                 good, events, quiet>>

RecheckAnswer ==
  /\ checking # None /\ checking' = None
  /\ IF checking.ok THEN Stir /\ Met(checking.of) /\ Clear(checking.of)
     ELSE /\ unchecked' = [unchecked EXCEPT ![checking.of] = 0]
          /\ UNCHANGED <<seen, live, streak, restored, disk, refused, unsaved, quiet>>
  /\ UNCHANGED <<reading, paused, pool, due, lane, ingressVars, good, events>>

\* A transport error proves nothing.
RecheckFails ==
  /\ checking # None /\ checking' = None /\ Event
  /\ unchecked' = [unchecked EXCEPT ![checking.of] = 0]
  /\ UNCHANGED <<windowVars, live, streak, restored, disk, refused, unsaved, due, lane, ingressVars,
                 good, quiet>>

-----------------------------------------------------------------------------
(* The ingress reads the lane (_probe_lane_health). *)

Closed == [open |-> FALSE, capacity |-> FALSE, reset |-> 0]
Lagging == {b \in seen : ~WindowsAllow(b) /\ DueIn(b) = {}}

\* _read_lane_health; of a lane without admission, _fresh_lane_state at once.
ReadHealth ==
  /\ probe = None /\ quiet' = "health" /\ lagging' = Lagging
  /\ IF class = "subscription"
     THEN probe' = [open |-> HealthOpen, sound |-> lane.egress /\ lane.auth, age |-> 0]
          /\ UNCHANGED entry
     ELSE entry' = [open |-> HealthOpen, capacity |-> FALSE,
                    reset |-> IF lane.egress /\ lane.auth /\ ~lane.closed /\ ~HealthOpen
                              THEN SoonestDue ELSE 0]
          /\ UNCHANGED probe
  /\ UNCHANGED <<windowVars, credentialVars, recheckVars, lane, class, good, events>>

HealthFails ==
  /\ probe = None /\ Event /\ Stir /\ entry' = Closed
  /\ UNCHANGED <<windowVars, credentialVars, recheckVars, lane, class, probe, good, lagging>>

\* _fresh_lane_state: capacity is the lane's own verdict, and its hint counts from the
\* moment the probe began.
ReadAdmission ==
  /\ probe # None /\ probe' = None /\ lagging' = Lagging
  /\ quiet' = IF quiet = "health" THEN "health" ELSE "admission"
  /\ entry' = [open |-> probe.open \/ (Allow /\ probe.sound), capacity |-> Allow,
               reset |-> IF Allow THEN 0 ELSE Max({0, SoonestDue - probe.age})]
  /\ UNCHANGED <<windowVars, credentialVars, recheckVars, lane, class, good, events>>

AdmissionFails ==
  /\ probe # None /\ probe' = None /\ Event /\ Stir
  /\ entry' = [open |-> probe.open, capacity |-> FALSE, reset |-> 0]
  /\ UNCHANGED <<windowVars, credentialVars, recheckVars, lane, class, good, lagging>>

-----------------------------------------------------------------------------
(* Around it. *)

\* Upstream, the operator and the load.
Change ==
  /\ Event /\ Stir
  /\ \/ /\ \E f \in DOMAIN lane : lane' = [lane EXCEPT ![f] = ~@]
        /\ UNCHANGED <<pool, good>>
     \/ /\ \E b \in Bearers : good' = IF b \in good THEN good \ {b} ELSE good \cup {b}
        /\ UNCHANGED <<pool, lane>>
     \/ /\ \E b \in Bearers, p \in Pools : p # pool[b] /\ pool' = [pool EXCEPT ![b] = p]
        /\ UNCHANGED <<lane, good>>
  /\ UNCHANGED <<seen, reading, paused, credentialVars, recheckVars, ingressVars>>

Less(n) == IF n > 0 THEN n - 1 ELSE 0
Tick ==
  /\ reading' = [b \in Bearers |-> [w \in Windows |->
                   IF reading[b][w].left <= 1 THEN NoWindow
                   ELSE [reading[b][w] EXCEPT !.left = @ - 1]]]
  /\ paused' = [b \in Bearers |-> Less(paused[b])]
  /\ unchecked' = [b \in Bearers |-> Min({RecheckEvery, unchecked[b] + 1})]
  /\ entry' = [entry EXCEPT !.reset = Less(@)]
  /\ probe' = IF probe = None THEN None ELSE [probe EXCEPT !.age = Min({MaxAge, @ + 1})]
  /\ UNCHANGED <<seen, pool, live, streak, restored, disk, refused, unsaved, recheckVars, lane, class,
                 good, events, quiet, lagging>>

HealthNext ==
  \/ \E b \in Bearers : Served(b) \/ Refused(b) \/ PushedBack(b)
  \/ Restart \/ RecheckPass \/ RecheckSend \/ RecheckAnswer \/ RecheckFails
  \/ ReadHealth \/ HealthFails \/ ReadAdmission \/ AdmissionFails \/ Change \/ Tick

HealthFairness ==
  /\ WF_healthVars(RecheckPass) /\ WF_healthVars(RecheckSend) /\ WF_healthVars(RecheckAnswer)
  /\ WF_healthVars(Tick)

HealthSpec == HealthInit /\ [][HealthNext]_healthVars /\ HealthFairness

-----------------------------------------------------------------------------
(* What it promises. *)

\* A credential that was refused last is quarantined, through restarts, unless the
\* verdict could not be written (_quarantine_bearer, load_credential_state).
RefusalsStick == \A b \in refused : Dead(b)

\* What the ingress takes for a reset is not after the moment a bearer serves again, if
\* only time passes; a window spent under a status that lags states no reset
\* (_soonest_bearer_due, _fresh_lane_state).
HintIsNotLate ==
  quiet # "no" /\ probe = None /\ entry.reset > 0 =>
    ~(Allow /\ \E b \in Serving : b \notin lagging)

\* A lane the ingress may select on subscriptions alone serves, unless something more
\* than time has happened since it said so; one that is merely open has an open window.
SelectableServes ==
  probe = None /\ entry.open =>
    /\ quiet = "health" => HealthOpen
    /\ quiet # "no" /\ entry.capacity => Serving # {} /\ lane.egress /\ ~lane.closed

\* Nobody is told that a call would park while a bearer that serves has a free slot, or
\* has not said, or that a new client is turned away while one never queues
\* (_lane_saturation, _aggregate_drain).
ParkingIsCertain ==
  /\ WouldPark => \A b \in Serving : pool[b].queue = "fair"
  /\ ~AdmitsNewClient => \A b \in Serving : pool[b].queue # "off"

VerdictsAreHonest == RefusalsStick /\ HintIsNotLate /\ SelectableServes /\ ParkingIsCertain

\* A credential the upstream accepts for good does not stay in quarantine without a
\* restart, its meter permitting (_credential_recheck_once).
CredentialsComeBack ==
  \A b \in Bearers : <>[](b \in good /\ MeterAllows(b)) => []<>~Dead(b)
=============================================================================
