--------------------------- MODULE LaneFeedback ---------------------------
(***************************************************************************)
(* How the answers of the upstream move one bearer's live cap: the reading *)
(* of its quota windows that an answer carries (_apply_unified), the       *)
(* classification of a pushback by that reading or by the cached one       *)
(* (_pushback_evidence), and the shrink, the pause and the ramp of its     *)
(* limiter.  The probe a long pause arms is in ProbeGate.                  *)
(***************************************************************************)
EXTENDS Integers, Sequences, FiniteSetsExt

CONSTANTS
  AimdMin,      \* AIMD_MIN
  Initial,      \* AIMD_INITIAL_CONCURRENT
  Ceilings,     \* values the operator gives THROTTLE_MAX
  LiveFloors,   \* values the operator gives the warm-start cap
  DecreasePct,  \* AIMD_DECREASE, in percent
  Backoff,      \* AIMD_BACKOFF_S
  Cooldown,     \* CONCURRENCY_COOLDOWN_S
  MaxHold,      \* MAX_HOLD_RETRY_AFTER_S
  RejectCap,    \* RETRY_AFTER_REJECT_CAP_S
  Fresh,        \* UNIFIED_CACHE_FRESH_S
  Slow, Fast,   \* AIMD_RAMP_AFTER, AIMD_RAMP_AFTER_FAST
  Storm,        \* AIMD_STORM_THRESHOLD
  Claims,       \* windows the upstream names as representative
  RetryAfters,  \* Retry-After values, 0 for none
  MaxWindows,   \* bound of the model: reset windows
  MaxEvents     \* bound of the model: pushbacks, rejections and retunes

VARIABLES
  lane,         \* [cap, hard, successes, age, recent, pause, cache, cacheAge, glided]
  window,       \* the current reset window
  events

feedbackVars == <<lane, window, events>>

NoReading == [status |-> "none", hot |-> FALSE, reset |-> <<>>]
\* The windows as an answer reports them; "hot" is at or over the warn line and the target.
Readings ==
  {NoReading} \cup
    [status : {"allowed", "rejected"}, hot : BOOLEAN, reset : Claims \X {window}]

\* Age of a lane that was never throttled: time.time() - 0.0.
Never == 2 * Backoff + 1
LaneOf(hard) ==
  [hard |-> hard, cap |-> Min({hard, Max({AimdMin, Initial})}), successes |-> 0, age |-> Never,
   recent |-> <<>>, pause |-> 0, cache |-> NoReading, cacheAge |-> 0, glided |-> <<>>]

FeedbackInit == (\E hard \in Ceilings : lane = LaneOf(hard)) /\ window = 1 /\ events = 0

(***************************************************************************)
(* The limiter.                                                            *)
(***************************************************************************)
\* Variant: the floor ignores a hard ceiling tuned below it.
FloorUnclamped(l) == AimdMin
AimdFloor(l) == Min({l.hard, AimdMin})

Shrink(l) ==
  [l EXCEPT !.cap = Max({AimdFloor(l), Min({(l.cap * DecreasePct) \div 100, l.cap - 1})}),
            !.age = 0, !.successes = 0, !.recent = Append(@, 0)]

NoteRetryAfter(l, seconds) ==
  IF seconds = 0 THEN l ELSE [l EXCEPT !.pause = Max({@, seconds}), !.age = 0]

EffectiveRampAfter(l) == IF Len(l.recent) \in 1..Storm - 1 THEN Min({Fast, Slow}) ELSE Slow

\* A lane that was throttled down to its floor and left there in peace.
RestedAtFloor(l) == l.age = 2 * Backoff /\ l.cap <= AimdFloor(l)

MayGrow(l) ==
  /\ l.age >= Backoff /\ l.pause = 0 /\ l.cap < l.hard
  /\ l.successes >= IF RestedAtFloor(l) THEN 1 ELSE EffectiveRampAfter(l)

Grow(l) ==
  LET earned == [l EXCEPT !.successes = Min({@ + 1, Max({Slow, Fast})})]
  IN IF MayGrow(earned) THEN [earned EXCEPT !.cap = @ + 1, !.successes = 0] ELSE earned

(***************************************************************************)
(* The windows.                                                            *)
(***************************************************************************)
\* Variant: ahead of the wall with every answer.
GlideEachTime(l, reading) == IF reading.hot THEN Shrink(l) ELSE l
\* Shrink ahead of the wall, once per window.
Glide(l, reading) ==
  IF ~reading.hot \/ l.glided = reading.reset THEN l
  ELSE [Shrink(l) EXCEPT !.glided = reading.reset]

\* A rejected window pauses the lane until its reset, at most RejectCap away.
ApplyUnified(l, reading, untilReset) ==
  IF reading = NoReading THEN l
  ELSE LET read == [l EXCEPT !.cache = reading, !.cacheAge = 0]
       IN IF reading.status = "rejected" THEN NoteRetryAfter(read, Min({untilReset, RejectCap}))
          ELSE Glide(read, reading)

\* The answer's own reading, else the cached one while it is fresh.
UnifiedForClassification(l, reading) ==
  IF reading # NoReading THEN reading
  ELSE IF l.cacheAge <= Fresh THEN l.cache ELSE NoReading

\* "meter" is what the plan meter and the declared budgets say when no window was read;
\* a budget they report is acted on like the unknown.
Evidence(l, reading, retryAfter, meter) ==
  LET unified == UnifiedForClassification(l, reading)
  IN IF retryAfter > 0 THEN "retry-after"
     ELSE IF unified = NoReading THEN meter
     ELSE IF unified.status = "rejected" \/ unified.hot THEN "budget"
     ELSE "concurrency"

PushbackPause(evidence, retryAfter) ==
  IF evidence = "retry-after" THEN retryAfter
  ELSE Min({MaxHold, IF evidence = "concurrency" THEN Cooldown ELSE Backoff})

(***************************************************************************)
(* Answers.                                                                *)
(***************************************************************************)
Served ==
  \E reading \in Readings, untilReset \in 0..RejectCap :
    /\ reading.status = "rejected" => events < MaxEvents
    /\ reading.status # "rejected" => untilReset = 0
    /\ lane' = Grow(ApplyUnified(lane, reading, untilReset))
    /\ events' = IF reading.status = "rejected" THEN events + 1 ELSE events
    /\ UNCHANGED window

\* 429 and 503 shrink unless the windows are known to be fine; 529 and a plan's own quota
\* gate only pause; a relayed queue refusal or an entitlement refusal does neither.
Refused(reaction) ==
  \E reading \in Readings, retryAfter \in RetryAfters, untilReset \in 0..RejectCap,
     meter \in {"unknown", "concurrency"} :
    LET read == ApplyUnified(lane, reading, untilReset)
        evidence == Evidence(read, reading, retryAfter, meter)
        paused == NoteRetryAfter(read, PushbackPause(evidence, retryAfter))
    IN /\ events < MaxEvents
       /\ events' = events + 1
       /\ reading.status # "rejected" => untilReset = 0
       /\ reading # NoReading \/ reaction = "ignore" => meter = "unknown"
       /\ reaction = "ignore" => retryAfter = 0
       /\ lane' = CASE reaction = "ignore" -> read
                    [] reaction = "pause" -> paused
                    [] reaction = "shrink" -> IF evidence = "concurrency" THEN paused ELSE Shrink(paused)
       /\ UNCHANGED window

Pushback == Refused("shrink")
Overload == Refused("pause")
NotOurs == Refused("ignore")

\* The operator tunes the hard ceiling, or the warm-start cap.
Retune ==
  \E hard \in Ceilings, liveFloor \in {0} \cup LiveFloors :
    /\ events < MaxEvents /\ events' = events + 1
    /\ hard # lane.hard \/ liveFloor # 0
    /\ LET clamped == IF hard < lane.hard THEN Min({lane.cap, hard}) ELSE lane.cap
           warm == IF liveFloor = 0 THEN 0 ELSE Min({hard, Max({AimdMin, liveFloor})})
       IN lane' = [lane EXCEPT !.hard = hard, !.cap = Max({clamped, warm})]
    /\ UNCHANGED window

(***************************************************************************)
(* Time.                                                                   *)
(***************************************************************************)
Tick ==
  LET older == SelectSeq([i \in DOMAIN lane.recent |-> lane.recent[i] + 1], LAMBDA a : a < 2 * Backoff)
  IN /\ lane' = [lane EXCEPT !.age = IF @ = Never THEN @ ELSE Min({@ + 1, 2 * Backoff}),
                             !.recent = older, !.pause = Max({0, @ - 1}),
                             !.cacheAge = Min({@ + 1, Fresh + 1})]
     /\ UNCHANGED <<window, events>>

\* A window ends and its successor begins.
Roll == window < MaxWindows /\ window' = window + 1 /\ UNCHANGED <<lane, events>>

FeedbackNext == Served \/ Pushback \/ Overload \/ NotOurs \/ Retune \/ Tick \/ Roll

(***************************************************************************)
(* What must hold.                                                         *)
(***************************************************************************)
\* The floor is a resting place and no dead end: once pushback stops, a lane that is still
\* served works its cap all the way back to the hard ceiling and stays there, whatever
\* storms, pauses, glides and retunes went before, and although its windows stay hot.
CeilingComesBack == <>[](lane.cap = lane.hard)

\* An answer that throttles never leaves the lane wider than it found it, also when the
\* hard ceiling was tuned below the floor, as long as the lane has not been left below its
\* floor; and no step leaves it wider than the hard ceiling.
PushbackNarrows ==
  [][/\ lane'.cap \in 1..lane'.hard
     /\ lane.age # 0 /\ lane'.age = 0 /\ lane.cap >= Min({lane.hard, AimdMin})
          => lane'.cap <= lane.cap]_feedbackVars
=============================================================================
