-------------------------- MODULE ForwardingProofs --------------------------
(***************************************************************************)
(* Proofs about Forwarding, for any calls, retries, thresholds and budget. *)
(***************************************************************************)
EXTENDS Forwarding, TLAPS

Stages == {"loop", "fallback", "hold"}
Sends == [try : Nat, late : Nat]

\* The layer a call is in is told by where it is, but for the two places all layers share.
StageOK(r) ==
  /\ pc[r] \in {"hold", "resting"} => stage[r] = "hold"
  /\ pc[r] = "fallback" => stage[r] = "fallback"
  /\ pc[r] \in {"queued", "idle"} \cup Over => stage[r] = "loop"

\* Nothing is written on the connection before the step that ends the call.
AnswerOK(r) ==
  r \notin torn =>
    answers[r] = IF pc[r] = "done" THEN 1 ELSE 0

\* The hold reacts for itself exactly while the call is in it.
OwedOK(r) ==
  r \notin Deferred => owed[r] = 0 /\ (r \in owned <=> stage[r] = "hold")

\* An ordinary attempt that has not been heard of yet is one more than the retries, and
\* the direct retry one more still.
TriesOK(r) ==
  /\ tries[r] <= MaxRetries
  /\ sends[r].try <= tries[r] + (IF stage[r] = "loop" THEN 0 ELSE 1)
                              + (IF pc[r] = "sent" /\ stage[r] # "hold" THEN 1 ELSE 0)

\* After its late attempt a held call gets no further than the top of the loop.
LateOK(r) ==
  sends[r].late > 0 => /\ sends[r].late = 1 /\ r \in late
                       /\ stage[r] = "hold" /\ pc[r] \in {"sent", "hold"}

CallOK(r) == StageOK(r) /\ AnswerOK(r) /\ OwedOK(r) /\ TriesOK(r) /\ LateOK(r)

IInv == TypeOK /\ claims = used /\ \A r \in Calls : CallOK(r)

USE ForwardingAssumption DEF Stages, Sends

-----------------------------------------------------------------------------
(* What the operators return. *)

LEMMA CappedType ==
  ASSUME NEW n \in Nat, NEW limit \in Nat
  PROVE  Capped(n, limit) \in 0..limit /\ Capped(n, limit) <= n
BY DEF Capped

Central == [status : {"unknown", "up", "down"}, ok : 0..OkNeeded, fail : 0..FailNeeded]

LEMMA SamplesTyped ==
  ASSUME NEW c \in Central
  PROVE  Healthy(c) \in Central /\ Unhealthy(c) \in Central /\ Struck(c) \in Central
<1>1. c.ok + 1 \in Nat /\ c.fail + 1 \in Nat
  BY DEF Central
<1>2. Capped(c.ok + 1, OkNeeded) \in 0..OkNeeded /\ Capped(c.fail + 1, FailNeeded) \in 0..FailNeeded
  BY <1>1, CappedType
<1>3. Healthy(c) \in Central
  BY <1>2 DEF Healthy, Central
<1>4. Unhealthy(c) \in Central
  BY <1>2 DEF Unhealthy, Central
<1>5. Struck(c) \in Central
  <2>1. [c EXCEPT !.status = "down"] \in Central /\ 0 \in 0..OkNeeded
    BY DEF Central
  <2>2. QED BY <2>1 DEF Struck, Central
<1>6. QED BY <1>3, <1>4, <1>5

-----------------------------------------------------------------------------
(* A step of one call leaves the others alone. *)

\* The variables that hold something per call change for r at most.
OnlyOf(r) ==
  \A q \in Calls \ {r} :
    /\ pc'[q] = pc[q] /\ stage'[q] = stage[q] /\ tries'[q] = tries[q]
    /\ answers'[q] = answers[q] /\ owed'[q] = owed[q] /\ sends'[q] = sends[q]
    /\ q \in owned' <=> q \in owned
    /\ q \in late' <=> q \in late
    /\ q \in torn' <=> q \in torn

LEMMA OthersKept ==
  ASSUME IInv, NEW r \in Calls, OnlyOf(r), CallOK(r)'
  PROVE  (\A q \in Calls : CallOK(q))'
<1>1. ASSUME NEW q \in Calls, q # r PROVE CallOK(q)'
  <2>1. CallOK(q)
    BY DEF IInv
  <2>2. QED BY <2>1, <1>1 DEF OnlyOf, CallOK, StageOK, AnswerOK, OwedOK, TriesOK, LateOK
<1>2. QED BY <1>1

-----------------------------------------------------------------------------
(* The ways out. *)

\* A call that leaves is clean whatever it was doing, if it has had one answer or is told
\* nothing, and is owed no reaction.
LEMMA LeaveKeepsInv ==
  ASSUME IInv, NEW r \in Calls, pc[r] \in UnderWay \cup {"idle"}, NEW at \in Over, NEW k,
         NEW n \in Nat, NEW heard \in Int, Leave(r, at, k, n, heard),
         torn' = torn \/ torn' = torn \cup {r},
         r \notin torn' => n = IF at = "done" THEN 1 ELSE 0,
         r \notin Deferred =>
           heard = IF k \in Reacting \cup {"expired"} /\ r \notin owned THEN 1 ELSE 0
  PROVE  IInv'
<1>1. CallOK(r)
  BY DEF IInv
<1>2. TypeOK'
  BY DEF IInv, TypeOK, Leave, centralVars, budgetVars, Over, UnderWay, NoSends
<1>3. /\ pc'[r] = at /\ stage'[r] = "loop" /\ tries'[r] = 0 /\ sends'[r] = NoSends
      /\ answers'[r] = answers[r] + n /\ r \notin owned' /\ r \notin late'
  BY DEF IInv, TypeOK, Leave
<1>4. owed'[r] = owed[r] + heard - (IF k \in Reacting \cup {"expired"} /\ r \notin owned THEN 1 ELSE 0)
  BY DEF IInv, TypeOK, Leave
<1>5. StageOK(r)' /\ TriesOK(r)' /\ LateOK(r)'
  BY <1>3 DEF StageOK, TriesOK, LateOK, Over, NoSends
<1>6. AnswerOK(r)'
  BY <1>1, <1>3 DEF CallOK, AnswerOK, UnderWay, IInv, TypeOK
<1>7. OwedOK(r)'
  BY <1>1, <1>3, <1>4 DEF CallOK, OwedOK, IInv, TypeOK
<1>8. OnlyOf(r)
  BY DEF OnlyOf, IInv, TypeOK, Leave
<1>9. claims' = used'
  BY DEF IInv, Leave, budgetVars
<1>10. QED BY <1>2, <1>5, <1>6, <1>7, <1>8, <1>9, OthersKept DEF CallOK, IInv

\* An end with one answer.
LEMMA EndKeepsInv ==
  ASSUME IInv, NEW r \in Calls, pc[r] \in UnderWay \cup {"idle"}, NEW k, NEW heard \in Int,
         End(r, k, 1, heard),
         r \notin Deferred =>
           heard = IF k \in Reacting \cup {"expired"} /\ r \notin owned THEN 1 ELSE 0
  PROVE  IInv'
BY LeaveKeepsInv, Zenon DEF End, Over

LEMMA RefuseKeepsInv ==
  ASSUME IInv, NEW r \in Calls, pc[r] \in UnderWay \cup {"idle"}, Refuse(r)
  PROVE  IInv'
BY EndKeepsInv DEF Refuse, Reacting

LEMMA GoneKeepsInv ==
  ASSUME IInv, NEW r \in Calls, pc[r] \in UnderWay, Gone(r)
  PROVE  IInv'
BY LeaveKeepsInv DEF Gone, Reacting, Over

-----------------------------------------------------------------------------
(* The ways on. *)

\* A call that goes on, in the layer and with the retries the step says.
LEMMA GoOnKeepsInv ==
  ASSUME IInv, NEW r \in Calls, NEW at \in UnderWay \ {"sent"}, GoOn(r, at), OnlyOf(r),
         pc[r] \in UnderWay,
         stage' \in [Calls -> Stages], tries' \in [Calls -> Nat], answers' \in [Calls -> Nat],
         owned' \in SUBSET Calls, torn' \in SUBSET Calls, torn \subseteq torn',
         r \notin torn' => answers'[r] = answers[r],
         r \notin Deferred => (r \in owned' <=> stage'[r] = "hold"),
         at \in {"hold", "resting"} => stage'[r] = "hold",
         at = "fallback" => stage'[r] = "fallback", at = "queued" => stage'[r] = "loop",
         tries'[r] <= MaxRetries,
         sends[r].try <= tries'[r] + (IF stage'[r] = "loop" THEN 0 ELSE 1),
         sends[r].late > 0 => stage'[r] = "hold" /\ at = "hold"
  PROVE  IInv'
<1>1. CallOK(r)
  BY DEF IInv
<1>2. TypeOK'
  <2>1. {doomed', owned', lock', late', torn'} \subseteq SUBSET Calls
    BY DEF IInv, TypeOK, GoOn
  <2>2. pc' \in [Calls -> UnderWay \cup Over \cup {"idle"}]
    BY DEF IInv, TypeOK, GoOn
  <2>3. QED BY <2>1, <2>2 DEF IInv, TypeOK, GoOn, centralVars, budgetVars
<1>3. pc'[r] = at /\ owed'[r] = owed[r] /\ sends'[r] = sends[r] /\ late' = late
  BY DEF IInv, TypeOK, GoOn
<1>4. StageOK(r)' /\ OwedOK(r)'
  BY <1>1, <1>3 DEF CallOK, StageOK, OwedOK, Over, UnderWay
<1>5. AnswerOK(r)'
  BY <1>1, <1>3 DEF CallOK, AnswerOK, UnderWay
<1>6. TriesOK(r)' /\ LateOK(r)'
  BY <1>1, <1>3 DEF CallOK, TriesOK, LateOK, IInv, TypeOK
<1>7. claims' = used'
  BY DEF IInv, GoOn, budgetVars
<1>8. QED BY <1>2, <1>4, <1>5, <1>6, <1>7, OthersKept DEF CallOK, IInv

\* Another turn in the hold.
LEMMA HoldGoesOn ==
  ASSUME IInv, NEW r \in Calls, stage[r] = "hold", pc[r] \in UnderWay,
         NEW at \in {"hold", "resting", "pacing"}, at = "hold" \/ sends[r].late = 0,
         GoOn(r, at), UNCHANGED <<stage, tries, owned, answers, torn>>
  PROVE  IInv'
<1>1. CallOK(r) /\ sends[r] \in Sends
  BY DEF IInv, TypeOK
<1>2. /\ tries'[r] <= MaxRetries /\ sends[r].try <= tries'[r] + 1
      /\ r \notin Deferred => r \in owned'
  BY <1>1 DEF CallOK, TriesOK, OwedOK, IInv, TypeOK
<1>3. OnlyOf(r)
  BY DEF OnlyOf, IInv, TypeOK, GoOn
<1>4. /\ stage' \in [Calls -> Stages] /\ tries' \in [Calls -> Nat] /\ answers' \in [Calls -> Nat]
      /\ owned' \in SUBSET Calls /\ torn' \in SUBSET Calls
  BY DEF IInv, TypeOK
<1>5. at \in UnderWay \ {"sent"}
  BY DEF UnderWay
<1>6. /\ torn \subseteq torn' /\ r \notin torn' => answers'[r] = answers[r]
      /\ stage'[r] = "hold" /\ (sends[r].late > 0 => at = "hold")
      /\ at # "fallback" /\ at # "queued"
  BY <1>1
<1>7. /\ r \notin Deferred => (r \in owned' <=> stage'[r] = "hold")
      /\ sends[r].try <= tries'[r] + (IF stage'[r] = "loop" THEN 0 ELSE 1)
  BY <1>2, <1>6
<1>8. QED BY <1>2, <1>3, <1>4, <1>5, <1>6, <1>7, GoOnKeepsInv

-----------------------------------------------------------------------------
(* One lemma per step. *)

LEMMA DispatchKeepsInv ==
  ASSUME IInv, NEW r \in Calls, Dispatch(r)
  PROVE  IInv'
<1>1. CASE r \in Deferred \/ used < Budget
  <2> DEFINE s == IF r \in Deferred THEN "hold" ELSE "loop"
  <2>1. CallOK(r) /\ pc[r] = "idle"
    BY DEF IInv, Dispatch
  <2>2. TypeOK'
    BY <1>1 DEF IInv, TypeOK, Dispatch, centralVars, budgetVars, UnderWay
  <2>3. /\ pc'[r] = (IF r \in Deferred THEN "hold" ELSE "queued") /\ stage'[r] = s
        /\ UNCHANGED <<tries, owned, late, answers, torn, owed, sends, budgetVars>>
    BY <1>1 DEF IInv, TypeOK, Dispatch
  <2>4. OnlyOf(r)
    BY <1>1 DEF OnlyOf, IInv, TypeOK, Dispatch
  <2>5. StageOK(r)' /\ AnswerOK(r)'
    BY <2>1, <2>3 DEF CallOK, StageOK, AnswerOK, Over
  <2>6. OwedOK(r)'
    BY <2>1, <2>3 DEF CallOK, OwedOK, StageOK
  <2>7. TriesOK(r)' /\ LateOK(r)'
    BY <2>1, <2>3 DEF CallOK, TriesOK, LateOK, StageOK, IInv, TypeOK
  <2>8. QED BY <2>2, <2>3, <2>4, <2>5, <2>6, <2>7, OthersKept DEF IInv, CallOK, budgetVars
<1>2. CASE ~(r \in Deferred \/ used < Budget)
  BY <1>2, RefuseKeepsInv DEF Dispatch
<1>3. QED BY <1>1, <1>2

LEMMA AskKeepsInv ==
  ASSUME IInv, NEW r \in Calls, Ask(r)
  PROVE  IInv'
<1>1. CASE Refuse(r)
  BY <1>1, RefuseKeepsInv DEF Ask, UnderWay
<1>2. CASE Claim(r)
  <2>1. CallOK(r) /\ pc[r] \in {"queued", "fallback"}
    BY DEF IInv, Ask
  <2>2. TypeOK'
    BY <1>2 DEF IInv, TypeOK, Claim, centralVars, layerVars, UnderWay
  <2>3. /\ pc'[r] = "pacing" /\ claims' = used'
        /\ UNCHANGED <<stage, tries, owned, late, answers, torn, owed, sends>>
    BY <1>2 DEF IInv, TypeOK, Claim, layerVars
  <2>4. OnlyOf(r)
    BY <1>2 DEF OnlyOf, IInv, TypeOK, Claim, layerVars
  <2>5. CallOK(r)'
    BY <2>1, <2>3 DEF CallOK, StageOK, AnswerOK, OwedOK, TriesOK, LateOK, Over
  <2>6. QED BY <2>2, <2>3, <2>4, <2>5, OthersKept DEF IInv
<1>3. QED BY <1>1, <1>2 DEF Ask

\* An attempt more; in the hold only one after the deadline counts.
LEMMA SendKeepsInv ==
  ASSUME IInv, NEW r \in Calls, Send(r)
  PROVE  IInv'
<1>1. CallOK(r) /\ pc[r] = "pacing" /\ sends[r] \in Sends
  BY DEF IInv, TypeOK, Send
<1> DEFINE s == Counted(r)
<1>2. s \in Sends /\ s.try <= sends[r].try + (IF stage[r] = "hold" THEN 0 ELSE 1)
      /\ s.late <= sends[r].late + (IF stage[r] = "hold" /\ r \in late THEN 1 ELSE 0)
  <2> DEFINE try == sends[r].try + (IF stage[r] = "hold" THEN 0 ELSE 1)
             held == sends[r].late + (IF stage[r] = "hold" /\ r \in late THEN 1 ELSE 0)
  <2>1. try \in Nat /\ held \in Nat /\ MaxRetries + 3 \in Nat /\ 2 \in Nat
    BY <1>1
  <2>2. Capped(try, MaxRetries + 3) \in Nat /\ Capped(try, MaxRetries + 3) <= try
    BY <2>1, CappedType
  <2>3. Capped(held, 2) \in Nat /\ Capped(held, 2) <= held
    BY <2>1, CappedType
  <2>4. s = [try |-> Capped(try, MaxRetries + 3), late |-> Capped(held, 2)]
    BY DEF Counted
  <2>5. QED BY <2>2, <2>3, <2>4
<1> HIDE DEF s
<1>3. sends' = [sends EXCEPT ![r] = s]
  BY DEF Send, s
<1>4. TypeOK'
  BY <1>2, <1>3 DEF IInv, TypeOK, Send, centralVars, budgetVars, layerVars, UnderWay
<1>5. /\ pc'[r] = "sent" /\ sends'[r] = s /\ claims' = used'
      /\ UNCHANGED <<stage, tries, owned, late, answers, torn, owed>>
  BY <1>3 DEF IInv, TypeOK, Send, layerVars, budgetVars
<1>6. OnlyOf(r)
  BY <1>3 DEF OnlyOf, IInv, TypeOK, Send, layerVars
<1>7. StageOK(r)' /\ AnswerOK(r)' /\ OwedOK(r)'
  BY <1>1, <1>5 DEF CallOK, StageOK, AnswerOK, OwedOK, Over
<1>8. TriesOK(r)' /\ LateOK(r)'
  <2>1. sends[r].late = 0
    BY <1>1 DEF CallOK, LateOK
  <2>2. QED BY <1>1, <1>2, <1>5, <2>1 DEF CallOK, TriesOK, LateOK, IInv, TypeOK
<1>9. QED BY <1>4, <1>5, <1>6, <1>7, <1>8, OthersKept DEF CallOK, IInv

\* The steps that end a call in its slot.
LEMMA EndingsKeepInv ==
  ASSUME IInv, NEW r \in Calls,
         ReservationRefused(r) \/ Relay(r) \/ Break(r) \/ BreakInFallback(r) \/ FailInFallback(r)
  PROVE  IInv'
<1>1. CASE ReservationRefused(r)
  BY <1>1, RefuseKeepsInv DEF ReservationRefused, UnderWay
<1>2. CASE Relay(r) \/ Break(r)
  <2>1. pc[r] \in UnderWay /\ End(r, "served", 1, 0)
    BY <1>2 DEF Relay, Break, Waiting, UnderWay
  <2>2. QED BY <2>1, EndKeepsInv DEF Reacting
<1>3. CASE BreakInFallback(r)
  <2>1. /\ pc[r] \in UnderWay /\ Leave(r, "done", "error", 2, 0)
        /\ torn' = torn \cup {r} /\ "done" \in Over /\ "error" \notin Reacting \cup {"expired"}
    BY <1>3 DEF BreakInFallback, Waiting, UnderWay, Reacting, Over
  <2>2. QED BY <2>1, LeaveKeepsInv
<1>4. CASE FailInFallback(r)
  <2>1. pc[r] \in UnderWay
    BY <1>4 DEF FailInFallback, Waiting, UnderWay
  <2>2. CASE Gone(r)
    BY <2>1, <2>2, GoneKeepsInv
  <2>3. CASE End(r, "error", 1, 0)
    BY <2>1, <2>3, EndKeepsInv DEF Reacting
  <2>4. QED BY <1>4, <2>2, <2>3 DEF FailInFallback
<1>5. QED BY <1>1, <1>2, <1>3, <1>4

\* A throttle of the first layer: held, handed back, retried or relayed.
LEMMA ThrottledKeepsInv ==
  ASSUME IInv, NEW r \in Calls, NEW k \in Throttles, Throttled(r, k)
  PROVE  IInv'
<1>1. /\ pc[r] = "sent" /\ stage[r] = "loop" /\ CallOK(r) /\ pc[r] \in UnderWay
      /\ Heard(k) = IF k \in Reacting \cup {"expired"} THEN 1 ELSE 0
  BY DEF IInv, Throttled, Waiting, UnderWay, Heard, Throttles, Reacting
<1>2. /\ sends[r].late = 0 /\ tries[r] \in Nat /\ sends[r].try <= tries[r] + 1
      /\ tries[r] <= MaxRetries /\ sends[r].try \in Nat
  BY <1>1 DEF IInv, TypeOK, CallOK, LateOK, TriesOK
<1>3. r \notin Deferred =>
        Heard(k) = IF k \in Reacting \cup {"expired"} /\ r \notin owned THEN 1 ELSE 0
  BY <1>1 DEF CallOK, OwedOK
<1>4. Heard(k) \in Int
  BY DEF Heard
<1>5. CASE Hold(r)
  <2>1. OnlyOf(r)
    BY <1>5 DEF OnlyOf, IInv, TypeOK, Hold, GoOn
  <2>2. /\ stage' \in [Calls -> Stages] /\ tries' \in [Calls -> Nat]
        /\ answers' \in [Calls -> Nat] /\ owned' \in SUBSET Calls /\ torn' \in SUBSET Calls
        /\ stage'[r] = "hold" /\ r \in owned' /\ UNCHANGED <<tries, answers, torn>>
    BY <1>5 DEF IInv, TypeOK, Hold
  <2>3. GoOn(r, "hold") /\ "hold" \in UnderWay \ {"sent"}
    BY <1>5 DEF Hold, UnderWay
  <2>4. sends[r].try <= tries'[r] + (IF stage'[r] = "loop" THEN 0 ELSE 1)
    BY <1>2, <2>2
  <2>5. QED BY <1>1, <1>2, <2>1, <2>2, <2>3, <2>4, GoOnKeepsInv
<1>6. CASE Retry(r) /\ tries[r] < MaxRetries
  <2>1. OnlyOf(r)
    BY <1>6 DEF OnlyOf, IInv, TypeOK, Retry, GoOn
  <2>2. /\ stage' \in [Calls -> Stages] /\ tries' \in [Calls -> Nat]
        /\ answers' \in [Calls -> Nat] /\ owned' \in SUBSET Calls /\ torn' \in SUBSET Calls
        /\ tries'[r] = tries[r] + 1 /\ UNCHANGED <<stage, owned, answers, torn>>
    BY <1>6 DEF IInv, TypeOK, Retry
  <2>3. GoOn(r, "queued") /\ "queued" \in UnderWay \ {"sent"}
    BY <1>6 DEF Retry, UnderWay
  <2>4. /\ sends[r].try <= tries'[r] + (IF stage'[r] = "loop" THEN 0 ELSE 1)
        /\ tries'[r] <= MaxRetries
    BY <1>1, <1>2, <1>6, <2>2
  <2>5. r \notin Deferred => (r \in owned' <=> stage'[r] = "hold")
    BY <1>1, <2>2 DEF CallOK, OwedOK
  <2>6. QED BY <1>1, <1>2, <2>1, <2>2, <2>3, <2>4, <2>5, GoOnKeepsInv
<1>7. CASE Leave(r, "back", k, 0, Heard(k)) /\ UNCHANGED torn
  BY <1>1, <1>3, <1>4, <1>7, LeaveKeepsInv DEF Over
<1>8. CASE End(r, k, 1, Heard(k))
  BY <1>1, <1>3, <1>4, <1>8, EndKeepsInv
<1>9. QED BY <1>5, <1>6, <1>7, <1>8 DEF Throttled, RetryEngages

LEMMA FallbackThrottleKeepsInv ==
  ASSUME IInv, NEW r \in Calls, NEW k \in Throttles, ThrottledInFallback(r, k)
  PROVE  IInv'
<1>1. pc[r] \in UnderWay /\ stage[r] = "fallback" /\ CallOK(r) /\ End(r, k, 1, Heard(k))
  BY DEF IInv, ThrottledInFallback, Waiting, UnderWay
<1>2. /\ Heard(k) \in Int
      /\ r \notin Deferred =>
           Heard(k) = IF k \in Reacting \cup {"expired"} /\ r \notin owned THEN 1 ELSE 0
  BY <1>1 DEF CallOK, OwedOK, Heard, Throttles, Reacting
<1>3. QED BY <1>1, <1>2, EndKeepsInv

\* A call that fails is told of nothing, or tried directly.
LEMMA FailKeepsInv ==
  ASSUME IInv, NEW r \in Calls, Fail(r)
  PROVE  IInv'
<1>1. /\ pc[r] = "sent" /\ stage[r] = "loop" /\ pc[r] \in UnderWay /\ CallOK(r)
  BY DEF IInv, Fail, Waiting, UnderWay
<1>2. CASE Gone(r)
  BY <1>1, <1>2, GoneKeepsInv
<1>3. CASE Recover(r, r \in doomed)
  <2>1. Struck(central) \in Central /\ 0 \in 0..OkNeeded
    BY SamplesTyped DEF IInv, TypeOK, Central
  <2>2. TypeOK'
    BY <1>3, <2>1 DEF IInv, TypeOK, Recover, Central, budgetVars, UnderWay
  <2>3. /\ pc'[r] = "fallback" /\ stage'[r] = "fallback" /\ claims' = used'
        /\ UNCHANGED <<tries, owned, late, answers, torn, owed, sends>>
    BY <1>3 DEF IInv, TypeOK, Recover, budgetVars
  <2>4. OnlyOf(r)
    BY <1>3 DEF OnlyOf, IInv, TypeOK, Recover
  <2>5. StageOK(r)' /\ AnswerOK(r)' /\ OwedOK(r)'
    BY <1>1, <2>3 DEF CallOK, StageOK, AnswerOK, OwedOK, Over
  <2>6. TriesOK(r)' /\ LateOK(r)'
    BY <1>1, <2>3 DEF CallOK, TriesOK, LateOK, IInv, TypeOK
  <2>7. QED BY <2>2, <2>3, <2>4, <2>5, <2>6, OthersKept DEF IInv, CallOK
<1>4. QED BY <1>2, <1>3 DEF Fail

\* The steps of a held call.
LEMMA HoldStepsKeepInv ==
  ASSUME IInv, NEW r \in Calls,
         \/ HoldTurn(r) \/ HoldAsk(r) \/ HoldServed(r) \/ HoldFails(r)
         \/ \E k \in Throttles : HoldThrottled(r, k)
  PROVE  IInv'
<1>1. pc[r] \in UnderWay /\ stage[r] = "hold" /\ CallOK(r)
  BY DEF IInv, CallOK, StageOK, HoldTurn, HoldAsk, HoldServed, HoldFails, HoldThrottled, Waiting, UnderWay
<1>2. r \notin Deferred => r \in owned
  BY <1>1 DEF CallOK, OwedOK
<1>3. ASSUME NEW k, End(r, k, 1, 0) PROVE IInv'
  BY <1>1, <1>2, <1>3, EndKeepsInv
<1>4. ASSUME NEW at \in {"hold", "resting", "pacing"}, at = "hold" \/ sends[r].late = 0,
             GoOn(r, at), UNCHANGED <<stage, tries, owned, answers, torn>>
      PROVE  IInv'
  BY <1>1, <1>4, HoldGoesOn
<1>5. sends[r].late = 0 \/ (r \in late /\ pc[r] \in {"sent", "hold"})
  BY <1>1 DEF CallOK, LateOK, IInv, TypeOK
<1>6. CASE HoldTurn(r)
  <2>1. CASE r \in late
    BY <1>3, <1>6, <2>1 DEF HoldTurn
  <2>2. CASE r \notin late
    BY <1>4, <1>5, <1>6, <2>2 DEF HoldTurn
  <2>3. QED BY <2>1, <2>2
<1>7. CASE HoldAsk(r)
  BY <1>3, <1>4, <1>5, <1>7 DEF HoldAsk
<1>8. CASE HoldServed(r)
  BY <1>3, <1>8 DEF HoldServed
<1>9. CASE \E k \in Throttles : HoldThrottled(r, k)
  BY <1>3, <1>4, <1>9 DEF HoldThrottled
<1>10. CASE HoldFails(r)
  BY <1>1, <1>4, <1>10, GoneKeepsInv DEF HoldFails
<1>11. QED BY <1>6, <1>7, <1>8, <1>9, <1>10

\* The pipe of a held call breaks: what had been written stays written.
LEMMA HoldBreakKeepsInv ==
  ASSUME IInv, NEW r \in Calls, HoldBreaks(r)
  PROVE  IInv'
<1>1. pc[r] \in UnderWay /\ stage[r] = "hold" /\ CallOK(r)
  BY DEF IInv, HoldBreaks, Waiting, UnderWay
<1>2. OnlyOf(r)
  BY DEF OnlyOf, IInv, TypeOK, HoldBreaks, GoOn
<1>3. /\ stage' \in [Calls -> Stages] /\ tries' \in [Calls -> Nat]
      /\ answers' \in [Calls -> Nat] /\ owned' \in SUBSET Calls /\ torn' \in SUBSET Calls
      /\ r \in torn' /\ torn \subseteq torn' /\ UNCHANGED <<stage, tries, owned>>
  BY DEF IInv, TypeOK, HoldBreaks
<1>4. GoOn(r, "hold") /\ "hold" \in UnderWay \ {"sent"}
  BY DEF HoldBreaks, UnderWay
<1>5. /\ sends[r].try <= tries'[r] + (IF stage'[r] = "loop" THEN 0 ELSE 1)
      /\ tries'[r] <= MaxRetries
      /\ r \notin Deferred => (r \in owned' <=> stage'[r] = "hold")
  BY <1>1, <1>3 DEF CallOK, TriesOK, OwedOK, IInv, TypeOK
<1>6. QED BY <1>1, <1>2, <1>3, <1>4, <1>5, GoOnKeepsInv

\* What happens beside the calls changes nothing a call's books speak of.
LEMMA BesideKeepsInv ==
  ASSUME IInv,
         \/ Poll \/ CentralFlips \/ Roll
         \/ (\E r \in Calls : Expire(r)) \/ UNCHANGED vars
  PROVE  IInv'
<1>1. CASE Poll
  <2>1. /\ Healthy(central) \in Central /\ Unhealthy(central) \in Central
        /\ Capped(streak + 1, OkNeeded) \in 0..OkNeeded /\ 0 \in 0..OkNeeded
    <3>1. central \in Central /\ streak + 1 \in Nat /\ OkNeeded \in Nat /\ 0 \in 0..OkNeeded
      BY DEF IInv, TypeOK, Central
    <3>2. Capped(streak + 1, OkNeeded) \in 0..OkNeeded
      BY ONLY <3>1, CappedType
    <3>3. QED BY <3>1, <3>2, SamplesTyped
  <2>2. central' \in Central /\ streak' \in 0..OkNeeded
    BY <1>1, <2>1 DEF Poll
  <2>3. TypeOK'
    BY <1>1, <2>2 DEF IInv, TypeOK, Poll, Central, budgetVars, layerVars
  <2>4. QED
    BY <1>1, <2>3 DEF IInv, Poll, CallOK, StageOK, AnswerOK, OwedOK, TriesOK, LateOK, budgetVars, layerVars
<1>2. CASE CentralFlips
  <2>1. TypeOK'
    BY <1>2 DEF IInv, TypeOK, CentralFlips, centralVars, budgetVars, layerVars
  <2>2. QED
    BY <1>2, <2>1 DEF IInv, CentralFlips, CallOK, StageOK, AnswerOK, OwedOK, TriesOK, LateOK,
                      budgetVars, layerVars
<1>3. CASE Roll
  <2>1. TypeOK'
    BY <1>3 DEF IInv, TypeOK, Roll, centralVars, layerVars
  <2>2. QED
    BY <1>3, <2>1 DEF IInv, Roll, CallOK, StageOK, AnswerOK, OwedOK, TriesOK, LateOK, layerVars
<1>4. CASE \E r \in Calls : Expire(r)
  <2>1. TypeOK'
    BY <1>4 DEF IInv, TypeOK, Expire, centralVars, budgetVars, layerVars
  <2>2. QED
    BY <1>4, <2>1 DEF IInv, Expire, CallOK, StageOK, AnswerOK, OwedOK, TriesOK, LateOK,
                      budgetVars, layerVars
<1>5. CASE UNCHANGED vars
  BY <1>5 DEF IInv, TypeOK, vars, CallOK, StageOK, AnswerOK, OwedOK, TriesOK, LateOK,
              centralVars, budgetVars, layerVars
<1>6. QED BY <1>1, <1>2, <1>3, <1>4, <1>5

-----------------------------------------------------------------------------
LEMMA InitEstablishesInv == Init => IInv
<1> SUFFICES ASSUME Init PROVE IInv
  OBVIOUS
<1>1. TypeOK
  BY DEF Init, TypeOK, NoSends
<1>2. ASSUME NEW r \in Calls PROVE CallOK(r)
  BY DEF Init, CallOK, StageOK, AnswerOK, OwedOK, TriesOK, LateOK, NoSends
<1>3. QED BY <1>1, <1>2 DEF IInv, Init

LEMMA NextKeepsInv == IInv /\ [Next]_vars => IInv'
<1> SUFFICES ASSUME IInv, [Next]_vars PROVE IInv'
  OBVIOUS
<1>1. ASSUME NEW r \in Calls, Progress(r) PROVE IInv'
  BY <1>1, AskKeepsInv, SendKeepsInv, EndingsKeepInv, ThrottledKeepsInv, FallbackThrottleKeepsInv,
     FailKeepsInv, HoldStepsKeepInv, HoldBreakKeepsInv DEF Progress
<1>2. QED BY <1>1, BesideKeepsInv, DispatchKeepsInv DEF Next

\* The invariant holds in every reachable state.
THEOREM ForwardingInvariant == Spec => []IInv
BY InitEstablishesInv, NextKeepsInv, PTL DEF Spec

\* Types, as the runs on small instances have them.
THEOREM ForwardingTyped == Spec => []TypeOK
<1>1. IInv => TypeOK
  BY DEF IInv
<1>2. QED BY <1>1, ForwardingInvariant, PTL

\* Every layer that may end a call writes the answer in the very step in which the call
\* is over, so no client gets two answers or none (_forward_with_retry and what it calls).
THEOREM OneAnswerHolds == Spec => []OneAnswer
<1>1. IInv => OneAnswer
  BY DEF IInv, CallOK, AnswerOK, OneAnswer, TypeOK
<1>2. QED BY <1>1, ForwardingInvariant, PTL

\* The limiter hears of every pushback once, a visit of a slot makes at most MaxRetries
\* retries and a direct one, a hold one attempt after its deadline, and all calls
\* together no more than the window has units.
THEOREM RetriesAreAccountedHolds == Spec => []RetriesAreAccounted
<1>1. IInv => PushbackFedOnce
  BY DEF IInv, CallOK, OwedOK, PushbackFedOnce
<1>2. IInv => AttemptsBounded
  <2> SUFFICES ASSUME IInv PROVE AttemptsBounded
    OBVIOUS
  <2>1. ASSUME NEW r \in Calls PROVE sends[r].try <= MaxRetries + 2 /\ sends[r].late <= 1
    <3>1. CallOK(r) /\ sends[r] \in Sends /\ tries[r] \in Nat
      BY DEF IInv, TypeOK
    <3>2. QED BY <3>1 DEF CallOK, TriesOK, LateOK
  <2>2. QED BY <2>1 DEF IInv, TypeOK, AttemptsBounded
<1>3. QED BY <1>1, <1>2, ForwardingInvariant, PTL DEF RetriesAreAccounted
=============================================================================
