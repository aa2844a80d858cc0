--------------------------- MODULE IngressProofs ---------------------------
(***************************************************************************)
(* Proofs about Ingress, for any number of requests, lanes, sessions and   *)
(* kinds, any chains, registries and number of retries.                    *)
(***************************************************************************)
EXTENDS Ingress, FiniteSetTheorems, TLAPS

USE DEF Active, NoTurn

Spare(place) == IF place = "sent" THEN 1 ELSE 0

\* What is spent is accounted for by the lanes tried, the retries and the
\* attempt under way.
Balanced(u, spare) ==
  /\ u.retries <= QueueRetries
  /\ u.attempts <= Cardinality(u.tried) + u.retries + spare

\* l is a lane a turn may be sent to.
MayServe(u, l) ==
  /\ l \in Lanes \ u.tried
  /\ u.kind.role = "generate" /\ ~Overflow => l = "anthropic"

Candidates(u, S) ==
  /\ S \subseteq Range(RoleChain(u.kind.role))
  /\ S \cap u.tried = {}

Sound(place, u) ==
  IF place \in Active
  THEN /\ u \in Turns
       /\ Balanced(u, Spare(place))
       /\ place = "sent" => MayServe(u, u.lane)
       /\ place = "probing" => Candidates(u, u.walk)
  ELSE u = NoTurn

Control ==
  /\ pc \in [Requests -> Active \cup {"idle", "refused"}]
  /\ DOMAIN turn = Requests
  /\ \A r \in Requests : Sound(pc[r], turn[r])

Data ==
  /\ lane_state \in [Lanes -> Verdicts]
  /\ session_lane \in [Sessions -> Lanes \cup {NoLane}]
  /\ registered = NoRegistry \/ registered \in SUBSET Lanes

IInv == Control /\ Data

---------------------------------------------------------------------------
\* The chain of a role is made of lanes; without overflow that of generate is
\* Anthropic alone.
LEMMA ChainsAreLanes ==
  ASSUME NEW role \in DOMAIN Chain
  PROVE  /\ Range(RoleChain(role)) \subseteq Lanes
         /\ role = "generate" /\ ~Overflow
              => Range(RoleChain(role)) = {"anthropic"}
<1>1. CASE role = "generate" /\ ~Overflow
  <2>1. RoleChain(role) = <<"anthropic">>
    BY <1>1 DEF RoleChain
  <2>2. Range(<<"anthropic">>) = {"anthropic"}
    BY DEF Range
  <2> QED BY <2>1, <2>2, LanesAssumption
<1>2. CASE ~(role = "generate" /\ ~Overflow)
  <2>1. RoleChain(role) = Chain[role]
    BY <1>2 DEF RoleChain
  <2>2. Chain[role] \in Seq(Lanes)
    BY ChainAssumption
  <2>3. Range(Chain[role]) \subseteq Lanes
    BY <2>2 DEF Range
  <2> QED BY <2>1, <2>3, <1>2
<1> QED BY <1>1, <1>2

\* Every way to choose a lane chooses one the turn may be sent to.
LEMMA ChoicesMayServe ==
  ASSUME Data, NEW u \in Turns, NEW state
  PROVE  /\ \A l \in PinnedChoice(u, state) : MayServe(u, l)
         /\ \A l \in ChainChoice(u, state) \ u.tried : MayServe(u, l)
         /\ Candidates(u, EffectiveChain(u.kind.role) \ u.tried)
<1>1. u.kind \in [role: DOMAIN Chain, session: Sessions \cup {NoSession},
                  constrained: BOOLEAN, buffered: BOOLEAN]
  BY KindsAssumption DEF Turns
<1>2. Pin(u.kind) \in Lanes \cup {NoLane}
  BY <1>1 DEF Pin, Data
<1>3. \A l \in PinnedChoice(u, state) : MayServe(u, l)
  BY <1>2 DEF PinnedChoice, MayServe
<1>4. EffectiveChain(u.kind.role) \subseteq Range(RoleChain(u.kind.role))
  BY DEF EffectiveChain
<1>5. ChainChoice(u, state) \subseteq Range(RoleChain(u.kind.role))
  BY <1>4 DEF ChainChoice, Firsts, OpenLanes
<1>6. \A l \in Range(RoleChain(u.kind.role)) \ u.tried : MayServe(u, l)
  BY <1>1, ChainsAreLanes DEF MayServe
<1>7. Candidates(u, EffectiveChain(u.kind.role) \ u.tried)
  BY <1>4 DEF Candidates
<1> QED BY <1>3, <1>5, <1>6, <1>7

---------------------------------------------------------------------------
\* What a turn may become, one lemma per way to go on.

LEMMA FinishIsSound ==
  ASSUME Control, NEW r \in Requests, NEW how \in {"idle", "refused"},
         Finish(r, how)
  PROVE  Control'
BY DEF Finish, Control, Sound

LEMMA DispatchIsSound ==
  ASSUME Control, NEW r \in Requests, NEW u \in Turns, NEW l,
         Balanced(u, 0), MayServe(u, l), Dispatch(r, u, l)
  PROVE  Control'
<1> DEFINE w == [u EXCEPT !.lane = l, !.walk = {}, !.attempts = @ + 1]
<1>1. /\ w.lane = l /\ w.tried = u.tried /\ w.kind = u.kind
      /\ w.retries = u.retries /\ w.attempts = u.attempts + 1
  BY DEF Turns
<1>0. w \in Turns
  <2>1. [u EXCEPT !.lane = l] \in Turns
    BY DEF Turns, MayServe
  <2>2. ASSUME NEW t \in Turns
        PROVE  [t EXCEPT !.walk = {}, !.attempts = u.attempts + 1] \in Turns
    <3>1. u.attempts + 1 \in Nat
      BY DEF Turns
    <3> QED BY <3>1 DEF Turns
  <2>3. w = [[u EXCEPT !.lane = l] EXCEPT !.walk = {}, !.attempts = u.attempts + 1]
    BY DEF Turns
  <2> QED BY <2>1, <2>2, <2>3
<1>2. u.attempts \in Nat /\ u.retries \in Nat /\ u.tried \subseteq Lanes
  BY DEF Turns
<1>3. Cardinality(u.tried) \in Nat
  BY <1>2, LanesAssumption, FS_Subset, FS_CardinalityType
<1>4. Balanced(w, 1)
  BY <1>1, <1>2, <1>3, SwitchesAssumption DEF Balanced
<1>5. MayServe(w, w.lane)
  BY <1>1 DEF MayServe
<1>6. Sound("sent", w)
  BY <1>0, <1>4, <1>5 DEF Sound, Spare
<1>7. pc' = [pc EXCEPT ![r] = "sent"] /\ turn' = [turn EXCEPT ![r] = w]
  BY DEF Dispatch
<1> HIDE DEF w
<1> QED BY <1>6, <1>7 DEF Control

LEMMA WalkIsSound ==
  ASSUME Control, NEW r \in Requests, NEW u \in Turns, NEW S,
         Balanced(u, 0), S \subseteq Lanes, Candidates(u, S), WalkOn(r, u, S)
  PROVE  Control'
<1>1. CASE S = {} /\ Finish(r, "refused")
  BY <1>1, FinishIsSound
<1>2. CASE /\ pc' = [pc EXCEPT ![r] = "probing"]
           /\ turn' = [turn EXCEPT ![r] = [u EXCEPT !.walk = S]]
  <2> DEFINE w == [u EXCEPT !.walk = S]
  <2>1. w \in Turns /\ w.walk = S /\ w.tried = u.tried /\ w.kind = u.kind
          /\ w.retries = u.retries /\ w.attempts = u.attempts
    BY DEF Turns
  <2>2. Sound("probing", w)
    BY <2>1 DEF Sound, Spare, Balanced, Candidates
  <2>3. pc' = [pc EXCEPT ![r] = "probing"] /\ turn' = [turn EXCEPT ![r] = w]
    BY <1>2
  <2> HIDE DEF w
  <2> QED BY <2>2, <2>3 DEF Control
<1> QED BY <1>1, <1>2 DEF WalkOn

LEMMA NextLaneIsSound ==
  ASSUME IInv, NEW r \in Requests, NEW u \in Turns, Balanced(u, 0),
         NEW state \in [Lanes -> Verdicts], NextLane(r, u, state),
         UNCHANGED registered
  PROVE  IInv'
<1> USE DEF IInv
<1>1. u.kind.role \in DOMAIN Chain /\ u.tried \subseteq Lanes
  BY KindsAssumption DEF Turns
<1>2. lane_state' \in [Lanes -> Verdicts]
  BY DEF NextLane
<1>3. CASE Finish(r, "refused") /\ UNCHANGED session_lane
  BY <1>2, <1>3, FinishIsSound DEF Data
<1>4. CASE /\ WalkOn(r, u, EffectiveChain(u.kind.role) \ u.tried)
           /\ UNCHANGED session_lane
  <2>1. EffectiveChain(u.kind.role) \subseteq Lanes
    BY <1>1, ChainsAreLanes DEF EffectiveChain
  <2>2. Control'
    BY <1>4, <2>1, ChoicesMayServe, WalkIsSound
  <2> QED BY <1>2, <1>4, <2>2 DEF Data
<1>5. CASE SelectLaneOnce(r, u, state)
  <2> DEFINE w == [u EXCEPT !.used_pin = TRUE]
  <2>1. w \in Turns /\ Balanced(w, 0) /\ \A l : MayServe(u, l) => MayServe(w, l)
    BY DEF Turns, Balanced, MayServe
  <2>2. CASE /\ \E l \in PinnedChoice(u, state) : Dispatch(r, w, l)
             /\ UNCHANGED session_lane
    <3>1. PICK l \in PinnedChoice(u, state) : Dispatch(r, w, l)
      BY <2>2
    <3>2. MayServe(w, l)
      BY <2>1, ChoicesMayServe
    <3>3. Control'
      BY <2>1, <3>1, <3>2, DispatchIsSound
    <3> QED BY <1>2, <2>2, <3>3 DEF Data
  <2>3. CASE \E l \in ChainChoice(u, state) \ u.tried :
               /\ Dispatch(r, w, l)
               /\ session_lane' = [s \in Sessions |->
                    IF s = u.kind.session THEN l ELSE session_lane[s]]
    <3>1. PICK l \in ChainChoice(u, state) \ u.tried :
               /\ Dispatch(r, w, l)
               /\ session_lane' = [s \in Sessions |->
                    IF s = u.kind.session THEN l ELSE session_lane[s]]
      BY <2>3
    <3>2. MayServe(u, l)
      BY ChoicesMayServe
    <3>3. Control'
      BY <2>1, <3>1, <3>2, DispatchIsSound
    <3>4. session_lane' \in [Sessions -> Lanes \cup {NoLane}]
      BY <3>1, <3>2 DEF Data, MayServe
    <3> QED BY <1>2, <3>3, <3>4 DEF Data
  <2>4. CASE Finish(r, "refused") /\ UNCHANGED session_lane
    BY <2>4, <1>3
  <2> HIDE DEF w
  <2> QED BY <1>5, <2>2, <2>3, <2>4 DEF SelectLaneOnce, w
<1> QED BY <1>3, <1>4, <1>5 DEF NextLane

---------------------------------------------------------------------------
\* A turn in hand, with more lanes tried, is still balanced.
LEMMA AsATurn ==
  ASSUME Control, NEW r \in Requests, pc[r] \in Active
  PROVE  /\ turn[r] \in Turns
         /\ Balanced(turn[r], Spare(pc[r]))
         /\ pc[r] = "sent" => MayServe(turn[r], turn[r].lane)
         /\ pc[r] = "probing" => Candidates(turn[r], turn[r].walk)
BY DEF Control, Sound

LEMMA TriedIsBalanced ==
  ASSUME NEW u \in Turns, NEW l \in Lanes \ u.tried, NEW spare \in {0, 1},
         Balanced(u, spare)
  PROVE  LET w == [u EXCEPT !.tried = @ \cup {l}]
         IN  /\ w \in Turns /\ Balanced(w, 0)
             /\ w.tried = u.tried \cup {l} /\ w.kind = u.kind
<1> DEFINE w == [u EXCEPT !.tried = @ \cup {l}]
<1>1. w \in Turns
  BY DEF Turns
<1>2. /\ w.tried = u.tried \cup {l} /\ w.kind = u.kind
      /\ w.retries = u.retries /\ w.attempts = u.attempts
  BY DEF Turns
<1>3. u.attempts \in Nat /\ u.retries \in Nat /\ u.tried \subseteq Lanes
  BY DEF Turns
<1>4. IsFiniteSet(u.tried)
  BY <1>3, LanesAssumption, FS_Subset
<1>5. /\ Cardinality(u.tried) \in Nat
      /\ Cardinality(u.tried \cup {l}) = Cardinality(u.tried) + 1
  BY <1>4, FS_CardinalityType, FS_AddElement
<1>6. Balanced(w, 0)
  BY <1>2, <1>3, <1>5, SwitchesAssumption DEF Balanced
<1> QED BY <1>1, <1>2, <1>6

LEMMA StateOpens ==
  ASSUME NEW f \in [Lanes -> Verdicts], NEW l \in Lanes, NEW b \in BOOLEAN
  PROVE  [f EXCEPT ![l].open = b] \in [Lanes -> Verdicts]
<1>1. [f[l] EXCEPT !.open = b] \in Verdicts
  BY DEF Verdicts
<1>2. [f EXCEPT ![l].open = b] = [f EXCEPT ![l] = [f[l] EXCEPT !.open = b]]
  OBVIOUS
<1> QED BY <1>1, <1>2

---------------------------------------------------------------------------
\* The steps.

LEMMA InitIsSound == Init => IInv
BY SwitchesAssumption DEF Init, IInv, Control, Data, Sound

LEMMA ArriveIsSound ==
  ASSUME IInv, NEW r \in Requests, NEW k \in Kinds, Arrive(r, k)
  PROVE  IInv'
<1>1. NewTurn(k) \in Turns /\ Balanced(NewTurn(k), 0)
  <2>1. NewTurn(k) \in Turns
    BY DEF NewTurn, Turns
  <2>2. Cardinality({}) = 0
    BY FS_EmptySet
  <2> QED BY <2>1, <2>2, SwitchesAssumption DEF Balanced, NewTurn
<1> QED BY <1>1, NextLaneIsSound DEF Arrive, IInv, Data

LEMMA ProbeAnswersIsSound ==
  ASSUME IInv, NEW r \in Requests, NEW v \in Verdicts, ProbeAnswers(r, v)
  PROVE  IInv'
<1> USE DEF IInv
<1>1. pc[r] = "probing" /\ UNCHANGED <<session_lane, registered>>
  BY DEF ProbeAnswers
<1>2. turn[r] \in Turns /\ Balanced(turn[r], 0) /\ Candidates(turn[r], turn[r].walk)
  BY <1>1, AsATurn DEF Spare
<1>3. PICK l \in Firsts(turn[r].kind.role, turn[r].walk) :
        /\ lane_state' = [lane_state EXCEPT ![l] = v]
        /\ \/ Dispatch(r, turn[r], l)
           \/ WalkOn(r, [turn[r] EXCEPT !.tried = @ \cup {l}],
                     turn[r].walk \ {l})
  BY DEF ProbeAnswers
<1>4. turn[r].kind.role \in DOMAIN Chain
  BY <1>2, KindsAssumption DEF Turns
<1>5. l \in turn[r].walk /\ turn[r].walk \subseteq Lanes
  BY <1>2, <1>3 DEF Firsts, Turns
<1>6. MayServe(turn[r], l)
  BY <1>2, <1>4, <1>5, ChainsAreLanes DEF Candidates, MayServe
<1>7. Data'
  BY <1>1, <1>3 DEF Data
<1>8. CASE Dispatch(r, turn[r], l)
  BY <1>2, <1>6, <1>7, <1>8, DispatchIsSound
<1>9. CASE WalkOn(r, [turn[r] EXCEPT !.tried = @ \cup {l}], turn[r].walk \ {l})
  <2> DEFINE w == [turn[r] EXCEPT !.tried = @ \cup {l}]
  <2>1. l \in Lanes \ turn[r].tried
    BY <1>6 DEF MayServe
  <2>2. /\ w \in Turns /\ Balanced(w, 0)
        /\ w.tried = turn[r].tried \cup {l} /\ w.kind = turn[r].kind
    BY <1>2, <2>1, TriedIsBalanced
  <2>3. Candidates(w, turn[r].walk \ {l})
    <3> HIDE DEF w
    <3> QED BY <1>2, <2>2 DEF Candidates
  <2>4. WalkOn(r, w, turn[r].walk \ {l})
    BY <1>9
  <2> HIDE DEF w
  <2> QED BY <1>5, <1>7, <2>2, <2>3, <2>4, WalkIsSound
<1> QED BY <1>3, <1>8, <1>9

LEMMA LaneIsLostIsSound ==
  ASSUME IInv, NEW r \in Requests, LaneIsLost(r)
  PROVE  IInv'
<1> USE DEF IInv
<1>1. pc[r] = "sent" /\ UNCHANGED registered
  BY DEF LaneIsLost
<1>2. /\ turn[r] \in Turns /\ Balanced(turn[r], 1)
      /\ turn[r].lane \in Lanes \ turn[r].tried
  BY <1>1, AsATurn DEF Spare, MayServe
<1>3. CASE NextLane(r, [turn[r] EXCEPT !.tried = @ \cup {turn[r].lane}], lane_state)
  <2> DEFINE w == [turn[r] EXCEPT !.tried = @ \cup {turn[r].lane}]
  <2>1. w \in Turns /\ Balanced(w, 0)
    BY <1>2, TriedIsBalanced
  <2>2. NextLane(r, w, lane_state)
    BY <1>3
  <2> HIDE DEF w
  <2> QED BY <1>1, <2>1, <2>2, NextLaneIsSound DEF Data
<1>4. CASE Finish(r, "idle") /\ UNCHANGED <<lane_state, session_lane>>
  BY <1>1, <1>4, FinishIsSound DEF Data
<1> QED BY <1>3, <1>4 DEF LaneIsLost

LEMMA LaneIsSaturatedIsSound ==
  ASSUME IInv, NEW r \in Requests, NEW saturation \in BOOLEAN,
         LaneIsSaturated(r, saturation)
  PROVE  IInv'
<1> USE DEF IInv
<1> DEFINE l == turn[r].lane
           w == [turn[r] EXCEPT !.tried = @ \cup {l}]
           marked == IF turn[r].kind.constrained /\ ~saturation THEN lane_state
                     ELSE [lane_state EXCEPT ![l].open = FALSE]
           again == [w EXCEPT !.tried = @ \ {l}, !.retries = @ + 1]
<1>1. pc[r] = "sent" /\ UNCHANGED registered
  BY DEF LaneIsSaturated
<1>2. /\ turn[r] \in Turns /\ Balanced(turn[r], 1) /\ l \in Lanes \ turn[r].tried
  BY <1>1, AsATurn DEF Spare, MayServe
<1>3. w \in Turns /\ Balanced(w, 0) /\ w.tried = turn[r].tried \cup {l}
  BY <1>2, TriedIsBalanced
<1>4. marked \in [Lanes -> Verdicts]
  BY <1>2, StateOpens DEF Data
<1>5. CASE NextLane(r, w, marked)
  <2> HIDE DEF w, marked
  <2> QED BY <1>1, <1>3, <1>4, <1>5, NextLaneIsSound
<1>6. CASE /\ ShouldQueueRetry(w, saturation)
           /\ pc' = [pc EXCEPT ![r] = "sleeping"]
           /\ turn' = [turn EXCEPT ![r] = again]
           /\ lane_state' = [lane_state EXCEPT ![l].open = TRUE]
           /\ UNCHANGED session_lane
  <2>1. again \in Turns
    <3>1. w.tried \ {l} \in SUBSET Lanes /\ w.retries + 1 \in Nat
      BY <1>3 DEF Turns
    <3> HIDE DEF w
    <3> QED BY <1>3, <3>1 DEF Turns
  <2>2. /\ again.tried = turn[r].tried
        /\ again.retries = turn[r].retries + 1 /\ again.attempts = turn[r].attempts
        /\ w.retries = turn[r].retries
    BY <1>2 DEF Turns
  <2>3. /\ turn[r].attempts \in Nat /\ turn[r].retries \in Nat
        /\ turn[r].tried \subseteq Lanes
    BY <1>2 DEF Turns
  <2>4. Cardinality(turn[r].tried) \in Nat
    BY <2>3, LanesAssumption, FS_Subset, FS_CardinalityType
  <2>5. turn[r].retries < QueueRetries
    BY <1>6, <2>2 DEF ShouldQueueRetry
  <2>6. Balanced(again, 0)
    <3>1. turn[r].attempts <= Cardinality(turn[r].tried) + turn[r].retries + 1
      BY <1>2 DEF Balanced
    <3>2. /\ turn[r].retries + 1 <= QueueRetries
          /\ turn[r].attempts
               <= Cardinality(turn[r].tried) + (turn[r].retries + 1) + 0
      BY <2>3, <2>4, <2>5, <3>1, SwitchesAssumption
    <3> HIDE DEF again
    <3> QED BY <2>2, <3>2 DEF Balanced
  <2>7. Data'
    BY <1>1, <1>2, <1>6, StateOpens DEF Data
  <2>8. Sound("sleeping", again)
    BY <2>1, <2>6 DEF Sound, Spare
  <2>9. Control'
    <3> HIDE DEF again
    <3> QED BY <1>6, <2>8 DEF Control
  <2> QED BY <2>7, <2>9
<1>7. CASE Finish(r, "refused") /\ lane_state' = marked /\ UNCHANGED session_lane
  <2> HIDE DEF marked
  <2> QED BY <1>1, <1>4, <1>7, FinishIsSound DEF Data
<1> QED
  <2> HIDE DEF marked
  <2> QED BY <1>5, <1>6, <1>7 DEF LaneIsSaturated, marked

LEMMA WakeIsSound ==
  ASSUME IInv, NEW r \in Requests, Wake(r)
  PROVE  IInv'
<1>1. turn[r] \in Turns /\ Balanced(turn[r], 0)
  BY AsATurn DEF Wake, IInv, Spare
<1> QED BY <1>1, NextLaneIsSound DEF Wake, IInv, Data

LEMMA StepIsSound ==
  ASSUME IInv, [Next]_vars
  PROVE  IInv'
<1>1. ASSUME NEW r \in Requests, NEW k \in Kinds, Arrive(r, k) PROVE IInv'
  BY <1>1, ArriveIsSound
<1>2. ASSUME NEW r \in Requests, NEW v \in Verdicts, ProbeAnswers(r, v) PROVE IInv'
  BY <1>2, ProbeAnswersIsSound
<1>3. ASSUME NEW r \in Requests, LaneIsLost(r) PROVE IInv'
  BY <1>3, LaneIsLostIsSound
<1>4. ASSUME NEW r \in Requests, LaneAnswers(r) PROVE IInv'
  <2>1. Finish(r, "idle") /\ UNCHANGED <<lane_state, session_lane, registered>>
    BY <1>4 DEF LaneAnswers
  <2> QED BY <2>1, FinishIsSound DEF IInv, Data
<1>5. ASSUME NEW r \in Requests, NEW saturation \in BOOLEAN,
             LaneIsSaturated(r, saturation)
      PROVE  IInv'
  BY <1>5, LaneIsSaturatedIsSound
<1>6. ASSUME NEW r \in Requests, Wake(r) PROVE IInv'
  BY <1>6, WakeIsSound
<1>7. ASSUME NEW l \in Lanes, NEW v \in Verdicts, PollAnswers(l, v) PROVE IInv'
  BY <1>7 DEF PollAnswers, IInv, Control, Data
<1>8. ASSUME NEW l \in Lanes, PollFails(l) PROVE IInv'
  BY <1>8 DEF PollFails, IInv, Control, Data, Shut, Verdicts
<1>9. ASSUME NEW lanes \in Registries, Reload(lanes) PROVE IInv'
  BY <1>9, SwitchesAssumption DEF Reload, IInv, Control, Data
<1>10. CASE UNCHANGED vars
  BY <1>10 DEF vars, IInv, Control, Data
<1> QED BY <1>1, <1>2, <1>3, <1>4, <1>5, <1>6, <1>7, <1>8, <1>9, <1>10
        DEF Next, Progress

THEOREM Invariance == Spec => []IInv
<1>1. Init => IInv
  BY InitIsSound
<1>2. IInv /\ [Next]_vars => IInv'
  BY StepIsSound
<1> QED BY <1>1, <1>2, PTL DEF Spec

---------------------------------------------------------------------------
\* What follows from the invariant.

\* Every variable keeps its type (the module globals and _forward's locals).
THEOREM TypeOKHolds == Spec => []TypeOK
<1>1. IInv => TypeOK
  BY DEF IInv, Control, Data, Sound, TypeOK
<1> QED BY <1>1, Invariance, PTL

\* However many lanes, requests and retries: a request is sent once to each
\* lane and once more per retry (_attempt_lane, _spill_or_requeue).
THEOREM AttemptsBoundedHolds == Spec => []AttemptsBounded
<1>1. ASSUME IInv, NEW r \in Requests, pc[r] \in Active
      PROVE  /\ turn[r].attempts <= Cardinality(Lanes) + turn[r].retries
             /\ turn[r].retries <= QueueRetries
  <2>1. turn[r] \in Turns /\ Balanced(turn[r], Spare(pc[r]))
    BY <1>1, AsATurn DEF IInv
  <2>2. /\ turn[r].attempts \in Nat /\ turn[r].retries \in Nat
        /\ turn[r].tried \subseteq Lanes
    BY <2>1 DEF Turns
  <2>3. Cardinality(turn[r].tried) + Spare(pc[r]) <= Cardinality(Lanes)
    <3>1. /\ IsFiniteSet(turn[r].tried)
          /\ Cardinality(turn[r].tried) <= Cardinality(Lanes)
      BY <2>2, LanesAssumption, FS_Subset
    <3>2. CASE pc[r] = "sent"
      <4>1. turn[r].lane \in Lanes \ turn[r].tried
        BY <1>1, <3>2, AsATurn DEF IInv, MayServe
      <4>2. turn[r].tried \cup {turn[r].lane} \subseteq Lanes
        BY <2>2, <4>1
      <4>3. Cardinality(turn[r].tried \cup {turn[r].lane}) <= Cardinality(Lanes)
        BY <4>2, LanesAssumption, FS_Subset
      <4>4. Cardinality(turn[r].tried \cup {turn[r].lane})
              = Cardinality(turn[r].tried) + 1
        BY <3>1, <4>1, FS_AddElement
      <4> QED BY <3>2, <4>3, <4>4 DEF Spare
    <3>3. CASE pc[r] # "sent"
      <4>1. Cardinality(turn[r].tried) \in Nat
        BY <3>1, FS_CardinalityType
      <4> QED BY <3>1, <3>3, <4>1 DEF Spare
    <3> QED BY <3>2, <3>3
  <2>4. Cardinality(turn[r].tried) \in Nat /\ Cardinality(Lanes) \in Nat
    BY <2>2, LanesAssumption, FS_Subset, FS_CardinalityType
  <2>5. Spare(pc[r]) \in {0, 1}
    BY DEF Spare
  <2>6. /\ turn[r].retries <= QueueRetries
        /\ turn[r].attempts
             <= Cardinality(turn[r].tried) + turn[r].retries + Spare(pc[r])
    BY <2>1 DEF Balanced
  <2> HIDE DEF Spare
  <2> QED BY <2>2, <2>3, <2>4, <2>5, <2>6
<1>2. IInv => AttemptsBounded
  BY <1>1 DEF AttemptsBounded
<1> QED BY <1>2, Invariance, PTL

\* Without overflow no pin, spill or probe takes a generate request away from
\* Anthropic (_pinned_lane_choice, effective_chain).
THEOREM NeverDowngradedHolds == Spec => []NeverDowngraded
<1>1. IInv => NeverDowngraded
  BY AsATurn DEF IInv, NeverDowngraded, MayServe
<1> QED BY <1>1, Invariance, PTL

---------------------------------------------------------------------------
\* Who is sent where.

\* A step of r that ends it, lets it walk or lets it pause sends nobody.
LEMMA OnlyDispatchSends ==
  ASSUME Control, NEW r \in Requests, NEW q \in Requests, Sends(q)
  PROVE  /\ \A u, l : Dispatch(r, u, l) =>
              q = r /\ turn'[r] = [u EXCEPT !.lane = l, !.walk = {}, !.attempts = @ + 1]
         /\ \A how \in {"idle", "refused"} : ~Finish(r, how)
         /\ \A u, S : ~WalkOn(r, u, S)
<1>1. pc \in [Requests -> Active \cup {"idle", "refused"}] /\ DOMAIN turn = Requests
  BY DEF Control
<1>2. ASSUME NEW u, NEW l, Dispatch(r, u, l)
      PROVE  q = r /\ turn'[r] = [u EXCEPT !.lane = l, !.walk = {}, !.attempts = @ + 1]
  <2> DEFINE w == [u EXCEPT !.lane = l, !.walk = {}, !.attempts = @ + 1]
  <2>1. turn' = [turn EXCEPT ![r] = w]
    BY <1>2 DEF Dispatch
  <2> HIDE DEF w
  <2>2. turn'[r] = w /\ (q # r => turn'[q] = turn[q])
    BY <1>1, <2>1
  <2>3. q = r
    BY <2>2 DEF Sends
  <2> QED BY <2>2, <2>3 DEF w
<1>3. ASSUME NEW how \in {"idle", "refused"}, Finish(r, how)
      PROVE  FALSE
  BY <1>1, <1>3 DEF Finish, Sends
<1>4. ASSUME NEW u, NEW S, WalkOn(r, u, S)
      PROVE  FALSE
  <2>1. CASE Finish(r, "refused")
    BY <1>3, <2>1
  <2>2. CASE /\ pc' = [pc EXCEPT ![r] = "probing"]
             /\ turn' = [turn EXCEPT ![r] = [u EXCEPT !.walk = S]]
    <3> DEFINE w == [u EXCEPT !.walk = S]
    <3>1. turn' = [turn EXCEPT ![r] = w] /\ pc' = [pc EXCEPT ![r] = "probing"]
      BY <2>2
    <3> HIDE DEF w
    <3> QED BY <1>1, <3>1 DEF Sends
  <2> QED BY <1>4, <2>1, <2>2 DEF WalkOn
<1> QED BY <1>2, <1>3, <1>4

\* Whom NextLane sends: an unconstrained turn, to a lane of its chain if there
\* is a registry.  And whose pin it moves: not one that the registry holds.
LEMMA NextLaneSends ==
  ASSUME IInv, NEW r \in Requests, NEW u \in Turns, NEW state,
         NextLane(r, u, state)
  PROVE  /\ \A q \in Requests : Sends(q) =>
              /\ turn'[q].kind = u.kind /\ ~u.kind.constrained
              /\ HasRegistry => turn'[q].lane \in EffectiveChain(u.kind.role)
         /\ HasRegistry => \A s \in Sessions :
              session_lane[s] \in Lanes \ registered => session_lane'[s] = session_lane[s]
<1> USE DEF IInv
<1> DEFINE w == [u EXCEPT !.used_pin = TRUE]
<1>1. w \in Turns /\ w.kind = u.kind
  BY DEF Turns
<1>2. ASSUME NEW q \in Requests, Sends(q)
      PROVE  /\ turn'[q].kind = u.kind /\ ~u.kind.constrained
             /\ HasRegistry => turn'[q].lane \in EffectiveChain(u.kind.role)
  <2>1. ~u.kind.constrained /\ SelectLaneOnce(r, u, state)
    BY <1>2, OnlyDispatchSends DEF NextLane
  <2>2. PICK l \in PinnedChoice(u, state) \cup ChainChoice(u, state) : Dispatch(r, w, l)
    <3> HIDE DEF w
    <3> QED BY <1>2, <2>1, OnlyDispatchSends DEF SelectLaneOnce, w
  <2>3. HasRegistry => l \in EffectiveChain(u.kind.role)
    BY DEF PinnedChoice, ChainChoice, Firsts, OpenLanes
  <2>4. q = r /\ turn'[r] = [w EXCEPT !.lane = l, !.walk = {}, !.attempts = @ + 1]
    <3> HIDE DEF w
    <3> QED BY <1>2, <2>2, OnlyDispatchSends
  <2>5. turn'[q].kind = u.kind /\ turn'[q].lane = l
    <3> HIDE DEF w
    <3> QED BY <1>1, <2>4 DEF Turns
  <2> QED BY <2>1, <2>3, <2>5
<1>3. ASSUME HasRegistry, NEW s \in Sessions, session_lane[s] \in Lanes \ registered
      PROVE  session_lane'[s] = session_lane[s]
  <2>1. CASE UNCHANGED session_lane
    BY <2>1
  <2>2. CASE /\ ~HeldByRegistry(u.kind)
             /\ \E l \in Lanes \cup ChainChoice(u, state) :
                  session_lane' = [t \in Sessions |->
                    IF t = u.kind.session THEN l ELSE session_lane[t]]
    <3>1. s # u.kind.session
      <4>1. SUFFICES ASSUME s = u.kind.session PROVE FALSE
        OBVIOUS
      <4>2. Pin(u.kind) = session_lane[s]
        BY <4>1, LanesAssumption DEF Pin
      <4>3. Pin(u.kind) \notin EffectiveChain(u.kind.role)
        BY <1>3, <4>2 DEF EffectiveChain
      <4> QED BY <1>3, <2>2, <4>2, <4>3, LanesAssumption DEF HeldByRegistry
    <3> QED BY <2>2, <3>1
  <2> HIDE DEF w
  <2> QED BY <2>1, <2>2 DEF NextLane, SelectLaneOnce
<1> QED BY <1>2, <1>3

\* A probe sends its own request, to the lane that was probed, when the lane
\* is open, proven and a candidate at that moment.
LEMMA ProbeAnswersSends ==
  ASSUME IInv, NEW r \in Requests, NEW v \in Verdicts, ProbeAnswers(r, v),
         NEW q \in Requests, Sends(q)
  PROVE  /\ pc[q] = "probing"
         /\ turn'[q].kind = turn[q].kind
         /\ turn'[q].lane \in turn[q].walk
         /\ turn'[q].lane \in EffectiveChain(turn[q].kind.role)
         /\ lane_state'[turn'[q].lane] = [open |-> TRUE, proven |-> TRUE]
<1> USE DEF IInv
<1>1. pc[r] = "probing" /\ turn[r] \in Turns
  BY AsATurn DEF ProbeAnswers
<1>2. PICK l \in Firsts(turn[r].kind.role, turn[r].walk) :
        /\ lane_state' = [lane_state EXCEPT ![l] = v]
        /\ \/ /\ v.open /\ v.proven
              /\ l \in EffectiveChain(turn[r].kind.role)
              /\ Dispatch(r, turn[r], l)
           \/ WalkOn(r, [turn[r] EXCEPT !.tried = @ \cup {l}],
                     turn[r].walk \ {l})
  BY DEF ProbeAnswers
<1>3. ~WalkOn(r, [turn[r] EXCEPT !.tried = @ \cup {l}], turn[r].walk \ {l})
  BY OnlyDispatchSends
<1>4. /\ v.open /\ v.proven /\ l \in EffectiveChain(turn[r].kind.role)
      /\ Dispatch(r, turn[r], l)
  BY <1>2, <1>3
<1>5. q = r /\ turn'[r] = [turn[r] EXCEPT !.lane = l, !.walk = {}, !.attempts = @ + 1]
  BY <1>4, OnlyDispatchSends
<1>6. turn'[r].kind = turn[r].kind /\ turn'[r].lane = l
  BY <1>1, <1>5 DEF Turns
<1>7. l \in turn[r].walk /\ l \in Lanes
  BY <1>1, <1>2 DEF Firsts, Turns
<1>8. v = [open |-> TRUE, proven |-> TRUE]
  BY <1>4 DEF Verdicts
<1>9. lane_state'[l] = v
  BY <1>2, <1>7 DEF Data
<1> QED BY <1>1, <1>4, <1>5, <1>6, <1>7, <1>8, <1>9

\* Every other step that sends a request does so through NextLane.
LEMMA WhoSends ==
  ASSUME IInv, [Next]_vars
  PROVE  \/ \E r \in Requests, v \in Verdicts : ProbeAnswers(r, v)
         \/ \E r \in Requests, u \in Turns : \E state :
              NextLane(r, u, state) /\ UNCHANGED registered
         \/ /\ \A q \in Requests : ~Sends(q)
            /\ UNCHANGED session_lane
         \/ /\ \A q \in Requests : ~Sends(q)
            /\ \A s \in Sessions : session_lane'[s] \in {session_lane[s], NoLane}
<1> USE DEF IInv
<1>1. ASSUME NEW r \in Requests, NEW k \in Kinds, Arrive(r, k)
      PROVE  NewTurn(k) \in Turns /\ NextLane(r, NewTurn(k), lane_state)
               /\ UNCHANGED registered
  BY <1>1 DEF Arrive, NewTurn, Turns
<1>2. ASSUME NEW r \in Requests, LaneIsLost(r)
      PROVE  \/ \E u \in Turns : NextLane(r, u, lane_state) /\ UNCHANGED registered
             \/ (\A q \in Requests : ~Sends(q)) /\ UNCHANGED session_lane
  <2>1. /\ turn[r] \in Turns /\ Balanced(turn[r], 1)
        /\ turn[r].lane \in Lanes \ turn[r].tried
    BY <1>2, AsATurn DEF LaneIsLost, Spare, MayServe
  <2>2. [turn[r] EXCEPT !.tried = @ \cup {turn[r].lane}] \in Turns
    BY <2>1, TriedIsBalanced
  <2> QED BY <1>2, <2>2, OnlyDispatchSends DEF LaneIsLost
<1>3. ASSUME NEW r \in Requests, LaneAnswers(r)
      PROVE  (\A q \in Requests : ~Sends(q)) /\ UNCHANGED session_lane
  BY <1>3, OnlyDispatchSends DEF LaneAnswers
<1>4. ASSUME NEW r \in Requests, NEW saturation \in BOOLEAN,
             LaneIsSaturated(r, saturation)
      PROVE  \/ \E u \in Turns : \E state : NextLane(r, u, state) /\ UNCHANGED registered
             \/ (\A q \in Requests : ~Sends(q)) /\ UNCHANGED session_lane
  <2> DEFINE w == [turn[r] EXCEPT !.tried = @ \cup {turn[r].lane}]
             again == [w EXCEPT !.tried = @ \ {turn[r].lane}, !.retries = @ + 1]
  <2>1. /\ turn[r] \in Turns /\ Balanced(turn[r], 1)
        /\ turn[r].lane \in Lanes \ turn[r].tried
    BY <1>4, AsATurn DEF LaneIsSaturated, Spare, MayServe
  <2>2. w \in Turns
    BY <2>1, TriedIsBalanced
  <2>3. \/ \E state : NextLane(r, w, state)
        \/ /\ pc' = [pc EXCEPT ![r] = "sleeping"]
           /\ turn' = [turn EXCEPT ![r] = again]
           /\ UNCHANGED session_lane
        \/ Finish(r, "refused") /\ UNCHANGED session_lane
    <3> HIDE DEF again
    <3> QED BY <1>4 DEF LaneIsSaturated, again
  <2>4. CASE /\ pc' = [pc EXCEPT ![r] = "sleeping"]
             /\ turn' = [turn EXCEPT ![r] = again]
             /\ UNCHANGED session_lane
    <3> HIDE DEF again
    <3> QED BY <2>4 DEF Sends, Control
  <2>5. CASE \E state : NextLane(r, w, state)
    <3> HIDE DEF w
    <3> QED BY <1>4, <2>2, <2>5 DEF LaneIsSaturated
  <2>6. CASE Finish(r, "refused") /\ UNCHANGED session_lane
    BY <2>6, OnlyDispatchSends
  <2> HIDE DEF w, again
  <2> QED BY <2>3, <2>4, <2>5, <2>6
<1>5. ASSUME NEW r \in Requests, Wake(r)
      PROVE  turn[r] \in Turns /\ NextLane(r, turn[r], lane_state)
               /\ UNCHANGED registered
  BY <1>5, AsATurn DEF Wake
<1>6. ASSUME NEW l \in Lanes, NEW v \in Verdicts, PollAnswers(l, v)
      PROVE  /\ \A q \in Requests : ~Sends(q)
             /\ \A s \in Sessions : session_lane'[s] \in {session_lane[s], NoLane}
  BY <1>6 DEF PollAnswers, Sends
<1>7. ASSUME NEW l \in Lanes, PollFails(l)
      PROVE  (\A q \in Requests : ~Sends(q)) /\ UNCHANGED session_lane
  BY <1>7 DEF PollFails, Sends
<1>8. ASSUME NEW lanes \in Registries, Reload(lanes)
      PROVE  (\A q \in Requests : ~Sends(q)) /\ UNCHANGED session_lane
  BY <1>8 DEF Reload, Sends
<1>9. CASE UNCHANGED vars
  BY <1>9 DEF vars, Sends
<1> QED BY <1>1, <1>2, <1>3, <1>4, <1>5, <1>6, <1>7, <1>8, <1>9 DEF Next, Progress

\* A constrained request is served on its own probe of that lane, never on a
\* cached state (_select_constrained_lane).
THEOREM ServedOnProofHolds == Spec => ServedOnProof
<1>1. ASSUME IInv, [Next]_vars, NEW q \in Requests, Sends(q), turn'[q].kind.constrained
      PROVE  /\ pc[q] = "probing"
             /\ turn'[q].lane \in turn[q].walk
             /\ lane_state'[turn'[q].lane] = [open |-> TRUE, proven |-> TRUE]
  <2>1. CASE \E r \in Requests, v \in Verdicts : ProbeAnswers(r, v)
    BY <1>1, <2>1, ProbeAnswersSends
  <2>2. CASE \E r \in Requests, u \in Turns : \E state : NextLane(r, u, state)
    BY <1>1, <2>2, NextLaneSends
  <2> QED BY <1>1, <2>1, <2>2, WhoSends
<1>2. IInv /\ [Next]_vars =>
        [\A r \in Requests : Sends(r) /\ turn'[r].kind.constrained =>
           /\ pc[r] = "probing"
           /\ turn'[r].lane \in turn[r].walk
           /\ lane_state'[turn'[r].lane].open
           /\ lane_state'[turn'[r].lane].proven]_vars
  BY <1>1
<1> QED BY <1>2, Invariance, PTL DEF Spec, ServedOnProof

\* With a registry nothing is sent to a lane outside it, and no edit moves a
\* session's pin (_next_lane, _select_constrained_lane).
THEOREM RegistryIsObeyedHolds == Spec => RegistryIsObeyed
<1> DEFINE Serves(q) ==
             turn'[q].lane \in registered' \cap Range(RoleChain(turn'[q].kind.role))
           Stays(s) ==
             session_lane[s] \in Lanes \ registered =>
               session_lane'[s] \in {session_lane[s], NoLane}
<1>0. ASSUME HasRegistry, NEW role
      PROVE  EffectiveChain(role) \subseteq registered \cap Range(RoleChain(role))
  BY <1>0 DEF EffectiveChain
<1>1. ASSUME IInv, [Next]_vars, HasRegistry
      PROVE  /\ \A q \in Requests : Sends(q) => Serves(q)
             /\ \A s \in Sessions : Stays(s)
  <2>1. CASE \E r \in Requests, v \in Verdicts : ProbeAnswers(r, v)
    <3>1. UNCHANGED <<session_lane, registered>>
      BY <2>1 DEF ProbeAnswers
    <3>2. ASSUME NEW q \in Requests, Sends(q) PROVE Serves(q)
      <4>1. /\ turn'[q].lane \in EffectiveChain(turn[q].kind.role)
            /\ turn'[q].kind = turn[q].kind
        BY <1>1, <2>1, <3>2, ProbeAnswersSends
      <4> QED BY <1>0, <1>1, <3>1, <4>1
    <3> QED BY <3>1, <3>2
  <2>2. CASE \E r \in Requests, u \in Turns : \E state :
               NextLane(r, u, state) /\ UNCHANGED registered
    <3>0. PICK r \in Requests, u \in Turns :
               \E state : NextLane(r, u, state) /\ UNCHANGED registered
      BY <2>2
    <3>1. PICK state : NextLane(r, u, state) /\ UNCHANGED registered
      BY <3>0
    <3>2. ASSUME NEW q \in Requests, Sends(q) PROVE Serves(q)
      <4>1. /\ turn'[q].lane \in EffectiveChain(u.kind.role)
            /\ turn'[q].kind = u.kind
        BY <1>1, <3>1, <3>2, NextLaneSends
      <4> QED BY <1>0, <1>1, <3>1, <4>1
    <3>3. \A s \in Sessions : Stays(s)
      BY <1>1, <3>1, NextLaneSends
    <3> QED BY <3>2, <3>3
  <2>3. CASE /\ \A q \in Requests : ~Sends(q)
             /\ \A s \in Sessions : session_lane'[s] \in {session_lane[s], NoLane}
    BY <2>3
  <2>4. CASE (\A q \in Requests : ~Sends(q)) /\ UNCHANGED session_lane
    BY <2>4
  <2> HIDE DEF Serves, Stays
  <2> QED BY <1>1, <2>1, <2>2, <2>3, <2>4, WhoSends
<1>2. IInv /\ [Next]_vars =>
        [HasRegistry =>
           /\ \A r \in Requests : Sends(r) =>
                turn'[r].lane \in registered' \cap Range(RoleChain(turn'[r].kind.role))
           /\ \A s \in Sessions : session_lane[s] \in Lanes \ registered =>
                session_lane'[s] \in {session_lane[s], NoLane}]_vars
  BY <1>1
<1> QED BY <1>2, Invariance, PTL DEF Spec, RegistryIsObeyed

(* The three laws together, as the runs check them. *)
THEOREM DispatchIsLawfulHolds == Spec => DispatchIsLawful
BY NeverDowngradedHolds, ServedOnProofHolds, RegistryIsObeyedHolds DEF DispatchIsLawful
=============================================================================
