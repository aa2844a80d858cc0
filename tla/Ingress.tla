------------------------------ MODULE Ingress ------------------------------
(***************************************************************************)
(* The unified ingress of ingress.py: one process in front of the lanes    *)
(* (the sibling proxies), whose requests choose a lane by role, session    *)
(* pin and cached health, and spill to another one when a lane is          *)
(* saturated.                                                              *)
(*                                                                         *)
(* Everything shared is a module global of ingress.py: lane_state, the     *)
(* session pins and the registry.  A request runs without suspension from  *)
(* one await to the next; it awaits a health probe (a constrained request  *)
(* only), the lane's answer, and the pause before it queues again.  The    *)
(* health poll and the registry reload run beside it.  A request that was  *)
(* answered makes room for another one.                                    *)
(***************************************************************************)
EXTENDS Integers, Sequences, FiniteSets, Functions

CONSTANTS
  Requests,      \* the requests that may be open at the same time
  Lanes,         \* LANES, the configured lanes
  Sessions,      \* the session keys requests carry
  Kinds,         \* what a request may be, see the assumption
  Chain,         \* ROLE_CHAINS: role |-> lanes, most preferred first
  Overflow,      \* GENERATE_OVERFLOW_ENABLED
  QueueRetries,  \* GENERATE_QUEUE_RETRIES
  Registries,    \* what the registry file may list
  ActiveRouting, \* INGRESS_ACTIVE_ROUTING
  NoRegistry,    \* no INGRESS_PROVIDER_REGISTRY
  NoLane,        \* no lane chosen or pinned
  NoSession      \* a request without a session key

ASSUME LanesAssumption ==
  /\ IsFiniteSet(Lanes) /\ "anthropic" \in Lanes
  /\ NoLane \notin Lanes /\ NoSession \notin Sessions
  /\ \A lanes \in SUBSET Lanes : lanes # NoRegistry
ASSUME ChainAssumption ==
  /\ "generate" \in DOMAIN Chain
  /\ \A role \in DOMAIN Chain : Chain[role] \in Seq(Lanes)
ASSUME KindsAssumption ==
  Kinds \subseteq [role: DOMAIN Chain, session: Sessions \cup {NoSession},
                   constrained: BOOLEAN, buffered: BOOLEAN]
ASSUME SwitchesAssumption ==
  /\ Overflow \in BOOLEAN /\ ActiveRouting \in BOOLEAN
  /\ QueueRetries \in Nat /\ Registries \subseteq SUBSET Lanes

VARIABLES
  pc,           \* where each request is
  turn,         \* the local variables of _forward, per request
  lane_state,   \* the cached verdict on each lane
  session_lane, \* _session_lane: the lane a session is pinned to
  registered    \* _registry_lanes

vars == <<pc, turn, lane_state, session_lane, registered>>

\* A verdict: is the lane open, and is it a subscription with capacity left
\* (credential_mode and credential_capacity_ok).
Verdicts == [open: BOOLEAN, proven: BOOLEAN]

\* A failed probe.
Shut == [open |-> FALSE, proven |-> FALSE]

\* The locals of _forward.  walk holds the candidates a constrained request
\* has still to probe, attempts counts what was sent to a lane.
Turns == [kind: Kinds, tried: SUBSET Lanes, retries: Nat, used_pin: BOOLEAN,
          lane: Lanes \cup {NoLane}, walk: SUBSET Lanes, attempts: Nat]

NoTurn == [lane |-> NoLane]

NewTurn(k) == [kind |-> k, tried |-> {}, retries |-> 0, used_pin |-> FALSE,
               lane |-> NoLane, walk |-> {}, attempts |-> 0]

Active == {"probing", "sent", "sleeping"}

TypeOK ==
  /\ pc \in [Requests -> Active \cup {"idle", "refused"}]
  /\ \A r \in Requests : turn[r] \in IF pc[r] \in Active THEN Turns ELSE {NoTurn}
  /\ DOMAIN turn = Requests
  /\ lane_state \in [Lanes -> Verdicts]
  /\ session_lane \in [Sessions -> Lanes \cup {NoLane}]
  /\ registered = NoRegistry \/ registered \in SUBSET Lanes

---------------------------------------------------------------------------
\* The chain of a role.

HasRegistry == registered # NoRegistry

RoleChain(role) ==
  IF role = "generate" /\ ~Overflow THEN <<"anthropic">> ELSE Chain[role]

EffectiveChain(role) ==
  {l \in Range(RoleChain(role)) : HasRegistry => l \in registered}

\* The lane of S that comes first in the chain of the role, as a set.
Firsts(role, S) ==
  LET chain == RoleChain(role)
  IN {l \in S : \E i \in DOMAIN chain :
                  chain[i] = l /\ \A j \in 1..(i - 1) : chain[j] \notin S}

OpenLanes(role, state) == {l \in EffectiveChain(role) : state[l].open}

---------------------------------------------------------------------------
\* Choosing a lane.  These operators take the turn and the lane states as
\* they are after what the same step did to them.

Pin(k) == IF k.session = NoSession THEN NoLane ELSE session_lane[k.session]


PinnedChoice(u, state) ==
  {l \in {Pin(u.kind)} \ (u.tried \cup {NoLane}) :
     /\ ~u.used_pin
     /\ HasRegistry => l \in EffectiveChain(u.kind.role)
     /\ state[l].open
     /\ u.kind.role = "generate" /\ ~Overflow => l = "anthropic"}

\* With active routing any open lane that was not tried may rank first, and
\* an error falls back to the first open lane, tried or not.
ChainChoice(u, state) ==
  LET open == OpenLanes(u.kind.role, state)
  IN Firsts(u.kind.role, open)
       \cup (IF ActiveRouting THEN open \ u.tried ELSE {})

HeldByRegistry(k) ==
  HasRegistry /\ Pin(k) # NoLane /\ Pin(k) \notin EffectiveChain(k.role)

Dispatch(r, u, l) ==
  /\ pc' = [pc EXCEPT ![r] = "sent"]
  /\ turn' = [turn EXCEPT ![r] =
                [u EXCEPT !.lane = l, !.walk = {}, !.attempts = @ + 1]]


Finish(r, how) ==
  /\ pc' = [pc EXCEPT ![r] = how]
  /\ turn' = [turn EXCEPT ![r] = NoTurn]

\* A constrained request asks the candidates one by one for their state.
WalkOn(r, u, candidates) ==
  \/ candidates = {} /\ Finish(r, "refused")
  \/ /\ candidates # {}
     /\ pc' = [pc EXCEPT ![r] = "probing"]
     /\ turn' = [turn EXCEPT ![r] = [u EXCEPT !.walk = candidates]]

SelectLaneOnce(r, u, state) ==
  LET consulted == [u EXCEPT !.used_pin = TRUE]
      pinned == PinnedChoice(u, state)
      chosen == ChainChoice(u, state)
  IN \/ /\ \E l \in pinned : Dispatch(r, consulted, l)
        /\ UNCHANGED session_lane
     \/ /\ pinned = {}
        /\ \E l \in chosen \ u.tried :
             /\ Dispatch(r, consulted, l)
             /\ session_lane' = [s \in Sessions |->
                  IF s = u.kind.session THEN l ELSE session_lane[s]]
     \/ /\ pinned = {}
        /\ chosen = {} \/ chosen \cap u.tried # {}
        /\ Finish(r, "refused")
        /\ UNCHANGED session_lane


NextLane(r, u, state) ==
  /\ lane_state' = state
  /\ \/ /\ HeldByRegistry(u.kind)
        /\ Finish(r, "refused")
        /\ UNCHANGED session_lane
     \/ /\ ~HeldByRegistry(u.kind)
        /\ u.kind.constrained
        /\ WalkOn(r, u, EffectiveChain(u.kind.role) \ u.tried)
        /\ UNCHANGED session_lane
     \/ /\ ~HeldByRegistry(u.kind)
        /\ ~u.kind.constrained
        /\ SelectLaneOnce(r, u, state)

---------------------------------------------------------------------------
\* Requests.

\* _forward has read the body and knows the request's kind.
Arrive(r, k) ==
  /\ pc[r] \in {"idle", "refused"}
  /\ NextLane(r, NewTurn(k), lane_state)
  /\ UNCHANGED registered

\* Variant: a registry edit during the probe goes unnoticed.
ProbeAnswersUnchecked(r, v) ==
  /\ pc[r] = "probing"
  /\ \E l \in Firsts(turn[r].kind.role, turn[r].walk) :
       /\ lane_state' = [lane_state EXCEPT ![l] = v]
       /\ IF v.open /\ v.proven THEN Dispatch(r, turn[r], l)
          ELSE WalkOn(r, [turn[r] EXCEPT !.tried = @ \cup {l}], turn[r].walk \ {l})
  /\ UNCHANGED <<session_lane, registered>>

\* Variant: a rejected candidate is asked again.
ProbeAnswersAgain(r, v) ==
  /\ pc[r] = "probing"
  /\ \E l \in Firsts(turn[r].kind.role, turn[r].walk) :
       /\ lane_state' = [lane_state EXCEPT ![l] = v]
       /\ IF v.open /\ v.proven THEN Dispatch(r, turn[r], l)
          ELSE WalkOn(r, turn[r], turn[r].walk)
  /\ UNCHANGED <<session_lane, registered>>

\* The probed lane has answered, or the probe has failed.  Membership is read
\* again: the registry may have changed meanwhile.
ProbeAnswers(r, v) ==
  /\ pc[r] = "probing"
  /\ \E l \in Firsts(turn[r].kind.role, turn[r].walk) :
       /\ lane_state' = [lane_state EXCEPT ![l] = v]
       /\ \/ /\ v.open /\ v.proven
             /\ l \in EffectiveChain(turn[r].kind.role)
             /\ Dispatch(r, turn[r], l)
          \/ /\ \/ ~v.open \/ ~v.proven
                \/ l \notin EffectiveChain(turn[r].kind.role)
             /\ WalkOn(r, [turn[r] EXCEPT !.tried = @ \cup {l}],
                       turn[r].walk \ {l})
  /\ UNCHANGED <<session_lane, registered>>

\* Variant: the lane that was lost is not marked as tried.
LaneIsLostUntried(r) ==
  /\ pc[r] = "sent" /\ turn[r].kind.constrained
  /\ NextLane(r, turn[r], lane_state)
  /\ UNCHANGED registered

\* The transport fails: a constrained request goes on to the next candidate,
\* any other is answered with 503 or 504.
LaneIsLost(r) ==
  /\ pc[r] = "sent"
  /\ \/ /\ turn[r].kind.constrained
        /\ NextLane(r, [turn[r] EXCEPT !.tried = @ \cup {turn[r].lane}],
                    lane_state)
     \/ /\ ~turn[r].kind.constrained
        /\ Finish(r, "idle")
        /\ UNCHANGED <<lane_state, session_lane>>
  /\ UNCHANGED registered

\* An answer that is not retryable, or of a request that cannot be sent twice.
LaneAnswers(r) ==
  /\ pc[r] = "sent"
  /\ Finish(r, "idle")
  /\ UNCHANGED <<lane_state, session_lane, registered>>

Retryable(k, saturation) ==
  k.buffered /\ (saturation \/ k.role \in {"generate", "code"})

HasSpillTarget(u, state) ==
  IF u.kind.constrained
  THEN EffectiveChain(u.kind.role) \ u.tried # {}
  ELSE \E l \in Firsts(u.kind.role, OpenLanes(u.kind.role, state)) :
         l \notin u.tried

ShouldQueueRetry(u, saturation) ==
  /\ u.kind.role = "generate"
  /\ u.retries < QueueRetries
  /\ ~u.kind.constrained \/ saturation

\* The lane's queue-wait timeout (saturation) or a bare 429.
LaneIsSaturated(r, saturation) ==
  LET l == turn[r].lane
      u == [turn[r] EXCEPT !.tried = @ \cup {l}]
      marked == IF u.kind.constrained /\ ~saturation THEN lane_state
                ELSE [lane_state EXCEPT ![l].open = FALSE]
  IN /\ pc[r] = "sent"
     /\ Retryable(turn[r].kind, saturation)
     /\ \/ /\ HasSpillTarget(u, marked)
           /\ NextLane(r, u, marked)
        \/ /\ ~HasSpillTarget(u, marked)
           /\ ShouldQueueRetry(u, saturation)
           /\ pc' = [pc EXCEPT ![r] = "sleeping"]
           /\ turn' = [turn EXCEPT ![r] =
                [u EXCEPT !.tried = @ \ {l}, !.retries = @ + 1]]
           /\ lane_state' = [lane_state EXCEPT ![l].open = TRUE]
           /\ UNCHANGED session_lane
        \/ /\ ~HasSpillTarget(u, marked)
           /\ ~ShouldQueueRetry(u, saturation)
           /\ Finish(r, "refused")
           /\ lane_state' = marked
           /\ UNCHANGED session_lane
     /\ UNCHANGED registered

Wake(r) ==
  /\ pc[r] = "sleeping"
  /\ NextLane(r, turn[r], lane_state)
  /\ UNCHANGED registered

---------------------------------------------------------------------------
\* The health loop.

\* A lane that answers a poll with a closed verdict loses its sessions.
PollAnswers(l, v) ==
  /\ lane_state' = [lane_state EXCEPT ![l] = v]
  /\ session_lane' = [s \in Sessions |->
       IF session_lane[s] = l /\ ~v.open THEN NoLane ELSE session_lane[s]]
  /\ UNCHANGED <<pc, turn, registered>>

\* One that does not answer keeps them: _poll_one_lane has returned.
PollFails(l) ==
  /\ lane_state' = [lane_state EXCEPT ![l] = Shut]
  /\ UNCHANGED <<pc, turn, session_lane, registered>>

\* An unreadable file keeps the last good policy.
Reload(lanes) ==
  /\ HasRegistry
  /\ registered' = lanes
  /\ UNCHANGED <<pc, turn, lane_state, session_lane>>

---------------------------------------------------------------------------
\* The first poll is over.  The registry is switched off, or was read, or is
\* empty because it could not be read.
Init ==
  /\ pc = [r \in Requests |-> "idle"]
  /\ turn = [r \in Requests |-> NoTurn]
  /\ lane_state \in [Lanes -> Verdicts]
  /\ session_lane = [s \in Sessions |-> NoLane]
  /\ registered \in Registries \cup {{}, NoRegistry}

\* What an open request waits for happens.
Progress(r) ==
  \/ \E v \in Verdicts : ProbeAnswers(r, v)
  \/ LaneIsLost(r)
  \/ LaneAnswers(r)
  \/ \E saturation \in BOOLEAN : LaneIsSaturated(r, saturation)
  \/ Wake(r)

Next ==
  \/ \E r \in Requests : (\E k \in Kinds : Arrive(r, k)) \/ Progress(r)
  \/ \E l \in Lanes : (\E v \in Verdicts : PollAnswers(l, v)) \/ PollFails(l)
  \/ \E lanes \in Registries : Reload(lanes)

Spec == Init /\ [][Next]_vars

\* Every probe is answered or times out, every lane answers or is lost, every
\* pause ends.
FairSpec == Spec /\ \A r \in Requests : WF_vars(Progress(r))

---------------------------------------------------------------------------
\* Correctness.

\* An overloaded fleet is not amplified: a request reaches each lane once,
\* and once more for every time it has queued, whatever the other requests,
\* the polls and the pins do to the lane states in between (_forward).
AttemptsBounded ==
  \A r \in Requests : pc[r] \in Active =>
    /\ turn[r].attempts <= Cardinality(Lanes) + turn[r].retries
    /\ turn[r].retries <= QueueRetries

\* Without overflow a generate request is never served by another lane than
\* Anthropic, even in a session that requests of other roles have pinned
\* elsewhere (invariant 6, _pinned_lane_choice).
NeverDowngraded ==
  \A r \in Requests :
    pc[r] = "sent" /\ turn[r].kind.role = "generate" /\ ~Overflow
      => turn[r].lane = "anthropic"

\* r is sent to a lane by this step.
Sends(r) == pc'[r] = "sent" /\ turn'[r] # turn[r]

\* A constrained request is sent to a lane only on that lane's own answer to
\* that request's own probe, open, subscribed and with capacity: a cached
\* state never serves it (_select_constrained_lane).
ServedOnProof ==
  [][\A r \in Requests : Sends(r) /\ turn'[r].kind.constrained =>
       /\ pc[r] = "probing"
       /\ turn'[r].lane \in turn[r].walk
       /\ lane_state'[turn'[r].lane].open
       /\ lane_state'[turn'[r].lane].proven]_vars

\* With a registry, every request is sent to a lane that is registered at
\* that moment and belongs to its role, wherever the choice came from: the
\* chain, a pin, a probe that was out while the registry changed.  And an edit
\* "is not permission to migrate": the pin of a session on a lane that is no
\* longer registered is not moved to another lane (_next_lane).
RegistryIsObeyed ==
  [][HasRegistry =>
       /\ \A r \in Requests : Sends(r) =>
            turn'[r].lane \in registered' \cap Range(RoleChain(turn'[r].kind.role))
       /\ \A s \in Sessions : session_lane[s] \in Lanes \ registered =>
            session_lane'[s] \in {session_lane[s], NoLane}]_vars

\* Every request is sent where its kind, the registry and the proof it asked for
\* allow, at that moment and by whatever way the lane was chosen.
DispatchIsLawful == []NeverDowngraded /\ ServedOnProof /\ RegistryIsObeyed

\* A saturated lane's 503 reaches the client only when every other lane of the
\* chain is closed or was tried by this request: "retries the NEXT lane in the
\* role's chain - instead of passing the 503 through" (_forward's docstring).
SpillsDownTheChain ==
  [][\A r \in Requests :
       /\ pc[r] = "sent" /\ pc'[r] = "refused"
       /\ ~turn[r].kind.constrained /\ ~HasRegistry
       => OpenLanes(turn[r].kind.role, lane_state')
            \subseteq turn[r].tried \cup {turn[r].lane}]_vars

\* Every request is answered: spilling, probing and queueing come to an end
\* (_forward's loop).
EveryRequestEnds ==
  \A r \in Requests : (pc[r] \in Active) ~> (pc[r] \notin Active)
=============================================================================
