-------------------------- MODULE ProbeGateProofs ---------------------------
(***************************************************************************)
(* Theorems about ProbeGate for any number of bearers and calls, any       *)
(* windows and any mix of held and plain calls.                            *)
(*                                                                         *)
(* Two invariants, proved along the same steps.  KeptInv holds whatever    *)
(* upstream answers: a gate in flight has a prober and is in force, a      *)
(* lease is on its holder's route, and who waits unwoken waits for a gate  *)
(* in flight.  A new route overwrites the call's lease, so it says where a *)
(* call can still have one (LeaselessWaiter).                              *)
(*                                                                         *)
(* SoleInv holds while no credential is refused (a quarantine drops a gate *)
(* under its prober: see the README).  A claim looks at the gate's         *)
(* inflight flag and not at the other calls, so SingleProbe needs the flag *)
(* to be up while a lease is out (FlagWhileLeased).                        *)
(***************************************************************************)
EXTENDS ProbeGate, TLAPS

\* The flag of a gate is up as long as somebody holds its lease.
FlagWhileLeased == \A r \in Calls : lease[r] # NoLease => inflight[lease[r]]

\* A call that has not arrived, sleeps before routing afresh, or waits for
\* another call's probe has no lease to lose.
LeaselessWaiter ==
  \A r \in Calls : pc[r] \in {"idle", "sleep", "probe", "alternate"} => lease[r] = NoLease

\* A probe is in flight only on a gate in force.
FlightIsRequired == \A b \in Bearers : inflight[b] => required[b]

Places == {"idle", "gate", "sleep", "park", "probe", "alternate", "ended"} \cup Slotted
Waits == {"probe", "alternate"}

LeaseTypes ==
  /\ required \in [Bearers -> BOOLEAN] /\ inflight \in [Bearers -> BOOLEAN]
  /\ bid \in [Calls -> Bearers] /\ on \in [Calls -> Bearers]
  /\ lease \in [Calls -> Bearers \cup {NoLease}]
  /\ pc \in [Calls -> Places]

KeptInv ==
  LeaseTypes /\ FlightIsRequired /\ ProbeIsOwned /\ LeaseOnRoute /\ LeaselessWaiter /\ NoLostWakeUp

SoleInv == SingleProbe /\ FlagWhileLeased

\* What every step is shown to do.
Keeps == KeptInv' /\ (SoleInv /\ "refused" \notin Answers => SoleInv')

LEMMA InitInvs == ASSUME GateAssumption PROVE Init => KeptInv /\ SoleInv
<1> SUFFICES ASSUME Init PROVE KeptInv /\ SoleInv
  OBVIOUS
<1>1. LeaseTypes
  BY DEF GateAssumption, Init, LeaseTypes, Places
<1>2. FlightIsRequired /\ ProbeIsOwned /\ LeaseOnRoute /\ LeaselessWaiter
  BY DEF GateAssumption, Init, FlightIsRequired, ProbeIsOwned, LeaseOnRoute, LeaselessWaiter
<1>3. NoLostWakeUp
  BY DEF Init, NoLostWakeUp, Awaiting
<1>4. SoleInv
  BY DEF GateAssumption, Init, SoleInv, SingleProbe, Probers, FlagWhileLeased
<1> QED BY <1>1, <1>2, <1>3, <1>4 DEF KeptInv

\* Giving up a lease, wherever the call goes on from there: the gate it was for is no
\* longer in flight and its waiters are woken, and so it may be opened.
LEMMA LeaseGivenUp ==
  ASSUME GateAssumption, KeptInv, NEW r \in Calls, NEW where \in Places \ Waits, NEW b \in Bearers,
         NEW home \in Bearers, NEW live \in BOOLEAN,
         live = (lease[r] # NoLease /\ inflight[lease[r]]),
         lease' = [lease EXCEPT ![r] = NoLease],
         inflight' = IF live THEN [inflight EXCEPT ![lease[r]] = FALSE] ELSE inflight,
         required' \in [Bearers -> BOOLEAN],
         \A c \in Bearers : required[c] => required'[c] \/ (live /\ c = lease[r]),
         (IF live THEN woken \cup Awaiting(lease[r]) ELSE woken) \ {r} \subseteq woken',
         pc' = [pc EXCEPT ![r] = where], bid' = [bid EXCEPT ![r] = b], on' = [on EXCEPT ![r] = home]
  PROVE  Keeps
<1>1. LeaseTypes'
  BY DEF KeptInv, LeaseTypes, Places
<1>2. FlightIsRequired' /\ ProbeIsOwned'
  BY DEF GateAssumption, KeptInv, LeaseTypes, FlightIsRequired, ProbeIsOwned, Probers
<1>3. LeaseOnRoute' /\ LeaselessWaiter'
  BY DEF KeptInv, LeaseTypes, LeaseOnRoute, LeaselessWaiter
<1>4. NoLostWakeUp'
  <2> SUFFICES ASSUME NEW c \in Bearers, NEW q \in Calls, pc'[q] \in Waits, on'[q] = c, q \notin woken'
               PROVE  required'[c] /\ inflight'[c]
    BY DEF NoLostWakeUp, Awaiting, Waits
  <2>1. q # r /\ pc[q] \in Waits /\ on[q] = c /\ q \notin woken
    BY DEF KeptInv, LeaseTypes
  <2>2. required[c] /\ inflight[c]
    BY <2>1 DEF KeptInv, NoLostWakeUp, Awaiting, Waits
  <2>3. ~(live /\ c = lease[r])
    BY <2>1 DEF Awaiting, Waits
  <2> QED BY <2>2, <2>3 DEF KeptInv, LeaseTypes
<1>5. SoleInv => SoleInv'
  BY DEF GateAssumption, KeptInv, LeaseTypes, SoleInv, SingleProbe, Probers, FlagWhileLeased
<1> QED BY <1>1, <1>2, <1>3, <1>4, <1>5 DEF Keeps, KeptInv

\* A step that finishes the probe does just that to the leases.
LEMMA FinishKeepsLeases ==
  ASSUME GateAssumption, KeptInv, NEW r \in Calls, NEW ok \in BOOLEAN, FinishProbe(r, ok),
         NEW where \in Places \ Waits, pc' = [pc EXCEPT ![r] = where],
         NEW b \in Bearers, bid' = [bid EXCEPT ![r] = b],
         NEW home \in Bearers, on' = [on EXCEPT ![r] = home]
  PROVE  Keeps
<1> DEFINE live == lease[r] # NoLease /\ inflight[lease[r]]
<1>1. /\ required' \in [Bearers -> BOOLEAN]
      /\ \A c \in Bearers : required[c] => required'[c] \/ (live /\ c = lease[r])
  BY DEF FinishProbe, KeptInv, LeaseTypes
<1>2. /\ lease' = [lease EXCEPT ![r] = NoLease]
      /\ inflight' = IF live THEN [inflight EXCEPT ![lease[r]] = FALSE] ELSE inflight
      /\ (IF live THEN woken \cup Awaiting(lease[r]) ELSE woken) \ {r} \subseteq woken'
  BY DEF FinishProbe
<1>3. live \in BOOLEAN
  BY DEF KeptInv, LeaseTypes
<1> HIDE DEF live
<1>4. live = (lease[r] # NoLease /\ inflight[lease[r]])
  BY DEF live
<1> QED BY <1>1, <1>2, <1>3, <1>4, LeaseGivenUp

\* A call without a lease may be routed anywhere, whoever keeps its lease must keep its
\* route, and a call begins to wait only for a gate in flight; no flag is touched and no
\* gate opened.
LEMMA MoveKeepsLeases ==
  ASSUME GateAssumption, KeptInv, NEW r \in Calls, NEW where \in Places, NEW b \in Bearers,
         UNCHANGED <<inflight, lease>>, required' \in [Bearers -> BOOLEAN],
         \A c \in Bearers : required[c] => required'[c],
         pc' = [pc EXCEPT ![r] = where], bid' = [bid EXCEPT ![r] = b],
         b = bid[r] \/ lease[r] = NoLease,
         where \in {"idle", "sleep"} \cup Waits => lease[r] = NoLease,
         on' \in [Calls -> Bearers], \A q \in Calls \ {r} : on'[q] = on[q],
         woken \ {r} \subseteq woken',
         where \in Waits => required[on'[r]] /\ inflight[on'[r]]
  PROVE  Keeps
<1>1. LeaseTypes'
  BY DEF KeptInv, LeaseTypes, Places
<1>2. FlightIsRequired' /\ ProbeIsOwned'
  BY DEF GateAssumption, KeptInv, LeaseTypes, FlightIsRequired, ProbeIsOwned, Probers
<1>3. LeaseOnRoute' /\ LeaselessWaiter'
  BY DEF KeptInv, LeaseTypes, LeaseOnRoute, LeaselessWaiter, Waits
<1>4. NoLostWakeUp'
  <2> SUFFICES ASSUME NEW c \in Bearers, NEW q \in Calls, pc'[q] \in Waits, on'[q] = c, q \notin woken'
               PROVE  required'[c] /\ inflight'[c]
    BY DEF NoLostWakeUp, Awaiting, Waits
  <2>1. CASE q = r
    BY <2>1 DEF KeptInv, LeaseTypes
  <2>2. CASE q # r
    <3>1. pc[q] \in Waits /\ on[q] = c /\ q \notin woken
      BY <2>2 DEF KeptInv, LeaseTypes
    <3> QED BY <3>1 DEF KeptInv, NoLostWakeUp, Awaiting, Waits
  <2> QED BY <2>1, <2>2
<1>5. SoleInv => SoleInv'
  BY DEF GateAssumption, KeptInv, LeaseTypes, SoleInv, SingleProbe, Probers, FlagWhileLeased
<1> QED BY <1>1, <1>2, <1>3, <1>4, <1>5 DEF Keeps, KeptInv

\* A gate whose flag is down has no prober while no credential is refused, so claiming it
\* makes exactly one.
LEMMA ClaimKeepsLeases ==
  ASSUME GateAssumption, KeptInv, NEW r \in Calls, lease[r] = NoLease, NEW b \in Bearers,
         NEW where \in {"gate", "queued"}, ~inflight[b], required[b],
         inflight' = [inflight EXCEPT ![b] = TRUE], lease' = [lease EXCEPT ![r] = b],
         UNCHANGED <<required, on>>, woken \ {r} \subseteq woken',
         pc' = [pc EXCEPT ![r] = where], bid' = [bid EXCEPT ![r] = b]
  PROVE  Keeps
<1>1. LeaseTypes'
  BY DEF KeptInv, LeaseTypes, Places, Slotted
<1>2. FlightIsRequired' /\ ProbeIsOwned'
  BY DEF GateAssumption, KeptInv, LeaseTypes, FlightIsRequired, ProbeIsOwned, Probers
<1>3. LeaseOnRoute' /\ LeaselessWaiter'
  BY DEF KeptInv, LeaseTypes, LeaseOnRoute, LeaselessWaiter
<1>4. NoLostWakeUp'
  <2> SUFFICES ASSUME NEW c \in Bearers, NEW q \in Calls, pc'[q] \in Waits, on'[q] = c, q \notin woken'
               PROVE  required'[c] /\ inflight'[c]
    BY DEF NoLostWakeUp, Awaiting, Waits
  <2>1. q # r /\ pc[q] \in Waits /\ on[q] = c /\ q \notin woken
    BY DEF KeptInv, LeaseTypes, Waits
  <2> QED BY <2>1 DEF KeptInv, LeaseTypes, NoLostWakeUp, Awaiting, Waits
<1>5. SoleInv => SoleInv'
  BY DEF GateAssumption, KeptInv, LeaseTypes, SoleInv, SingleProbe, Probers, FlagWhileLeased
<1> QED BY <1>1, <1>2, <1>3, <1>4, <1>5 DEF Keeps, KeptInv

\* A new route, with the claim of the gate that it may bring.
LEMMA RouteKeepsLeases ==
  ASSUME GateAssumption, KeptInv, NEW r \in Calls, lease[r] = NoLease,
         RouteAndClaim(r), pc' = [pc EXCEPT ![r] = "gate"],
         UNCHANGED on, woken \ {r} \subseteq woken'
  PROVE  Keeps
<1>1. PICK t \in RouteTo(r) :
        /\ bid' = [bid EXCEPT ![r] = t]
        /\ lease' = [lease EXCEPT ![r] = IF MayClaim(t) THEN t ELSE NoLease]
        /\ inflight' = [inflight EXCEPT ![t] = @ \/ MayClaim(t)]
        /\ UNCHANGED required
  BY DEF RouteAndClaim
<1>2. t \in Bearers
  BY DEF RouteTo, GateAssumption
<1>3. CASE MayClaim(t)
  <2>1. /\ ~inflight[t] /\ required[t]
        /\ inflight' = [inflight EXCEPT ![t] = TRUE] /\ lease' = [lease EXCEPT ![r] = t]
    BY <1>1, <1>2, <1>3 DEF MayClaim, KeptInv, LeaseTypes
  <2> QED BY <1>1, <1>2, <2>1, ClaimKeepsLeases
<1>4. CASE ~MayClaim(t)
  <2>1. inflight' = inflight
    BY <1>1, <1>2, <1>4 DEF KeptInv, LeaseTypes
  <2>2. lease' = lease
    BY <1>1, <1>2, <1>4 DEF KeptInv, LeaseTypes
  <2>3. required' \in [Bearers -> BOOLEAN] /\ on' \in [Calls -> Bearers]
    BY <1>1 DEF KeptInv, LeaseTypes
  <2> QED BY <1>1, <1>2, <2>1, <2>2, <2>3, MoveKeepsLeases DEF Places, Waits
<1> QED BY <1>3, <1>4

-----------------------------------------------------------------------------
(* The steps. *)

\* What a step leaves alone, in the form the lemmas above ask for.
LEMMA LeftAlone ==
  ASSUME KeptInv, NEW r \in Calls
  PROVE  /\ bid[r] \in Bearers /\ (bid' = bid => bid' = [bid EXCEPT ![r] = bid[r]])
         /\ required' = required => required' \in [Bearers -> BOOLEAN]
         /\ on[r] \in Bearers
         /\ on' = on => on' \in [Calls -> Bearers] /\ on' = [on EXCEPT ![r] = on[r]]
         /\ NeedsProbe(r) => lease[r] = NoLease
BY DEF KeptInv, LeaseTypes, NeedsProbe, LeaseOnRoute

\* A call that goes somewhere else and keeps what it has; no gate changes.
LEMMA StayKeepsLeases ==
  ASSUME GateAssumption, KeptInv, NEW r \in Calls, NEW where \in Places,
         UNCHANGED <<required, inflight, lease, bid, on>>,
         pc' = [pc EXCEPT ![r] = where], where \in {"idle", "sleep"} \cup Waits => lease[r] = NoLease,
         where \in Waits => required[on[r]] /\ inflight[on[r]],
         woken \ {r} \subseteq woken'
  PROVE  Keeps
<1>1. /\ required' \in [Bearers -> BOOLEAN] /\ on' \in [Calls -> Bearers]
      /\ bid' = [bid EXCEPT ![r] = bid[r]] /\ bid[r] \in Bearers
      /\ \A c \in Bearers : required[c] => required'[c]
      /\ \A q \in Calls \ {r} : on'[q] = on[q]
  BY LeftAlone
<1> HIDE DEF KeptInv
<1>2. on'[r] = on[r]
  OBVIOUS
<1> QED BY <1>1, <1>2, MoveKeepsLeases

\* The steps of a call at the gate.
LEMMA GateStepKeepsLeases ==
  ASSUME GateAssumption, KeptInv, NEW r \in Calls, GateStep(r) PROVE Keeps
<1> USE GateAssumption, LeftAlone
<1>1. CASE Allocate(r)
  <2>1. /\ required' \in [Bearers -> BOOLEAN] /\ pc' = [pc EXCEPT ![r] = "gate"]
        /\ \A c \in Bearers : required[c] => required'[c]
    BY <1>1 DEF Allocate, KeptInv, LeaseTypes
  <2>2. /\ UNCHANGED <<inflight, lease, bid, on, woken>> /\ on' \in [Calls -> Bearers]
        /\ bid' = [bid EXCEPT ![r] = bid[r]] /\ bid[r] \in Bearers
    BY <1>1 DEF Allocate, routeVars, waitVars
  <2> QED BY <2>1, <2>2, MoveKeepsLeases DEF Places, Waits
<1>2. CASE Escape(r)
  <2>1. PICK t \in Escapes(r) : bid' = [bid EXCEPT ![r] = t]
    BY <1>2 DEF Escape
  <2>2. t \in Bearers
    BY <2>1 DEF Escapes, RouteTo, GateAssumption
  <2>3. pc' = [pc EXCEPT ![r] = "gate"]
    BY <1>2 DEF Escape, AtGate, KeptInv, LeaseTypes
  <2>4. CASE NeedsProbe(r)
    <3>1. /\ UNCHANGED <<required, inflight, lease, on, woken>> /\ lease[r] = NoLease
          /\ required' \in [Bearers -> BOOLEAN] /\ on' \in [Calls -> Bearers]
      BY <1>2, <2>4 DEF Escape, gateVars
    <3> QED BY <2>1, <2>2, <2>3, <3>1, MoveKeepsLeases DEF Places, Waits
  <2>5. CASE ~NeedsProbe(r)
    BY <1>2, <2>1, <2>2, <2>3, <2>5, FinishKeepsLeases DEF Escape, Places, Waits
  <2> QED BY <2>4, <2>5
<1>3. CASE AwaitAlternate(r)
  <2>1. PICK a \in Alternates(r) : on' = [on EXCEPT ![r] = a]
    BY <1>3 DEF AwaitAlternate
  <2>2. lease[r] = NoLease /\ a \in Bearers /\ required[a] /\ inflight[a]
    BY <2>1 DEF Alternates
  <2>3. on' \in [Calls -> Bearers] /\ on'[r] = a /\ \A q \in Calls \ {r} : on'[q] = on[q]
    BY <2>1, <2>2 DEF KeptInv, LeaseTypes
  <2> QED BY <1>3, <2>2, <2>3, MoveKeepsLeases DEF AwaitAlternate, Goes, gateVars, Places, Waits
<1>4. CASE FastFail(r)
  <2>1. CASE NeedsProbe(r)
    BY <1>4, <2>1, FinishKeepsLeases DEF FastFail, Goes, Places, Waits
  <2>2. CASE ~NeedsProbe(r)
    BY <1>4, <2>2, StayKeepsLeases DEF FastFail, Goes, gateVars, Places, Waits
  <2> QED BY <2>1, <2>2
<1>5. CASE Park(r)
  <2>1. CASE NeedsProbe(r)
    BY <1>5, <2>1, StayKeepsLeases DEF Park, Goes, gateVars, routeVars, Places, Waits
  <2>2. CASE ~NeedsProbe(r)
    BY <1>5, <2>2, StayKeepsLeases DEF Park, Goes, gateVars, routeVars, Places, Waits
  <2> QED BY <2>1, <2>2
<1>6. CASE Wake(r)
  <2>1. CASE pc[r] = "sleep"
    <3>1. lease[r] = NoLease
      BY <2>1 DEF KeptInv, LeaselessWaiter
    <3> QED BY <1>6, <2>1, <3>1, RouteKeepsLeases DEF Wake, Goes, waitVars
  <2>2. CASE pc[r] # "sleep"
    BY <1>6, <2>2, StayKeepsLeases DEF Wake, Goes, gateVars, waitVars, Places, Waits
  <2> QED BY <2>1, <2>2
<1>7. CASE ClaimProbe(r)
  BY <1>7, ClaimKeepsLeases DEF ClaimProbe, MayClaim, Goes, waitVars
<1>8. CASE AwaitProbe(r)
  <2>1. on' = [on EXCEPT ![r] = bid[r]] /\ required[bid[r]] /\ inflight[bid[r]] /\ lease[r] = NoLease
    BY <1>8 DEF AwaitProbe, NeedsProbe
  <2>2. on' \in [Calls -> Bearers] /\ on'[r] = bid[r] /\ \A q \in Calls \ {r} : on'[q] = on[q]
    BY <2>1 DEF KeptInv, LeaseTypes
  <2> QED BY <1>8, <2>1, <2>2, MoveKeepsLeases DEF AwaitProbe, Goes, gateVars, routeVars, Places, Waits
<1>9. CASE Verdict(r)
  <2>1. lease[r] = NoLease /\ woken \ {r} \subseteq woken'
    BY <1>9 DEF Verdict, KeptInv, LeaselessWaiter
  <2>2. CASE required[on[r]] /\ inflight[on[r]]
    <3>1. pc' = [pc EXCEPT ![r] = pc[r]] /\ pc[r] \in Places
      BY <1>9, <2>2 DEF Verdict, KeptInv, LeaseTypes
    <3> QED BY <1>9, <2>1, <2>2, <3>1, StayKeepsLeases DEF Verdict, gateVars
  <2>3. CASE ~(required[on[r]] /\ inflight[on[r]])
    BY <1>9, <2>1, <2>3, RouteKeepsLeases DEF Verdict, Goes
  <2> QED BY <2>2, <2>3
<1>10. CASE Proceed(r)
  BY <1>10, StayKeepsLeases DEF Proceed, Goes, gateVars, routeVars, waitVars, Places, Slotted, Waits
<1> QED BY <1>1, <1>2, <1>3, <1>4, <1>5, <1>6, <1>7, <1>8, <1>9, <1>10 DEF GateStep

\* The steps of a call with a slot.
LEMMA SlotStepKeepsLeases ==
  ASSUME GateAssumption, KeptInv, NEW r \in Calls, SlotStep(r) PROVE Keeps
<1> USE GateAssumption, LeftAlone
<1>1. CASE GiveBack(r)
  <2>1. \E t \in Bearers : bid' = [bid EXCEPT ![r] = t]
    <3>1. CASE bid' = bid
      BY <3>1
    <3>2. CASE \E t \in Escapes(r) : bid' = [bid EXCEPT ![r] = t]
      BY <3>2 DEF Escapes, RouteTo, GateAssumption
    <3> QED BY <1>1, <3>1, <3>2 DEF GiveBack
  <2> QED BY <1>1, <2>1, FinishKeepsLeases DEF GiveBack, Goes, Places, Waits
<1>2. CASE Refrain(r)
  BY <1>2, FinishKeepsLeases DEF Refrain, Goes, Places, Waits
<1>3. CASE Dispatch(r)
  BY <1>3, StayKeepsLeases DEF Dispatch, Goes, gateVars, routeVars, waitVars, Places, Slotted, Waits
<1>4. CASE EnterHold(r)
  BY <1>4, StayKeepsLeases DEF EnterHold, Goes, gateVars, routeVars, Places, Slotted, Waits
<1>5. CASE HeldDispatch(r)
  BY <1>5, StayKeepsLeases DEF HeldDispatch, Goes, gateVars, routeVars, waitVars, Places, Slotted, Waits
<1> QED BY <1>1, <1>2, <1>3, <1>4, <1>5 DEF SlotStep

\* A quarantine drops the gate, wakes whoever waits for its verdict and clears the lease
\* of the call that was refused.
LEMMA QuarantineKeepsLeases ==
  ASSUME GateAssumption, KeptInv, NEW r \in Calls, Refused(r), bid[r] \notin dead
  PROVE  Keeps
<1> DEFINE b == bid[r]
<1>1. /\ required' = [required EXCEPT ![b] = FALSE] /\ inflight' = [inflight EXCEPT ![b] = FALSE]
      /\ woken' = woken \cup Awaiting(b) /\ lease' = [lease EXCEPT ![r] = NoLease]
      /\ pc' = [pc EXCEPT ![r] = "ended"] /\ bid' = bid /\ on' = on /\ "refused" \in Answers
  BY DEF Refused, Goes
<1>2. b \in Bearers
  BY DEF KeptInv, LeaseTypes
<1> HIDE DEF b
<1>3. LeaseTypes'
  BY <1>1 DEF KeptInv, LeaseTypes, Places
<1>4. FlightIsRequired' /\ LeaselessWaiter' /\ LeaseOnRoute'
  BY <1>1 DEF KeptInv, LeaseTypes, FlightIsRequired, LeaselessWaiter, LeaseOnRoute
<1>5. ProbeIsOwned'
  <2> SUFFICES ASSUME NEW c \in Bearers, inflight'[c] PROVE \E q \in Calls : lease'[q] = c
    BY DEF ProbeIsOwned, Probers
  <2>1. c # b /\ inflight[c]
    BY <1>1, <1>2 DEF KeptInv, LeaseTypes
  <2>2. PICK q \in Calls : lease[q] = c
    BY <2>1 DEF KeptInv, ProbeIsOwned, Probers
  <2>3. q # r
    BY <2>1, <2>2 DEF KeptInv, LeaseOnRoute, GateAssumption, b
  <2> QED BY <1>1, <2>2, <2>3 DEF KeptInv, LeaseTypes
<1>6. NoLostWakeUp'
  <2> SUFFICES ASSUME NEW c \in Bearers, NEW q \in Calls, pc'[q] \in Waits, on'[q] = c, q \notin woken'
               PROVE  required'[c] /\ inflight'[c]
    BY DEF NoLostWakeUp, Awaiting, Waits
  <2>1. q # r /\ pc[q] \in Waits /\ on[q] = c /\ q \notin woken /\ q \notin Awaiting(b)
    BY <1>1 DEF KeptInv, LeaseTypes, Waits
  <2>2. required[c] /\ inflight[c]
    BY <2>1 DEF KeptInv, NoLostWakeUp, Awaiting, Waits
  <2>3. c # b
    BY <2>1 DEF Awaiting, Waits
  <2> QED BY <1>1, <2>2, <2>3 DEF KeptInv, LeaseTypes
<1> QED BY <1>1, <1>3, <1>4, <1>5, <1>6 DEF Keeps, KeptInv

\* What upstream's answers do.
LEMMA FlightStepKeepsLeases ==
  ASSUME GateAssumption, KeptInv, NEW r \in Calls, FlightStep(r)
  PROVE  Keeps
<1> USE GateAssumption, LeftAlone
<1>1. CASE Served(r)
  <2>1. CASE r \in Held
    BY <1>1, <2>1, StayKeepsLeases DEF Served, Goes, gateVars, Places, Slotted, Waits
  <2>2. CASE r \notin Held
    BY <1>1, <2>2, FinishKeepsLeases DEF Served, Goes, Places, Slotted, Waits
  <2> QED BY <2>1, <2>2
<1>2. CASE EndStream(r)
  BY <1>2, FinishKeepsLeases DEF EndStream, Goes, Places, Waits
<1>3. CASE Failed(r)
  BY <1>3, FinishKeepsLeases DEF Failed, Goes, Places, Waits
<1>4. CASE Refused(r)
  <2>1. CASE bid[r] \in dead
    BY <1>4, <2>1, FinishKeepsLeases DEF Refused, Goes, Places, Waits
  <2> QED BY <1>4, <2>1, QuarantineKeepsLeases
<1>5. ASSUME NEW p \in 1..MaxWindow, Pushback(r, p) PROVE Keeps
  <2> DEFINE live == lease[r] # NoLease /\ inflight[lease[r]]
  <2>1. required' \in [Bearers -> BOOLEAN] /\ \A c \in Bearers : required[c] => required'[c]
    BY <1>5 DEF Pushback, NoteRetryAfter, KeptInv, LeaseTypes
  <2>2. /\ lease' = [lease EXCEPT ![r] = NoLease]
        /\ inflight' = IF live THEN [inflight EXCEPT ![lease[r]] = FALSE] ELSE inflight
        /\ (IF live THEN woken \cup Awaiting(lease[r]) ELSE woken) \ {r} \subseteq woken'
    BY <1>5 DEF Pushback
  <2>3. live \in BOOLEAN
    BY DEF KeptInv, LeaseTypes
  <2> HIDE DEF live
  <2>4. live = (lease[r] # NoLease /\ inflight[lease[r]])
    BY DEF live
  <2>5. /\ pc' = [pc EXCEPT ![r] = "gate"] /\ bid' = [bid EXCEPT ![r] = bid[r]] /\ bid[r] \in Bearers
        /\ on' = [on EXCEPT ![r] = on[r]] /\ on[r] \in Bearers
    BY <1>5 DEF Pushback, Goes
  <2> QED BY <2>1, <2>2, <2>3, <2>4, <2>5, LeaseGivenUp DEF Places, Waits
<1>6. ASSUME NEW p \in 1..MaxWindow, HeldPushback(r, p) PROVE Keeps
  <2>1. required' \in [Bearers -> BOOLEAN] /\ \A c \in Bearers : required[c] => required'[c]
    BY <1>6 DEF HeldPushback, NoteRetryAfter, KeptInv, LeaseTypes
  <2> QED BY <1>6, <2>1, MoveKeepsLeases DEF HeldPushback, Goes, routeVars, Places, Slotted, Waits
<1> QED BY <1>1, <1>2, <1>3, <1>4, <1>5, <1>6 DEF FlightStep

\* The other steps of a call: it comes, it is ended from outside, it is gone.
LEMMA OuterStepKeepsLeases ==
  ASSUME GateAssumption, KeptInv, NEW r \in Calls, Arrive(r) \/ Expire(r) \/ Abort(r) \/ Done(r)
  PROVE  Keeps
<1> USE GateAssumption, LeftAlone
<1>1. CASE Arrive(r)
  <2>1. lease[r] = NoLease
    BY <1>1 DEF Arrive, KeptInv, LeaselessWaiter
  <2> QED BY <1>1, <2>1, RouteKeepsLeases DEF Arrive, Goes, waitVars
<1>2. CASE Expire(r)
  BY <1>2, FinishKeepsLeases DEF Expire, Goes, Places, Waits
<1>3. CASE Abort(r)
  <2>1. CASE pc[r] \in Slotted
    BY <1>3, <2>1, FinishKeepsLeases DEF Abort, Goes, Places, Waits
  <2>2. CASE pc[r] \notin Slotted
    <3>1. UNCHANGED <<required, inflight, lease>> /\ woken \ {r} \subseteq woken'
      BY <1>3, <2>2 DEF Abort, gateVars
    <3> QED BY <1>3, <3>1, StayKeepsLeases DEF Abort, Goes, Places, Waits
  <2> QED BY <2>1, <2>2
<1>4. CASE Done(r)
  <2>1. Home[r] \in Bearers
    BY DEF GateAssumption
  <2> QED BY <1>4, <2>1, FinishKeepsLeases DEF Done, Places, Waits
<1> QED BY <1>1, <1>2, <1>3, <1>4

\* No call moves and no lease changes hands: recovery, usage decay, time.
LEMMA OthersKeepLeases ==
  ASSUME KeptInv, UNCHANGED <<inflight, pc, bid, lease, on, woken>>,
         required' \in [Bearers -> BOOLEAN], \A c \in Bearers : required[c] => required'[c]
  PROVE  Keeps
<1>1. LeaseTypes' /\ FlightIsRequired'
  BY DEF KeptInv, LeaseTypes, FlightIsRequired
<1>2. ProbeIsOwned' /\ LeaseOnRoute' /\ LeaselessWaiter'
  BY DEF KeptInv, ProbeIsOwned, Probers, LeaseOnRoute, LeaselessWaiter
<1>3. NoLostWakeUp'
  BY DEF KeptInv, NoLostWakeUp, Awaiting
<1>4. SoleInv => SoleInv'
  BY DEF SoleInv, SingleProbe, Probers, FlagWhileLeased
<1> QED BY <1>1, <1>2, <1>3, <1>4 DEF Keeps, KeptInv

LEMMA NextKeepsLeases ==
  ASSUME GateAssumption, KeptInv, [Next]_vars PROVE Keeps
<1>1. ASSUME NEW r \in Calls, Arrive(r) \/ CallStep(r) \/ Expire(r) \/ Abort(r) PROVE Keeps
  BY <1>1, GateStepKeepsLeases, SlotStepKeepsLeases, FlightStepKeepsLeases, OuterStepKeepsLeases
     DEF CallStep
<1>2. ASSUME NEW b \in Bearers, Recover(b) PROVE Keeps
  BY <1>2, OthersKeepLeases DEF Recover, gateVars, routeVars, waitVars, KeptInv, LeaseTypes
<1>3. ASSUME NEW b \in Bearers, UsageDecay(b) PROVE Keeps
  BY <1>3, OthersKeepLeases DEF UsageDecay, routeVars, waitVars, KeptInv, LeaseTypes
<1>4. CASE Tick
  BY <1>4, OthersKeepLeases DEF Tick, gateVars, routeVars, KeptInv, LeaseTypes
<1>5. CASE UNCHANGED vars
  BY <1>5, OthersKeepLeases DEF vars, gateVars, routeVars, waitVars, KeptInv, LeaseTypes
<1> QED BY <1>1, <1>2, <1>3, <1>4, <1>5 DEF Next

-----------------------------------------------------------------------------
THEOREM GateInvariant == ASSUME GateAssumption PROVE Spec => []KeptInv
<1>1. Init => KeptInv
  BY InitInvs
<1>2. KeptInv /\ [Next]_vars => KeptInv'
  BY NextKeepsLeases DEF Keeps
<1> QED BY <1>1, <1>2, PTL DEF Spec

\* Whatever upstream answers, quarantines included: a gate marked as probed has a live
\* prober, a lease is for the call's own route, a waiter that has not been woken waits
\* for a probe in flight, and a lease holder waits for nobody (the releases on every way
\* out, _quarantine_bearer, wait_retry_probe).
THEOREM LeasesAreKeptHolds == ASSUME GateAssumption PROVE Spec => []LeasesAreKept
<1>1. KeptInv => LeasesAreKept
  BY DEF KeptInv, LeasesAreKept, LeaselessWaiter, HolderWaitsForNobody
<1> QED BY <1>1, GateInvariant, PTL

\* While no credential is refused, moreover, a bearer has one probe at a time: what
\* _RetryProbeGate and the claim at the route are for.
THEOREM LeasesAreSound ==
  ASSUME GateAssumption, "refused" \notin Answers
  PROVE  Spec => [](SingleProbe /\ ProbeIsOwned /\ LeaseOnRoute /\ HolderWaitsForNobody)
<1>1. Init => KeptInv /\ SoleInv
  BY InitInvs
<1>2. KeptInv /\ SoleInv /\ [Next]_vars => (KeptInv /\ SoleInv)'
  BY NextKeepsLeases DEF Keeps
<1>3. KeptInv /\ SoleInv => SingleProbe /\ ProbeIsOwned /\ LeaseOnRoute /\ HolderWaitsForNobody
  BY DEF KeptInv, SoleInv, LeaselessWaiter, HolderWaitsForNobody
<1> QED BY <1>1, <1>2, <1>3, PTL DEF Spec

-----------------------------------------------------------------------------
(* What opens a gate, and who is let through one that is in force. *)

Opened(b) ==
  required[b] /\ ~required'[b] =>
    b \in dead' \ dead \/ \E r \in Probers(b) : pc[r] = "flying" /\ pc'[r] = "streaming"

Dispatched(r) == pc[r] # "flying" /\ pc'[r] = "flying" /\ required[bid[r]] => lease[r] = bid[r]

\* The hold, past which nothing is looked at again, is for held calls.
HoldIsForHeld == \A r \in Calls : pc[r] = "holding" => r \in Held

Obeys ==
  /\ \A b \in Bearers : Opened(b)
  /\ \A r \in Calls : Dispatched(r)
  /\ HoldIsForHeld => HoldIsForHeld'

\* A step that opens no gate and takes its call anywhere but to transport.
LEMMA QuietStepObeys ==
  ASSUME KeptInv, NEW r \in Calls, NEW where, where # "flying", pc' = [pc EXCEPT ![r] = where],
         where = "holding" => r \in Held, \A c \in Bearers : required[c] => required'[c]
  PROVE  Obeys
BY DEF KeptInv, LeaseTypes, Obeys, Opened, Dispatched, HoldIsForHeld

LEMMA FinishedStepObeys ==
  ASSUME KeptInv, NEW r \in Calls, NEW where, where \notin {"flying", "holding"},
         pc' = [pc EXCEPT ![r] = where], FinishProbe(r, FALSE)
  PROVE  Obeys
BY QuietStepObeys DEF FinishProbe

LEMMA GateStepObeys ==
  ASSUME KeptInv, NEW r \in Calls, GateStep(r) \/ Arrive(r) PROVE Obeys
<1>1. CASE Allocate(r)
  <2>1. pc' = [pc EXCEPT ![r] = "gate"] /\ \A c \in Bearers : required[c] => required'[c]
    BY <1>1 DEF Allocate, KeptInv, LeaseTypes
  <2> QED BY <2>1, QuietStepObeys
<1>2. CASE Escape(r)
  <2>1. pc' = [pc EXCEPT ![r] = "gate"]
    BY <1>2 DEF Escape, AtGate, KeptInv, LeaseTypes
  <2> QED BY <1>2, <2>1, QuietStepObeys, FinishedStepObeys DEF Escape, gateVars
<1>3. CASE AwaitAlternate(r)
  BY <1>3, QuietStepObeys DEF AwaitAlternate, Goes, gateVars
<1>4. CASE FastFail(r)
  BY <1>4, QuietStepObeys, FinishedStepObeys DEF FastFail, Goes, gateVars
<1>5. CASE Park(r)
  <2>1. pc' = [pc EXCEPT ![r] = "sleep"] \/ pc' = [pc EXCEPT ![r] = "park"]
    BY <1>5 DEF Park, Goes
  <2>2. required' = required
    BY <1>5 DEF Park, gateVars
  <2> QED BY <2>1, <2>2, QuietStepObeys
<1>6. CASE Wake(r) \/ Arrive(r)
  BY <1>6, QuietStepObeys DEF Wake, Arrive, RouteAndClaim, Goes, gateVars
<1>7. CASE ClaimProbe(r) \/ AwaitProbe(r)
  BY <1>7, QuietStepObeys DEF ClaimProbe, AwaitProbe, Goes, gateVars
<1>8. CASE Verdict(r)
  <2>1. CASE required[on[r]] /\ inflight[on[r]]
    <3>1. pc' = [pc EXCEPT ![r] = pc[r]] /\ pc[r] \notin {"flying", "holding"} /\ required' = required
      BY <1>8, <2>1 DEF Verdict, gateVars, KeptInv, LeaseTypes
    <3> QED BY <3>1, QuietStepObeys
  <2>2. CASE ~(required[on[r]] /\ inflight[on[r]])
    <3>1. pc' = [pc EXCEPT ![r] = "gate"] /\ required' = required
      BY <1>8, <2>2 DEF Verdict, RouteAndClaim, Goes
    <3> QED BY <3>1, QuietStepObeys
  <2> QED BY <2>1, <2>2
<1>9. CASE Proceed(r)
  BY <1>9, QuietStepObeys DEF Proceed, Goes, gateVars
<1> QED BY <1>1, <1>2, <1>3, <1>4, <1>5, <1>6, <1>7, <1>8, <1>9 DEF GateStep

\* The recheck after the wait for a slot is what keeps the herd back.
LEMMA SlotStepObeys ==
  ASSUME KeptInv, HoldIsForHeld, Held = {}, NEW r \in Calls, SlotStep(r) PROVE Obeys
<1>1. CASE GiveBack(r) \/ Refrain(r)
  BY <1>1, FinishedStepObeys DEF GiveBack, Refrain, Goes
<1>2. CASE Dispatch(r)
  <2>1. /\ pc' = [pc EXCEPT ![r] = "flying"] /\ required' = required
        /\ required[bid[r]] => lease[r] = bid[r]
    BY <1>2 DEF Dispatch, Goes, NeedsProbe, gateVars
  <2> QED BY <2>1 DEF KeptInv, LeaseTypes, Obeys, Opened, Dispatched, HoldIsForHeld
<1>3. CASE EnterHold(r)
  BY <1>3 DEF EnterHold
<1>4. CASE HeldDispatch(r)
  BY <1>4 DEF HeldDispatch, HoldIsForHeld
<1> QED BY <1>1, <1>2, <1>3, <1>4 DEF SlotStep

\* Only the headers of a served probe open a gate, only a quarantine drops one.
LEMMA FlightStepObeys ==
  ASSUME KeptInv, NEW r \in Calls, FlightStep(r) PROVE Obeys
<1>1. CASE Served(r)
  <2>1. pc' = [pc EXCEPT ![r] = "streaming"] /\ pc[r] = "flying"
    BY <1>1 DEF Served, Goes
  <2>2. ASSUME NEW b \in Bearers, required[b], ~required'[b] PROVE r \in Probers(b)
    BY <1>1, <2>2 DEF Served, FinishProbe, gateVars, KeptInv, LeaseTypes, Probers
  <2> QED BY <2>1, <2>2 DEF KeptInv, LeaseTypes, Obeys, Opened, Dispatched, HoldIsForHeld
<1>2. CASE EndStream(r) \/ Failed(r)
  BY <1>2, FinishedStepObeys DEF EndStream, Failed, Goes
<1>3. CASE Refused(r)
  <2>1. CASE bid[r] \in dead
    BY <1>3, <2>1, FinishedStepObeys DEF Refused, Goes
  <2>2. CASE bid[r] \notin dead
    <3>1. /\ pc' = [pc EXCEPT ![r] = "ended"] /\ bid[r] \in dead' \ dead
          /\ required' = [required EXCEPT ![bid[r]] = FALSE]
      BY <1>3, <2>2 DEF Refused, Goes
    <3> QED BY <3>1 DEF KeptInv, LeaseTypes, Obeys, Opened, Dispatched, HoldIsForHeld
  <2> QED BY <2>1, <2>2
<1>4. ASSUME NEW p \in 1..MaxWindow, Pushback(r, p) \/ HeldPushback(r, p) PROVE Obeys
  <2>1. \A c \in Bearers : required[c] => required'[c]
    BY <1>4 DEF Pushback, HeldPushback, NoteRetryAfter, KeptInv, LeaseTypes
  <2>2. pc' = [pc EXCEPT ![r] = "gate"] \/ (pc' = [pc EXCEPT ![r] = "holding"] /\ r \in Held)
    BY <1>4 DEF Pushback, HeldPushback, Goes
  <2> QED BY <2>1, <2>2, QuietStepObeys
<1> QED BY <1>1, <1>2, <1>3, <1>4 DEF FlightStep

LEMMA NextObeys ==
  ASSUME KeptInv, HoldIsForHeld, Held = {}, [Next]_vars PROVE Obeys
<1>1. ASSUME NEW r \in Calls, Expire(r) \/ Abort(r) \/ Done(r) PROVE Obeys
  <2>1. CASE Expire(r)
    BY <2>1, FinishedStepObeys DEF Expire, Goes
  <2>2. CASE Abort(r)
    BY <2>2, FinishedStepObeys, QuietStepObeys DEF Abort, Goes, gateVars
  <2>3. CASE Done(r)
    BY <2>3, FinishedStepObeys DEF Done
  <2> QED BY <1>1, <2>1, <2>2, <2>3
<1>2. ASSUME UNCHANGED pc, \A c \in Bearers : required[c] => required'[c] PROVE Obeys
  BY <1>2 DEF Obeys, Opened, Dispatched, HoldIsForHeld
<1>3. ASSUME NEW b \in Bearers, Recover(b) \/ UsageDecay(b) PROVE Obeys
  BY <1>2, <1>3 DEF Recover, UsageDecay, gateVars, KeptInv, LeaseTypes
<1>4. CASE Tick \/ UNCHANGED vars
  BY <1>2, <1>4 DEF Tick, vars, gateVars
<1>5. ASSUME NEW r \in Calls, CallStep(r) \/ Arrive(r) PROVE Obeys
  BY <1>1, <1>5, GateStepObeys, SlotStepObeys, FlightStepObeys DEF CallStep
<1> QED BY <1>1, <1>3, <1>4, <1>5 DEF Next

\* Where no call streams its wait past the recheck, nothing but the probe is dispatched on
\* a half-open bearer, and only the probe's success opens it or a quarantine drops it:
\* _pre_dispatch_probe_gate, _post_slot_recheck and _finish_retry_probe together.
THEOREM GateIsObeyedHolds ==
  ASSUME GateAssumption, Held = {}
  PROVE  Spec => GateIsObeyed
<1>1. Init => HoldIsForHeld
  BY DEF Init, HoldIsForHeld
<1>2. KeptInv /\ HoldIsForHeld /\ [Next]_vars => Obeys
  BY NextObeys
<1>3. KeptInv /\ HoldIsForHeld /\ [Next]_vars => HoldIsForHeld'
  BY <1>2 DEF Obeys
<1>4. Obeys =>
        /\ \A b \in Bearers : required[b] /\ ~required'[b] =>
             \/ b \in dead' \ dead
             \/ \E r \in Probers(b) : pc[r] = "flying" /\ pc'[r] = "streaming"
        /\ \A r \in Calls : pc[r] # "flying" /\ pc'[r] = "flying" /\ required[bid[r]] =>
             lease[r] = bid[r]
  BY DEF Obeys, Opened, Dispatched
<1>5. Spec => []KeptInv
  BY GateInvariant
<1> QED BY <1>1, <1>2, <1>3, <1>4, <1>5, PTL DEF Spec, GateIsObeyed, OnlySuccessOpens, NoHerd
=============================================================================
