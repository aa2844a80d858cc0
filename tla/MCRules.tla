------------------------------ MODULE MCRules ------------------------------
(***************************************************************************)
(* Small instances of the components of Rules, and of RequestLifecycle     *)
(* beside them.                                                            *)
(***************************************************************************)
EXTENDS RequestLifecycle, Rules, TLC

CONSTANTS ann, bob, cyd, r1, r2, r3, a1, a2

\* RequestLifecycle: ann has two calls, bob one.
MCClientOf == r1 :> ann @@ r2 :> ann @@ r3 :> bob

\* Two projects with shares; a third has no bucket left.
MCShare == ann :> 4 @@ bob :> 5

\* The watchdog: longer runs with two gates, and more shrinks with one.
MCMaxScrapes == <<4, 5>>
MCMaxShrinks == <<3, 1>>

\* What an answer says of the windows: nothing, five hours refused, seven days spent under
\* a status that lags.
Unified(w, refused5, spent7, secs) ==
  [v \in {"five_hour", "seven_day"} |->
     IF v = w THEN [rejected |-> refused5, spent |-> spent7, left |-> secs]
     ELSE [rejected |-> FALSE, spent |-> FALSE, left |-> 0]]
MCReadings ==
  {Unified("five_hour", FALSE, FALSE, 0), Unified("five_hour", TRUE, FALSE, 2),
   Unified("seven_day", FALSE, TRUE, 1)}
Snapshot(kind, total, reserve) ==
  [queue |-> kind, cap |-> 1, total |-> total, reserve |-> reserve, depth |-> 0, admits |-> FALSE]
MCPools == {Snapshot("unknown", 0, 0), Snapshot("fair", 2, 1), Snapshot("off", 0, 0)}

-----------------------------------------------------------------------------
\* One initial state of those that rest.
MCInit ==
  /\ which \in Movers
  /\ which # "none" => mode = "fair"
  /\ which # "body" => anchor = 5 /\ spare = 0 /\ turns = <<[kind |-> "plain", size |-> 1]>>
  /\ which # "watch" => live = TRUE /\ gates = 1
  /\ which # "drain" => slots = 1 /\ evidenced = FALSE /\ ages = <<>>
  /\ which # "door" => seen = {} /\ class = "subscription"
  /\ which # "guard" => holder = [s \in {a1, a2} |-> ann]
  /\ which # "lane" => lane = Lane!LaneOf(1)
  /\ RulesInit /\ Init

MCNext ==
  \/ RulesNext /\ UNCHANGED vars
  \/ which = "none" /\ Next /\ UNCHANGED rulesVars

MCSpec ==
  /\ MCInit /\ [][MCNext]_<<vars, rulesVars>> /\ RulesFairness
  /\ \A r \in Calls : WF_vars(which = "none" /\ Leave(r))
=============================================================================
