--------------------------- MODULE IdentityGuard ---------------------------
(***************************************************************************)
(* The guard against two credential stores of one account (proxy.py): a    *)
(* health poll warns of stores whose emails were read with their tokens,   *)
(* and has a background task probe those whose email is only a label       *)
(* before anybody is alarmed.  Polls and tasks share what was seen and     *)
(* warned of last.  How one token is probed is the module Accounts.        *)
(***************************************************************************)
EXTENDS Integers, FiniteSets

CONSTANTS
  Stores,    \* credential stores (ACCOUNT_CRED_PATHS)
  Emails,
  None,      \* no credential
  MaxTasks,  \* bound of the model: verifying tasks at a time
  MaxLogins  \* bound of the model: changes of a store

VARIABLES
  holder,    \* whose credential a store holds
  label,     \* oauthAccount.emailAddress in the .claude.json beside it
  probed,    \* the email read with the token in the store is cached (_email_cache)
  sig,       \* _identity_warn_state["sig"], the verdict seen last
  emitted,   \* _identity_warn_state["emitted_sus"]
  tasks,     \* verifying tasks; "listed" is to be the one in _identity_verify_tasks
  logins,
  warned,    \* ghost: verified collisions warned of, and seen ever since
  broken     \* ghost: a task has broken off since the books were last written

storeVars == <<holder, label, probed>>
identityVars == <<storeVars, sig, emitted, tasks, logins, warned, broken>>

NoVerdict == [duplicates |-> {}, suspected |-> {}]
NoTask == [key |-> {}, pass |-> 0, todo |-> {}, listed |-> FALSE, state |-> "none"]

IdentityInit ==
  /\ holder \in [Stores -> Emails] /\ label = holder /\ probed = [s \in Stores |-> FALSE]
  /\ sig = NoVerdict /\ emitted = NoVerdict /\ tasks = [t \in 1..MaxTasks |-> NoTask]
  /\ logins = 0 /\ warned = {} /\ broken = FALSE

-----------------------------------------------------------------------------
(* The verdict. *)

\* guard_email
Email(s) == IF probed[s] THEN holder[s] ELSE IF holder[s] = None THEN None ELSE label[s]

\* identity_state: emails with several stores; one label among them makes a suspicion.
Groups == {g \in {[email |-> e, stores |-> {s \in Stores : Email(s) = e}] : e \in Emails} :
             Cardinality(g.stores) > 1}
Verdict == LET sure == {g \in Groups : \A s \in g.stores : probed[s]}
           IN  [duplicates |-> sure, suspected |-> Groups \ sure]

-----------------------------------------------------------------------------
(* The tasks that verify. *)

Live(t) == tasks[t].state = "live"
Over(t) == tasks[t].state = "over"
ListedAs(t, key) == tasks[t].listed /\ tasks[t].key = key
Free == {t \in DOMAIN tasks : tasks[t].state = "none"}

Slot == CHOOSE t \in Free : TRUE
Listing(key) ==
  [t \in DOMAIN tasks |->
     IF t = Slot THEN [key |-> key, pass |-> 0, todo |-> {}, listed |-> TRUE, state |-> "live"]
     ELSE IF ListedAs(t, key) THEN [tasks[t] EXCEPT !.listed = FALSE] ELSE tasks[t]]

\* Variant: a task that is over keeps its suspicion from another until it is off the list.
SpawnUnlessListed(key) ==
  IF \E t \in DOMAIN tasks : ListedAs(t, key) THEN UNCHANGED tasks
  ELSE Free # {} /\ tasks' = Listing(key)
\* _spawn_identity_verification
Spawn(key) ==
  IF \E t \in DOMAIN tasks : ListedAs(t, key) /\ Live(t) THEN UNCHANGED tasks
  ELSE Free # {} /\ tasks' = Listing(key)

\* _note_identity_collision, in a health poll.
HealthPoll ==
  /\ Verdict # sig
  /\ sig' = Verdict /\ warned' = Verdict.duplicates /\ broken' = FALSE
  /\ IF Verdict.suspected = {} THEN UNCHANGED tasks ELSE Spawn(Verdict.suspected)
  /\ UNCHANGED <<storeVars, emitted, logins>>

\* _warn_identity_probe_verdict, after the task's last probe and in the same step.
Conclude(t) ==
  LET verdict == Verdict' IN
  /\ sig' = verdict
  /\ warned' = IF verdict # sig THEN verdict.duplicates ELSE warned \cap verdict.duplicates
  /\ emitted' = IF verdict.suspected = {} THEN NoVerdict ELSE verdict
  /\ broken' = FALSE
  /\ tasks' = [tasks EXCEPT ![t].state = "over", ![t].todo = {}]

\* _probe_suspected_labels: two passes over the stores that are not probed yet.
NextPass(t) ==
  LET todo == {s \in UNION {g.stores : g \in tasks[t].key} : ~probed'[s]} IN
  IF tasks[t].pass < 2 /\ todo # {}
  THEN /\ tasks' = [tasks EXCEPT ![t].pass = @ + 1, ![t].todo = todo]
       /\ UNCHANGED <<sig, emitted, warned, broken>>
  ELSE Conclude(t)

Begin(t) ==
  /\ Live(t) /\ tasks[t].pass = 0
  /\ UNCHANGED storeVars /\ NextPass(t) /\ UNCHANGED logins

\* force_verify_email: the account answers for the token in the store, or nothing is learnt.
Probe(t) ==
  /\ Live(t)
  /\ \E s \in tasks[t].todo :
       /\ \E answers \in {FALSE, holder[s] # None} : probed' = [probed EXCEPT ![s] = @ \/ answers]
       /\ UNCHANGED <<holder, label>>
       /\ IF tasks[t].todo = {s} THEN NextPass(t)
          ELSE /\ tasks' = [tasks EXCEPT ![t].todo = @ \ {s}]
               /\ UNCHANGED <<sig, emitted, warned, broken>>
  /\ UNCHANGED logins

\* An exception out of a probe (an answer that is no JSON) ends the task with a line in the
\* log: no verdict is drawn and nothing is put on the books.
BreakOff(t) ==
  /\ Live(t) /\ tasks[t].todo # {}
  /\ tasks' = [tasks EXCEPT ![t].state = "over", ![t].todo = {}]
  /\ broken' = TRUE
  /\ UNCHANGED <<storeVars, sig, emitted, logins, warned>>

\* Variant: whoever is listed under the suspicion is taken off the list.
CleanupByKey(t) ==
  /\ Over(t)
  /\ tasks' = [u \in DOMAIN tasks |->
                 IF u = t THEN NoTask
                 ELSE IF ListedAs(u, tasks[t].key) THEN [tasks[u] EXCEPT !.listed = FALSE] ELSE tasks[u]]
  /\ UNCHANGED <<storeVars, sig, emitted, logins, warned, broken>>
\* The done-callback, some time after the task is over, takes only its own task off the list.
Cleanup(t) ==
  /\ Over(t)
  /\ tasks' = [tasks EXCEPT ![t] = NoTask]
  /\ UNCHANGED <<storeVars, sig, emitted, logins, warned, broken>>

-----------------------------------------------------------------------------
(* The stores. *)

Rewritten(touched) ==
  /\ logins < MaxLogins /\ logins' = logins + 1
  /\ probed' = [s \in Stores |-> probed[s] /\ s \notin touched]
  /\ UNCHANGED <<sig, emitted, tasks, warned, broken>>

\* A login rewrites credential and label, a logout takes the credential away.
Login ==
  \E s \in Stores, e \in Emails \cup {None} :
    /\ holder' = [holder EXCEPT ![s] = e]
    /\ label' = [label EXCEPT ![s] = IF e = None THEN @ ELSE e]
    /\ Rewritten({s})
\* claude-account-promote swaps the credentials of two stores and leaves the labels behind.
Promote ==
  \E s, t \in Stores :
    /\ s # t /\ holder' = [holder EXCEPT ![s] = holder[t], ![t] = holder[s]]
    /\ UNCHANGED label /\ Rewritten({s, t})
\* _refresh_email, after a usage poll.
RefreshEmail ==
  /\ \E s \in Stores : holder[s] # None /\ ~probed[s] /\ probed' = [probed EXCEPT ![s] = TRUE]
  /\ UNCHANGED <<holder, label, sig, emitted, tasks, logins, warned, broken>>

IdentityNext ==
  \/ HealthPoll \/ Login \/ Promote \/ RefreshEmail
  \/ \E t \in DOMAIN tasks : Begin(t) \/ Probe(t) \/ BreakOff(t) \/ Cleanup(t)

IdentitySpec == IdentityInit /\ [][IdentityNext]_identityVars

-----------------------------------------------------------------------------
(* What must hold. *)

\* Poll and tasks overwrite each other's signature, yet a verified collision on the books
\* has been warned of, and a suspicion on the books is being verified or has been warned of
\* as such, unless a task broke off since it was put there; one suspicion has one task
\* (_note_identity_collision, _warn_identity_probe_verdict, _spawn_identity_verification).
DuplicatesAreWarnedOf == sig.duplicates \subseteq warned
SuspicionsAreFollowedUp ==
  sig.suspected # {} /\ ~broken => emitted = sig \/ \E t \in DOMAIN tasks : Live(t)
OneVerifier ==
  \A t, u \in DOMAIN tasks : Live(t) /\ Live(u) /\ tasks[t].key = tasks[u].key => t = u
CollisionsAreFollowedUp == DuplicatesAreWarnedOf /\ SuspicionsAreFollowedUp /\ OneVerifier
=============================================================================
