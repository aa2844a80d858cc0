------------------------------ MODULE Accounts ------------------------------
(***************************************************************************)
(* What the proxy knows of one configured account (accounts.py): the usage *)
(* endpoint's last reading, kept across restarts, and the email of whoever *)
(* the credential file belongs to.  Any number of tasks may ask for a      *)
(* refresh, which is what the locks are for (today one loop and the checks *)
(* of the collision guard do); another program replaces the file under     *)
(* them.  Tasks are cancelled at shutdown only, which is Restart.          *)
(*                                                                         *)
(* One event loop: an action is the code between two awaits.  Times are    *)
(* ticks relative to the present.  The file's stat and read are one step:  *)
(* a rotation between them only makes the probe's result be thrown away.   *)
(* Writes of the persisted cache succeed.  Windows on messages belong to   *)
(* ProbeGate, which has the effect of a healthy reading on them.           *)
(***************************************************************************)
EXTENDS Integers, FiniteSets

CONSTANTS
  Refreshers,   \* tasks in _refresh_one
  Verifiers,    \* tasks in force_verify_email
  MaxVersion,   \* credentials the file ever holds (bound)
  Owner,        \* [1..MaxVersion -> emails]: whose credential that was
  NoEmail,
  TTL, StaleMax,   \* ENDPOINT_TTL_S, ENDPOINT_STALE_MAX_S
  GateCap,      \* _RETRY_AFTER_GATE_CAP_S
  Steps,        \* _FAILURE_BACKOFF_STEPS
  RetryAfters,  \* what a refusing endpoint may ask for, 0 for nothing
  MaxWait       \* ticks a task may take from one await to the end of the next (bound)

Versions == 1..MaxVersion
Tasks == Refreshers \cup Verifiers

ASSUME AccountsAssumption ==
  /\ Refreshers \cap Verifiers = {}
  /\ MaxVersion \in Nat \ {0}
  /\ \A v \in Versions : Owner[v] # NoEmail
  /\ TTL \in Nat \ {0} /\ StaleMax \in Nat /\ StaleMax >= TTL /\ GateCap \in Nat
  /\ Steps \in Nat /\ RetryAfters \subseteq Nat /\ MaxWait \in Nat \ {0}

VARIABLES
  file,      \* version of the credential in the file, 0 while there is none
  newest,    \* the last version written
  healthy,   \* environment: both endpoints answer, and in JSON, from now on
  entry,     \* _endpoint_cache: [of |-> version whose usage it holds or 0, age, known]
  disk,      \* the persisted entry, likewise
  pause,     \* _endpoint_backoff less now
  failures,  \* _endpoint_failures
  email,     \* _email_cache: [of |-> version or 0, who]
  emailPause, emailFailures,
  pc, tok,   \* per task: where it is, and the version its token was read from
  stamp,     \* the version it would certify, by the file's mtime
  began,     \* ticks since it took the time it decides with
  since,     \* ghost: ticks since the last fetch of usage whose outcome was recorded began
  asked,     \* ghost: ticks left of what the usage endpoint asked for
  refused    \* ghost: the last verdict on the credential was 401

entryVars == <<entry, disk, pause, failures>>
emailVars == <<email, emailPause, emailFailures>>
taskVars == <<pc, tok, stamp, began>>
ghosts == <<since, asked, refused>>
vars == <<file, newest, healthy, entryVars, emailVars, taskVars, ghosts>>

Aged == StaleMax + 1
NoEntry == [known |-> FALSE, of |-> 0, age |-> Aged]
Expired == -MaxWait
Nobody == [of |-> 0, who |-> NoEmail]

Init ==
  /\ file = 1 /\ newest = 1 /\ healthy = FALSE
  /\ entry = NoEntry /\ disk = NoEntry /\ pause = Expired /\ failures = 0
  /\ email = Nobody /\ emailPause = Expired /\ emailFailures = 0
  /\ pc = [t \in Tasks |-> "idle"] /\ tok = [t \in Tasks |-> 0]
  /\ stamp = [t \in Tasks |-> 0] /\ began = [t \in Tasks |-> 0]
  /\ since = Aged /\ asked = 0 /\ refused = FALSE

Least(a, b) == IF a < b THEN a ELSE b
Most(a, b) == IF a > b THEN a ELSE b

-----------------------------------------------------------------------------
(* The usage endpoint. *)

\* _failed_poll_backoff_until: our own delay is capped, the endpoint's is not.
Delay(streak, retryAfter) ==
  Most(Least(TTL * 2 ^ Least(Most(streak - 1, 0), Steps), StaleMax), retryAfter)

\* _endpoint_entry_fresh or _endpoint_backoff_active, at the time t decides with.
Withheld(t) ==
  \/ entry.known /\ entry.age - began[t] < TTL
  \/ pause + began[t] > 0

\* _refresh_one up to its lock; fresh or backing off, it has nothing to do.
Refresh(t) ==
  /\ t \in Refreshers /\ pc[t] = "idle"
  /\ ~(entry.known /\ entry.age < TTL) /\ pause <= 0
  /\ pc' = [pc EXCEPT ![t] = "waiting"] /\ began' = [began EXCEPT ![t] = 0]
  /\ UNCHANGED <<file, newest, healthy, entryVars, emailVars, tok, stamp, ghosts>>

\* The endpoint's lock is held to the end of the refresh, the email's part too.
LockHeld == \E t \in Refreshers : pc[t] \in {"usage", "label", "profile"}

\* t fetches usage with the token the file has now.
Fetch(t) ==
  /\ pc' = [pc EXCEPT ![t] = "usage"] /\ tok' = [tok EXCEPT ![t] = file]
  /\ since' = 0
  /\ UNCHANGED <<file, newest, healthy, entryVars, emailVars, stamp, began, asked, refused>>

\* t has nothing to do, or is done.
Quit(t) ==
  /\ pc' = [pc EXCEPT ![t] = "idle"] /\ tok' = [tok EXCEPT ![t] = 0]
  /\ stamp' = [stamp EXCEPT ![t] = 0]
  /\ began' = [began EXCEPT ![t] = 0]

\* Variant: what was checked before the lock still holds behind it.
EnterUnchecked(t) ==
  /\ pc[t] = "waiting" /\ ~LockHeld /\ file # 0
  /\ Fetch(t)

\* Behind the lock everything is checked again; without a file there is no token.
Enter(t) ==
  /\ pc[t] = "waiting" /\ ~LockHeld
  /\ \/ ~Withheld(t) /\ file # 0 /\ Fetch(t)
     \/ /\ Withheld(t) \/ file = 0
        /\ Quit(t)
        /\ UNCHANGED <<file, newest, healthy, entryVars, emailVars, ghosts>>

\* Variant: a label is a label, whoever's.
LabelKnownOnce(version) == email.of # 0

\* _email_cached_for: the label is that version's.
LabelKnown(version) == email.of = version

\* _apply_usage_success.  Where the account's messages are held back by a
\* Retry-After window the next poll may be later.
KeepReading(t) ==
  /\ entry' = [known |-> TRUE, of |-> tok[t], age |-> began[t]] /\ disk' = entry'
  /\ failures' = 0 /\ refused' = FALSE
  /\ pause' \in {Expired} \cup {wait - began[t] : wait \in TTL..GateCap}

\* On to the label of the file as it is.
AskWhose(t) ==
  /\ pc' = [pc EXCEPT ![t] = "label"] /\ stamp' = [stamp EXCEPT ![t] = file]
  /\ UNCHANGED <<tok, began>>

\* Variant: the file is not compared with the one the token came from.
UsageReadBlind(t) ==
  /\ pc[t] = "usage"
  /\ KeepReading(t)
  /\ IF LabelKnown(file) THEN Quit(t) ELSE AskWhose(t)
  /\ UNCHANGED <<file, newest, healthy, emailVars, since, asked>>

\* A reading, then _refresh_email up to its lock.
UsageRead(t) ==
  /\ pc[t] = "usage"
  /\ KeepReading(t)
  /\ IF file # tok[t] \/ LabelKnown(file) THEN Quit(t) ELSE AskWhose(t)
  /\ UNCHANGED <<file, newest, healthy, emailVars, since, asked>>

\* The next poll after a failure.
BackOff(t, retryAfter) ==
  LET streak == Least(failures + 1, Steps + 1) IN
  /\ failures' = streak
  /\ pause' = Delay(streak, retryAfter) - began[t]
  /\ asked' = Most(asked, retryAfter)


\* 401: the numbers go, from the disk too.
UsageRefused(t) ==
  /\ pc[t] = "usage" /\ ~healthy
  /\ entry' = [known |-> TRUE, of |-> 0, age |-> began[t]] /\ disk' = NoEntry
  /\ BackOff(t, 0) /\ refused' = TRUE /\ Quit(t)
  /\ UNCHANGED <<file, newest, healthy, emailVars, since>>

\* Any other failure keeps the entry there is, to age.
UsageFailed(t) ==
  /\ pc[t] = "usage" /\ ~healthy
  /\ entry' = [entry EXCEPT !.known = TRUE] /\ UNCHANGED <<disk, refused>>
  /\ \E retryAfter \in RetryAfters : BackOff(t, retryAfter)
  /\ Quit(t)
  /\ UNCHANGED <<file, newest, healthy, emailVars, since>>

\* _get_json raises: a 200 whose body is not JSON is neither a timeout nor a
\* ClientError, and leaves _refresh_one before anything is recorded, so nothing
\* holds the next refresh back.  A probe of the profile breaks off likewise.
BreaksOff(t) ==
  /\ pc[t] \in {"usage", "profile"} /\ ~healthy
  /\ since' = IF pc[t] = "usage" THEN Aged ELSE since
  /\ Quit(t)
  /\ UNCHANGED <<file, newest, healthy, entryVars, emailVars, asked, refused>>

-----------------------------------------------------------------------------
(* The profile endpoint: whose credential is it? *)

\* force_verify_email, one at a time: a label that is not this file's is dropped.
Verify(t) ==
  /\ t \in Verifiers /\ pc[t] = "idle" /\ file # 0 /\ email.of # file
  /\ \A u \in Verifiers : pc[u] = "idle"
  /\ email' = Nobody
  /\ tok' = [tok EXCEPT ![t] = file] /\ stamp' = [stamp EXCEPT ![t] = file]
  /\ pc' = [pc EXCEPT ![t] = "label"]
  /\ UNCHANGED <<file, newest, healthy, entryVars, emailPause, emailFailures, began, ghosts>>

\* _refresh_email behind the label's lock; a verifier disregards the pause.
Probe(t) ==
  /\ pc[t] = "label" /\ \A u \in Tasks : pc[u] # "profile"
  /\ IF LabelKnown(stamp[t]) \/ (t \in Refreshers /\ emailPause > 0)
     THEN Quit(t)
     ELSE /\ pc' = [pc EXCEPT ![t] = "profile"] /\ began' = [began EXCEPT ![t] = 0]
          /\ UNCHANGED <<tok, stamp>>
  /\ UNCHANGED <<file, newest, healthy, entryVars, emailVars, ghosts>>

\* _apply_email_probe: a file that was replaced meanwhile is nobody's yet.
Certify(t) ==
  /\ pc[t] = "profile"
  /\ IF file = stamp[t]
     THEN /\ email' = [of |-> stamp[t], who |-> Owner[tok[t]]]
          /\ emailPause' = Expired /\ emailFailures' = 0
     ELSE UNCHANGED emailVars
  /\ Quit(t)
  /\ UNCHANGED <<file, newest, healthy, entryVars, ghosts>>

ProbeFailed(t) ==
  /\ pc[t] = "profile" /\ ~healthy
  /\ LET streak == Least(emailFailures + 1, Steps + 1) IN
     /\ emailFailures' = streak
     /\ \E retryAfter \in RetryAfters : emailPause' = Delay(streak, retryAfter) - began[t]
  /\ Quit(t)
  /\ UNCHANGED <<file, newest, healthy, entryVars, email, ghosts>>

\* guard_email drops a label the file has outgrown.
Look ==
  /\ email.of \notin {0, file}
  /\ email' = Nobody
  /\ UNCHANGED <<file, newest, healthy, entryVars, emailPause, emailFailures, taskVars, ghosts>>

-----------------------------------------------------------------------------
(* The world. *)

\* Somebody logs in again, or a promotion swaps the stores' files.
Rotate ==
  /\ newest < MaxVersion
  /\ newest' = newest + 1 /\ file' = newest + 1
  /\ UNCHANGED <<healthy, entryVars, emailVars, taskVars, ghosts>>

Vanish ==
  /\ file # 0 /\ newest < MaxVersion
  /\ file' = 0
  /\ UNCHANGED <<newest, healthy, entryVars, emailVars, taskVars, ghosts>>

Heal ==
  /\ ~healthy /\ healthy' = TRUE
  /\ UNCHANGED <<file, newest, entryVars, emailVars, taskVars, ghosts>>

\* Memory goes; _load_endpoint_cache brings the persisted entry back.
Restart ==
  /\ entry' = disk /\ pause' = Expired /\ failures' = 0
  /\ email' = Nobody /\ emailPause' = Expired /\ emailFailures' = 0
  /\ pc' = [t \in Tasks |-> "idle"] /\ tok' = [t \in Tasks |-> 0]
  /\ stamp' = [t \in Tasks |-> 0] /\ began' = [t \in Tasks |-> 0]
  /\ since' = Aged /\ asked' = 0
  /\ UNCHANGED <<file, newest, healthy, disk, refused>>

Older(e) == [e EXCEPT !.age = Least(@ + 1, Aged)]

Tick ==
  /\ \A t \in Tasks : pc[t] # "idle" => began[t] < MaxWait
  /\ entry' = Older(entry) /\ disk' = Older(disk)
  /\ pause' = Most(pause - 1, Expired) /\ emailPause' = Most(emailPause - 1, Expired)
  /\ began' = [t \in Tasks |-> IF pc[t] = "idle" THEN 0 ELSE began[t] + 1]
  /\ since' = Least(since + 1, Aged) /\ asked' = Most(asked - 1, 0)
  /\ UNCHANGED <<file, newest, healthy, failures, email, emailFailures, pc, tok, stamp, refused>>

-----------------------------------------------------------------------------
Progress(t) ==
  \/ Enter(t) \/ UsageRead(t) \/ UsageRefused(t) \/ UsageFailed(t)
  \/ Probe(t) \/ Certify(t) \/ ProbeFailed(t) \/ BreaksOff(t)

Next ==
  \/ \E t \in Tasks : Refresh(t) \/ Verify(t) \/ Progress(t)
  \/ Rotate \/ Vanish \/ Look \/ Heal \/ Restart \/ Tick

Spec == Init /\ [][Next]_vars

\* The dashboard is open, fetches have a timeout, and time passes.
Fairness ==
  /\ \A t \in Tasks : WF_vars(Progress(t)) /\ WF_vars(Refresh(t))
  /\ WF_vars(Tick)
FairSpec == Spec /\ Fairness

-----------------------------------------------------------------------------
TypeOK ==
  /\ file \in 0..MaxVersion /\ newest \in Versions
  /\ healthy \in BOOLEAN /\ refused \in BOOLEAN
  /\ {entry, disk} \subseteq [known : BOOLEAN, of : 0..MaxVersion, age : 0..Aged]
  /\ {pause, emailPause} \subseteq Int
  /\ {failures, emailFailures} \subseteq 0..(Steps + 1)
  /\ email.of \in 0..MaxVersion
  /\ pc \in [Tasks -> {"idle", "waiting", "usage", "label", "profile"}]
  /\ tok \in [Tasks -> 0..MaxVersion] /\ stamp \in [Tasks -> 0..MaxVersion]
  /\ began \in [Tasks -> 0..MaxWait]
  /\ since \in 0..Aged /\ asked \in Nat

\* The email that is said to be verified is that of the credential in the file,
\* wherever a rotation fell between the read of the token and the answer.
EmailIsCertified == email.of # 0 /\ email.of = file => email.who = Owner[file]

\* Once the endpoint has refused the credential its cache keeps no usage for it, after
\* a restart neither, until it has answered again.  (The panel falls back to what the
\* bearer's own responses said.)
DeadStaysDead == refused => entry.of = 0 /\ disk.of = 0

\* What is shown beside a credential is its own: a label that was certified for it, and
\* no numbers of the endpoint's once it has been refused.
CardsAreTrue == EmailIsCertified /\ DeadStaysDead

\* However many refreshes are asked for, a process fetches usage one at a time, no
\* more than once in TTL, and not while the endpoint has asked it to stay away, but
\* for the time the refresh itself had to wait.  The spacing is from the last fetch
\* that ended in a reading or in a failure the code knows: one that broke off, on an
\* answer that is not JSON, leaves neither reading nor backoff to keep it.
PollsAreSpaced ==
  [][\A t \in Refreshers : pc[t] = "waiting" /\ pc'[t] = "usage" =>
       /\ since >= TTL - MaxWait /\ asked <= MaxWait
       /\ \A u \in Tasks : pc[u] # "usage"]_vars

\* When both endpoints answer for good and the file stays, its reading and its
\* label come back, whatever failures, rotations and restarts came before; a
\* server that is restarted again and again is another matter.
KnownAgain ==
  (<>[](healthy /\ file # 0) /\ <>[][~Restart]_vars) =>
    []<>(entry.of = file /\ entry.age <= MaxWait /\ email.of = file)
=============================================================================
