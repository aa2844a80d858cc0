------------------------------ MODULE QueueWait ------------------------------
(***************************************************************************)
(* The client that waits out the proxy's queue rejections                  *)
(* (clients/pi-queue-wait/queue-wait.mjs): one model request, asked again  *)
(* and again until it is not rejected by the queue.                        *)
(*                                                                         *)
(* The native stream is Pi's: it fetches, may retry by itself, and yields  *)
(* events; the wrapped fetch looks at each response on the way, reading a  *)
(* copy of the body beside the native path.  A former attempt's fetches    *)
(* write to a record nobody reads any more and are dropped.                *)
(***************************************************************************)
EXTENDS Naturals, Sequences

CONSTANTS
  NativeRetries,   \* options.maxRetries
  MaxRejections, MaxWait,
  Delays           \* what a wait may come to, advice and jitter together

VARIABLES
  pc,          \* of the loop: "dispatch", "streaming", "settling", "waiting" or "ended"
  aborted,     \* the parent's signal
  fetches,     \* of this attempt, in the order of their tokens
  rejection,   \* attempt.rejection: the delay of the proven rejection, 0 if none
  capture,     \* attempt.capture: the fetch whose body is read, 0 if none
  saw,         \* attempt.sawPriorEvent
  event,       \* the native error event: is it empty and free of charge?
  rejections, waited, delay,
  out,         \* the outer stream: did an event go through, and its terminal ones
  waiting,     \* onWait's last signal
  proven       \* ghost: rejections by the queue that the native stream was handed

attempt == <<fetches, rejection, capture, saw, event>>
books == <<rejections, waited, delay, proven>>
vars == <<pc, aborted, attempt, books, out, waiting>>

Init ==
  /\ pc = "dispatch" /\ aborted = FALSE
  /\ fetches = <<>> /\ rejection = 0 /\ capture = 0 /\ saw = FALSE /\ event = FALSE
  /\ rejections = 0 /\ waited = 0 /\ delay = 0 /\ proven = 0
  /\ out = [through |-> FALSE, terminal |-> <<>>] /\ waiting = FALSE

\* finish, finishWithEvent, emitSynthetic and the last resort of run.
End(how) ==
  /\ pc' = "ended" /\ waiting' = FALSE
  /\ out' = [out EXCEPT !.terminal = Append(@, how)]

-----------------------------------------------------------------------------
(* The wrapped fetch. *)

Latest == Len(fetches)
Asked == [answer |-> "none", body |-> "none", back |-> FALSE, stop |-> FALSE]
NativeIdle == \A i \in DOMAIN fetches : fetches[i].back

\* The native stream fetches, and again unless it was told not to.
Ask ==
  /\ pc = "streaming" /\ NativeIdle /\ Latest <= NativeRetries
  /\ Latest > 0 => fetches[Latest].answer # "fine" /\ ~fetches[Latest].stop
  /\ fetches' = Append(fetches, Asked)
  /\ rejection' = 0 /\ capture' = 0
  /\ UNCHANGED <<pc, aborted, saw, event, books, out, waiting>>

\* A response comes: a copy of what bears the queue's stamps is read ("other" if it
\* cannot be taken); with
\* native retries on, the original is kept back until it is.
Answer(answer) ==
  /\ Latest > 0 /\ fetches[Latest].answer = "none" /\ ~fetches[Latest].back
  /\ LET stamped == answer \in {"queue", "lookalike"}
         kept == stamped /\ NativeRetries > 0 /\ ~saw
     IN  /\ fetches' = [fetches EXCEPT ![Latest].answer = answer,
                                       ![Latest].body = IF stamped THEN "unread" ELSE @,
                                       ![Latest].back = ~kept]
         /\ capture' = IF stamped THEN Latest ELSE capture
         /\ proven' = IF stamped /\ answer = "queue" /\ ~kept THEN proven + 1 ELSE proven
  /\ UNCHANGED <<pc, aborted, rejection, saw, event, rejections, waited, delay, out, waiting>>

\* Variant: whichever body has been read last decides.
ReadAny(i, d) ==
  /\ i \in DOMAIN fetches /\ fetches[i].body = "unread"
  /\ fetches' = [fetches EXCEPT ![i].body = "read"]
  /\ rejection' = IF fetches[i].answer = "queue" THEN d ELSE 0
  /\ UNCHANGED <<pc, aborted, capture, saw, event, books, out, waiting>>

\* The copy has been read, or cannot be: only the latest fetch's verdict counts.
Read(i, d) ==
  /\ i \in DOMAIN fetches /\ fetches[i].body = "unread"
  /\ fetches' = [fetches EXCEPT ![i].body = "read"]
  /\ rejection' = IF i # Latest THEN rejection ELSE IF fetches[i].answer = "queue" THEN d ELSE 0
  /\ UNCHANGED <<pc, aborted, capture, saw, event, books, out, waiting>>

ReadFails(i) ==
  /\ i \in DOMAIN fetches /\ fetches[i].body = "unread"
  /\ fetches' = [fetches EXCEPT ![i].body = "read"]
  /\ rejection' = IF i = Latest THEN 0 ELSE rejection
  /\ UNCHANGED <<pc, aborted, capture, saw, event, books, out, waiting>>

\* Variant: the native stream is not told to leave the retry to the queue wait.
HandBackPlain ==
  /\ Latest > 0 /\ ~fetches[Latest].back /\ fetches[Latest].body = "read"
  /\ fetches' = [fetches EXCEPT ![Latest].back = TRUE]
  /\ proven' = IF rejection > 0 THEN proven + 1 ELSE proven
  /\ UNCHANGED <<pc, aborted, rejection, capture, saw, event, rejections, waited, delay, out, waiting>>

\* What was kept back goes on; a proven rejection says "x-should-retry: false".
HandBack ==
  /\ Latest > 0 /\ ~fetches[Latest].back /\ fetches[Latest].body = "read"
  /\ fetches' = [fetches EXCEPT ![Latest].back = TRUE,
                                ![Latest].stop = rejection > 0 /\ ~saw]
  /\ proven' = IF rejection > 0 THEN proven + 1 ELSE proven
  /\ UNCHANGED <<pc, aborted, rejection, capture, saw, event, rejections, waited, delay, out, waiting>>

\* The native stream's own timeout, or the parent's abort.
FetchThrows ==
  /\ Latest > 0 /\ ~fetches[Latest].back
  /\ fetches' = [fetches EXCEPT ![Latest].back = TRUE]
  /\ UNCHANGED <<pc, aborted, rejection, capture, saw, event, books, out, waiting>>

-----------------------------------------------------------------------------
(* The loop. *)

Dispatch ==
  /\ pc = "dispatch"
  /\ IF aborted THEN End("aborted") /\ UNCHANGED attempt
     ELSE /\ pc' = "streaming"
          /\ fetches' = <<>> /\ rejection' = 0 /\ capture' = 0 /\ saw' = FALSE /\ event' = FALSE
          /\ UNCHANGED <<out, waiting>>
  /\ UNCHANGED <<aborted, books>>

\* An event that is no error goes through.
Event ==
  /\ pc = "streaming" /\ ~saw
  /\ saw' = TRUE /\ out' = [out EXCEPT !.through = TRUE]
  /\ UNCHANGED <<pc, aborted, fetches, rejection, capture, event, books, waiting>>

Done ==
  /\ pc = "streaming" /\ saw
  /\ End("done") /\ UNCHANGED <<aborted, attempt, books>>

\* mustForward for an error event; "free" says that it is empty and costs nothing.
MustForward(free) == saw \/ aborted \/ rejection = 0 \/ ~free

\* Past the capture: forwarded, given up, or waited for.
Classify(free) ==
  \/ MustForward(free) /\ End("native") /\ UNCHANGED books
  \/ /\ ~MustForward(free)
     /\ rejections' = rejections + 1
     /\ IF rejections' > MaxRejections \/ waited + rejection > MaxWait
        THEN End("gave up") /\ UNCHANGED delay
        ELSE /\ \/ pc' = "waiting" /\ waiting' = TRUE /\ out' = out
                \/ End("error")   \* onWait throws
             /\ delay' = rejection
     /\ UNCHANGED <<waited, proven>>

\* The native stream ends with an error event.
Error(free) ==
  /\ pc = "streaming"
  /\ event' = free
  /\ IF capture = 0 THEN Classify(free) ELSE pc' = "settling" /\ UNCHANGED <<books, out, waiting>>
  /\ UNCHANGED <<aborted, fetches, rejection, capture, saw>>

\* It throws instead.
Throw ==
  /\ pc = "streaming"
  /\ End(IF aborted THEN "aborted" ELSE "error") /\ UNCHANGED <<aborted, attempt, books>>

\* Variant: the body is waited for whatever the caller wants.
SettlePatiently ==
  /\ pc = "settling" /\ fetches[capture].body = "read" /\ Classify(event)
  /\ UNCHANGED <<aborted, attempt>>

\* awaitCapture: the body is read, or the caller does not want it any more.
Settle ==
  /\ pc = "settling"
  /\ \/ fetches[capture].body = "read" /\ Classify(event)
     \/ aborted /\ End("aborted") /\ UNCHANGED books
  /\ UNCHANGED <<aborted, attempt>>


\* The sleep is aborted, or fails.
CutShort ==
  /\ pc = "waiting"
  /\ \/ aborted /\ End("aborted")
     \/ End("error")
  /\ UNCHANGED <<aborted, attempt, books>>

Awake ==
  /\ pc = "waiting"
  /\ \/ aborted /\ End("aborted") /\ UNCHANGED waited
     \/ /\ ~aborted /\ waited' = waited + delay
        /\ \/ pc' = "dispatch" /\ waiting' = FALSE /\ out' = out
           \/ End("error")   \* onWait throws
  /\ UNCHANGED <<aborted, attempt, rejections, delay, proven>>

Abort ==
  /\ ~aborted /\ aborted' = TRUE
  /\ UNCHANGED <<pc, attempt, books, out, waiting>>

FetchStep == Ask \/ (\E a \in {"queue", "lookalike", "other", "fine"} : Answer(a)) \/ HandBack \/ FetchThrows
NativeEnds == Done \/ Throw \/ \E free \in BOOLEAN : Error(free)
LoopStep == Dispatch \/ Settle \/ CutShort \/ Awake

Next ==
  \/ pc = "streaming" /\ FetchStep
  \/ \E i \in DOMAIN fetches : pc \in {"streaming", "settling"}
       /\ (ReadFails(i) \/ \E d \in Delays : Read(i, d))
  \/ Event \/ NativeEnds \/ LoopStep
  \/ pc # "ended" /\ Abort

Spec == Init /\ [][Next]_vars

\* Tasks run and sleeps end; the native stream is given the caller's signal and
\* ends after it.  Nobody promises that a response, or its copy, is ever read.
FairSpec == Spec /\ WF_vars(LoopStep) /\ WF_vars(aborted /\ NativeEnds)

-----------------------------------------------------------------------------
TypeOK ==
  /\ pc \in {"dispatch", "streaming", "settling", "waiting", "ended"}
  /\ Latest <= NativeRetries + 1 /\ capture \in 0..Latest
  /\ rejection \in {0} \cup Delays

\* The stream ends once, on every path, and then no wait is shown any more.
EndsOnce ==
  /\ Len(out.terminal) = (IF pc = "ended" THEN 1 ELSE 0)
  /\ pc = "ended" => ~waiting

\* The request is only sent again when nothing of it has reached the caller and
\* its very last fetch, not an earlier one, was rejected by the queue.
RetryIsProven ==
  [][pc = "waiting" /\ pc' = "dispatch" =>
       ~out.through /\ fetches[Latest].answer = "queue" /\ capture = Latest]_vars

\* Every rejection the queue made known is one the wait accounts for, or the
\* end: the native stream retries none of them behind its back.
RejectionsAreCounted ==
  /\ rejections <= MaxRejections + 1 /\ waited <= MaxWait
  /\ ~out.through => proven <= rejections + 1

\* A caller that aborts is let go, even if a body is never read to its end.
AbortEnds == aborted ~> pc = "ended"
=============================================================================
