------------------------------ MODULE BodyFit ------------------------------
(***************************************************************************)
(* What the proxy leaves out of a request that is too large for its lane.  *)
(* On the chat lane the oldest turns are dropped (fit_chat_completions_    *)
(* body); on the messages lane the oldest tool results and images are      *)
(* replaced by stubs (shrink_body).  A turn is its kind and its size; a    *)
(* session is a transcript that grows by whole exchanges, as agents send   *)
(* them, and is sometimes compacted by its client.                         *)
(***************************************************************************)
EXTENDS Integers, Sequences, FiniteSetsExt

CONSTANTS
  Budget,     \* CHAT_MAX_BODY_BYTES
  KeepTail,   \* CHAT_KEEP_TAIL
  Envelope,   \* bytes of the chat body without its messages
  Note,       \* bytes of the breadcrumb turn, at its widest count
  Cap,        \* CAP_BYTES
  KeepTurns,  \* KEEP_TURNS
  MinBlock,   \* MIN_BLOCK_BYTES
  Stub,       \* bytes of a stub
  Sizes,      \* sizes of turns
  Anchors,    \* sizes of the system prompt, 0 for none
  Spares,     \* bytes the client's own formatting adds
  MaxTurns    \* bound of the model: turns of a transcript

VARIABLES
  anchor,     \* size of the system prompt
  turns,      \* the transcript after it
  spare       \* formatting bytes of the body at hand

bodyVars == <<anchor, turns, spare>>

Trimmable == {"answer", "image"}

Bytes(ts, from) == MapThenSumSet(LAMBDA i : ts[i].size, from..Len(ts))

(***************************************************************************)
(* The chat lane.                                                          *)
(***************************************************************************)
\* Turns before the protected tail: all a cut may drop.
HeadLen == Max({0, Len(turns) - KeepTail})

\* Size of the rewritten body: two bytes separate two turns.
FittedBytes(dropped) ==
  LET crumb == IF dropped = 0 THEN 0 ELSE 1
      kept == (IF anchor = 0 THEN 0 ELSE 1) + crumb + Len(turns) - dropped
  IN Envelope + anchor + crumb * Note + Bytes(turns, dropped + 1) + 2 * (kept - 1)

OriginalBytes == FittedBytes(0) + spare
Fits(dropped) == FittedBytes(dropped) <= Budget

\* The first turn kept answers a call that was dropped.
AnswersADroppedCall(dropped) == turns[dropped + 1].kind = "answer"

\* Bisection for the least count that fits.
LeastFitting ==
  LET search[range \in (1..HeadLen) \X (1..HeadLen)] ==
        LET low == range[1]
            high == range[2]
            middle == (low + high) \div 2
        IN IF low >= high THEN low
           ELSE IF Fits(middle) THEN search[<<low, middle>>]
           ELSE search[<<middle + 1, high>>]
  IN search[<<1, HeadLen>>]

\* Variant: the cut may land between a call and its answer.
SnappedNever(low) == low
Snapped(low) == Min({d \in low..HeadLen : d = HeadLen \/ ~AnswersADroppedCall(d)})

\* Turns dropped by fit_chat_completions_body; 0: the client's own bytes go out.
SmallestFittingCut ==
  IF HeadLen = 0 \/ OriginalBytes <= Budget \/ Fits(0) \/ ~Fits(HeadLen) THEN 0
  ELSE LET cut == Snapped(LeastFitting)
       IN IF AnswersADroppedCall(cut) \/ FittedBytes(cut) >= OriginalBytes THEN 0 ELSE cut

(***************************************************************************)
(* The messages lane.                                                      *)
(***************************************************************************)
ShrunkBytes(stubbed) ==
  anchor + MapThenSumSet(LAMBDA i : IF i \in stubbed THEN Stub ELSE turns[i].size, 1..Len(turns))

\* Blocks old and large enough to be worth a stub.
Eligible == {i \in 1..Max({0, Len(turns) - KeepTurns}) :
               turns[i].kind \in Trimmable /\ turns[i].size >= MinBlock}

\* Blocks shrink_body replaces: oldest first, until the body is under the cap.
Stubbed ==
  LET trim[done \in SUBSET Eligible] ==
        IF done = Eligible \/ (done # {} /\ ShrunkBytes(done) <= Cap) THEN done
        ELSE trim[done \cup {Min(Eligible \ done)}]
  IN IF ShrunkBytes({}) + spare <= Cap THEN {} ELSE trim[{}]

(***************************************************************************)
(* Sessions.                                                               *)
(***************************************************************************)
Exchange ==
  {<<[kind |-> k, size |-> s]>> : k \in {"plain", "image"}, s \in Sizes}
    \cup {<<[kind |-> "call", size |-> c], [kind |-> "answer", size |-> s]>> : c, s \in Sizes}
    \cup {<<[kind |-> "call", size |-> Min(Sizes)], [kind |-> "answer", size |-> s],
            [kind |-> "answer", size |-> t]>> : s, t \in Sizes}

BodyInit == anchor \in Anchors /\ spare \in Spares /\ turns \in Exchange

Send ==
  \E exchange \in Exchange, bytes \in Spares :
    /\ Len(turns) + Len(exchange) <= MaxTurns
    /\ turns' = turns \o exchange
    /\ spare' = bytes
    /\ UNCHANGED anchor

\* The client compacts: one plain turn stands for what it forgot.
Compact ==
  /\ Len(turns) > KeepTail
  /\ \E size \in Sizes : turns' = <<[kind |-> "plain", size |-> size]>>
  /\ UNCHANGED <<anchor, spare>>

BodyNext == Send \/ Compact

(***************************************************************************)
(* What must hold.                                                         *)
(***************************************************************************)
\* Every answer kept still has its call: the call, then only answers, precede it.
Whole(dropped) ==
  \A i \in dropped + 1..Len(turns) : turns[i].kind = "answer" =>
    \E c \in dropped + 1..i - 1 :
      /\ turns[c].kind = "call"
      /\ \A j \in c + 1..i - 1 : turns[j].kind = "answer"

\* The chat body goes out unchanged when it fits or when no cut can save it, and otherwise
\* loses the fewest oldest turns that bring it within budget with every answer's call kept
\* and the live tail whole: bisection and snapping together find that least cut.
CutIsLeast ==
  LET safe == {d \in 1..HeadLen : Fits(d) /\ Whole(d)}
  IN SmallestFittingCut = IF OriginalBytes <= Budget \/ Fits(0) \/ safe = {} THEN 0 ELSE Min(safe)

\* On the messages lane the stubs are the oldest eligible blocks, none of them in the live
\* tail, and leaving out the newest of them would still be too large.
TrimIsLeast ==
  /\ \A i \in Stubbed, j \in Eligible : j < i => j \in Stubbed
  /\ Stubbed # {} => /\ ShrunkBytes({}) + spare > Cap
                     /\ Cardinality(Stubbed) > 1 => ShrunkBytes(Stubbed \ {Max(Stubbed)}) > Cap
  /\ ShrunkBytes({}) + spare > Cap /\ ShrunkBytes(Stubbed) > Cap => Stubbed = Eligible

BodiesAreCutLeast == CutIsLeast /\ TrimIsLeast
=============================================================================
