----------------------------- MODULE IpcFraming -----------------------------
(***************************************************************************)
(* encodeFrame and FrameDecoder of src/protocol.ts: a message travels as   *)
(* the length of its JSON text, little endian, and the text.  A byte is a  *)
(* number below Base, the header has HeaderLength of them, and the text of *)
(* a message is any byte string that no other message has.                 *)
(***************************************************************************)
EXTENDS Integers, Sequences, SequencesExt

CONSTANTS Base, HeaderLength,  \* 256 and 4
          MaxFrame,            \* MAX_IPC_FRAME_BYTES
          Text                 \* messages, each with its JSON text

Messages == DOMAIN Text
Bytes == 0..(Base - 1)

\* What a one in byte i + 1 of a header stands for.
Weight[i \in 0..HeaderLength] == IF i = 0 THEN 1 ELSE Base * Weight[i - 1]

IsJson(text) == \E m \in Messages : Text[m] = text
Parse(text) == CHOOSE m \in Messages : Text[m] = text

\* Short texts that are no JSON.
BadTexts ==
  {t \in {<<b>> : b \in Bytes} \union {<<b, c>> : b, c \in Bytes} :
     Len(t) <= MaxFrame /\ ~IsJson(t)}

ASSUME FramingAssumption ==
  /\ Base \in Nat \ {0, 1} /\ HeaderLength \in Nat \ {0}
  /\ MaxFrame \in Nat \ {0} /\ MaxFrame + 1 < Weight[HeaderLength]
  /\ Text \in [Messages -> Seq(Bytes)]
  /\ \A m \in Messages : Len(Text[m]) \in 1..MaxFrame
  /\ IsInjective(Text)
  /\ BadTexts # {}

\* writeUInt32LE and readUInt32LE
Header(n) == [i \in 1..HeaderLength |-> (n \div Weight[i - 1]) % Base]
Declared(bytes) ==
  LET Value[i \in 0..HeaderLength] ==
        IF i = 0 THEN 0 ELSE Value[i - 1] + bytes[i] * Weight[i - 1]
  IN Value[HeaderLength]

Frame(m) == Header(Len(Text[m])) \o Text[m]

\* The frames of several messages, one after the other.
Wire(messages) == FlattenSeq([i \in DOMAIN messages |-> Frame(messages[i])])

\* Frames no encodeFrame makes: no text, a text beyond the limit, no JSON.
ZeroLength == Header(0)
Oversized == Header(MaxFrame + 1)
Gibberish ==
  LET text == CHOOSE t \in BadTexts : TRUE
  IN Header(Len(text)) \o text

Decoded(messages, rest) == [messages |-> messages, rest |-> rest, failed |-> FALSE]
Undecodable(rest) == [messages |-> <<>>, rest |-> rest, failed |-> TRUE]

\* A frame is taken only when a byte of the next one has come.
IsWholeBug(bytes, n) == Len(bytes) > HeaderLength + n

IsWhole(bytes, n) == Len(bytes) >= HeaderLength + n

\* The loop of push, once around.  What it has parsed before it meets a bad
\* frame is lost with the exception.
NextFrame(d) ==
  LET n == Declared(d.rest)
      text == SubSeq(d.rest, HeaderLength + 1, HeaderLength + n)
      after == SubSeq(d.rest, HeaderLength + n + 1, Len(d.rest))
  IN CASE d.failed \/ Len(d.rest) < HeaderLength -> d
       [] ~d.failed /\ Len(d.rest) >= HeaderLength /\ n \notin 1..MaxFrame -> Undecodable(d.rest)
       [] OTHER ->
          IF ~IsWhole(d.rest, n) THEN d
          ELSE IF IsJson(text) THEN Decoded(Append(d.messages, Parse(text)), after)
          ELSE Undecodable(after)

\* push, on the bytes it has buffered.  What is left over is shorter than a
\* frame, so its limit at the end of push is never exceeded.
Drain(bytes) ==
  LET Loop[i \in 0..Len(bytes)] ==
        IF i = 0 THEN Decoded(<<>>, bytes) ELSE NextFrame(Loop[i - 1])
  IN Loop[Len(bytes)]
=============================================================================
