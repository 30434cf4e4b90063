---------------------------- MODULE FramedStream ----------------------------
(***************************************************************************)
(* A streamed JSON entity with `newLineDelimiterFraming`, from the         *)
(* interpreter that sends it to the one that receives it. The transport    *)
(* keeps the bytes and their order but may cut them anywhere. A frame is   *)
(* the text of one value; the characters of a value are ASCII, or encoded  *)
(* by the two bytes "hi" and "lo".                                         *)
(***************************************************************************)
EXTENDS Naturals, Sequences, SequencesExt, FiniteSets, Folding

CONSTANTS
  Values,        \* the texts of the values that each receiver is sent: character sequences
  Undecodable,   \* those that the receiver's codec rejects
  Pairs,         \* the interpreters: <<sender, receiver>>
  MaxValues      \* bound: the number of values sent

AsciiChars == {"a", "b"}
Senders    == {"afterEach", "between"}
Receivers  == {"fetch", "http4s", "pekko"}

ASSUME FramedStreamAssumption ==
  /\ Values \in [Receivers -> SUBSET (Seq(AsciiChars \cup {"e"}) \ {<<>>})]
  /\ Pairs \subseteq Senders \X Receivers
  /\ MaxValues \in Nat

VARIABLES
  sender, receiver,  \* the interpreters at work
  sent, ended,       \* what the producer gave, and whether it is done
  wire,              \* bytes sent and not received
  lost,              \* the connection was lost
  carry,             \* "hi", held back by a streaming decoder
  buffer,            \* of the framing: the beginning of a frame
  firstChunk,        \* no chunk was received
  queue,             \* values decoded and not consumed
  status,            \* of the decoded stream
  consumed

vars == <<sender, receiver, sent, ended, wire, lost, carry, buffer, firstChunk,
          queue, status, consumed>>

receiving == <<carry, buffer, firstChunk, queue, status>>

(***************************************************************************)
(* Text.                                                                   *)
(***************************************************************************)
Unit == AsciiChars \cup {"e", "hi", "lo", "nl", "U+FFFD"}   \* characters and bytes

BytesOf(char) == IF char = "e" THEN <<"hi", "lo">> ELSE <<char>>

Encode(text) ==
  Folded([bytes \in Seq(Unit) |-> [char \in Unit |-> bytes \o BytesOf(char)]], <<>>, text)

\* A decoder that was given all the bytes: what is not a character becomes U+FFFD.
DecodeText(bytes) ==
  LET step == [text \in Seq(Unit) |-> [byte \in Unit |->
        IF byte # "lo" THEN Append(text, byte)
        ELSE IF text # <<>> /\ Last(text) = "hi" THEN Append(Front(text), "e")
        ELSE Append(text, "U+FFFD")]]
      text == Folded(step, <<>>, bytes)
  IN  [i \in DOMAIN text |-> IF text[i] = "hi" THEN "U+FFFD" ELSE text[i]]

(***************************************************************************)
(* Senders: the fetch client ends every frame with a new-line, the others  *)
(* put one between two frames.                                             *)
(***************************************************************************)
Framed(v) ==
  CASE sender = "afterEach" -> Encode(v) \o <<"nl">>
    [] sender = "between"   -> (IF sent = <<>> THEN <<>> ELSE <<"nl">>) \o Encode(v)

Send(v) ==
  /\ ~ended /\ ~lost
  /\ Len(sent) < MaxValues
  /\ sent' = Append(sent, v)
  /\ wire' = wire \o Framed(v)
  /\ UNCHANGED <<sender, receiver, ended, lost, receiving, consumed>>

End ==
  /\ ~ended
  /\ ended' = TRUE
  /\ UNCHANGED <<sender, receiver, sent, wire, lost, receiving, consumed>>

(***************************************************************************)
(* Receivers.                                                              *)
(***************************************************************************)

\* A bug: every chunk is a frame.
SplitChunk(units) == [frames |-> <<units>>, rest |-> <<>>]

\* A bug: at most one frame is taken out of a chunk.
SplitOnce(units) ==
  LET all == buffer \o units
      i   == SelectInSeq(all, LAMBDA unit : unit = "nl")
  IN  IF i = 0 THEN [frames |-> <<>>, rest |-> all]
      ELSE [frames |-> <<SubSeq(all, 1, i - 1)>>, rest |-> SubSeq(all, i + 1, Len(all))]

\* The complete frames of the buffer and what was received, and the new buffer.
Split(units) ==
  LET step == [acc \in [frames : Seq(Seq(Unit)), rest : Seq(Unit)] |-> [unit \in Unit |->
        IF unit = "nl" THEN [frames |-> Append(acc.frames, acc.rest), rest |-> <<>>]
                       ELSE [acc EXCEPT !.rest = Append(@, unit)]]]
  IN  Folded(step, [frames |-> <<>>, rest |-> <<>>], buffer \o units)

\* The units of a chunk that its decoder hands to the framing: bodyText decodes across
\* chunks, TextDecoder.decode does not, and PekkoFraming splits the bytes.
Units(chunk) ==
  CASE receiver = "http4s" ->
         LET bytes == carry \o chunk
         IN  DecodeText(IF Last(bytes) = "hi" THEN Front(bytes) ELSE bytes)
    [] receiver = "fetch"  -> DecodeText(chunk)
    [] receiver = "pekko"  -> chunk

Carry(chunk) ==
  IF receiver = "http4s" /\ Last(chunk) = "hi" THEN <<"hi">> ELSE <<>>

TextOf(frame) == IF receiver = "pekko" THEN DecodeText(frame) ELSE frame

\* JSON is never empty. A character that was garbled, in a JSON string, decodes all right.
Decodes(text) == text # <<>> /\ text \notin Undecodable

\* A bug: a failure drops the values before it.
DecodeOrDrop(frames, end) ==
  LET texts == [i \in DOMAIN frames |-> TextOf(frames[i])]
  IN  IF \E i \in DOMAIN texts : ~Decodes(texts[i])
        THEN status' = "failed" /\ queue' = <<>>
        ELSE status' = end /\ queue' = queue \o texts

\* The frames are decoded up to the first that fails. Then the stream fails: a
\* ReadableStream forgets the values it has queued, the others deliver them first.
DecodeAll(frames, end) ==
  LET texts == [i \in DOMAIN frames |-> TextOf(frames[i])]
      bad   == {i \in DOMAIN texts : ~Decodes(texts[i])}
      good  == IF bad = {} THEN texts
               ELSE SubSeq(texts, 1, (CHOOSE i \in bad : \A j \in bad : i <= j) - 1)
  IN  /\ status' = IF bad = {} THEN end ELSE "failed"
      /\ queue'  = IF bad # {} /\ receiver = "fetch" THEN <<>> ELSE queue \o good

\* The transport delivers the next n bytes.
Receive(n) ==
  LET chunk == SubSeq(wire, 1, n)
      split == Split(Units(chunk))
  IN  /\ status = "open"
      /\ wire' = SubSeq(wire, n + 1, Len(wire))
      /\ carry' = Carry(chunk)
      /\ buffer' = split.rest
      /\ firstChunk' = FALSE
      /\ DecodeAll(split.frames, "open")
      /\ UNCHANGED <<sender, receiver, sent, ended, lost, consumed>>

\* A bug: the buffer is flushed even when there was no chunk.
AlwaysLastFrame == <<buffer>>

\* A bug: what follows the last new-line is forgotten.
NoLastFrame == <<>>

\* What is left at the end is a frame: always after a chunk, or, for PekkoFraming, when
\* it is not empty.
LastFrame ==
  IF receiver = "pekko" THEN (IF buffer = <<>> THEN <<>> ELSE <<buffer>>)
                        ELSE (IF firstChunk THEN <<>> ELSE <<buffer>>)

\* A bug: a stream that ends without a chunk is not closed.
FinishAfterChunk ==
  /\ status = "open"
  /\ ended /\ ~lost /\ wire = <<>> /\ ~firstChunk
  /\ DecodeAll(LastFrame, "closed")
  /\ UNCHANGED <<sender, receiver, sent, ended, wire, lost, carry, buffer, firstChunk,
                 consumed>>

Finish ==
  /\ status = "open"
  /\ ended /\ ~lost /\ wire = <<>>
  /\ DecodeAll(LastFrame, "closed")
  /\ UNCHANGED <<sender, receiver, sent, ended, wire, lost, carry, buffer, firstChunk,
                 consumed>>

\* The connection is lost: what is under way is, too, and the stream fails. A stream of fs2
\* keeps what it has; the delimiter of Pekko drops the frames that nobody has pulled yet.
Lose ==
  /\ status = "open" /\ ~lost
  /\ lost' = TRUE
  /\ wire' = <<>>
  /\ status' = "failed"
  /\ \E kept \in 0 .. Len(queue) :
       /\ receiver = "fetch" => kept = 0
       /\ receiver = "http4s" => kept = Len(queue)
       /\ queue' = SubSeq(queue, 1, kept)
  /\ UNCHANGED <<sender, receiver, sent, ended, carry, buffer, firstChunk, consumed>>

Consume ==
  /\ queue # <<>>
  /\ consumed' = Append(consumed, Head(queue))
  /\ queue' = Tail(queue)
  /\ UNCHANGED <<sender, receiver, sent, ended, wire, lost, carry, buffer, firstChunk,
                 status>>

Init ==
  /\ \E pair \in Pairs : sender = pair[1] /\ receiver = pair[2]
  /\ sent = <<>> /\ ended = FALSE /\ wire = <<>> /\ lost = FALSE
  /\ carry = <<>> /\ buffer = <<>> /\ firstChunk = TRUE
  /\ queue = <<>> /\ status = "open" /\ consumed = <<>>

ReceiveSome == \E n \in 1 .. Len(wire) : Receive(n)

Next ==
  \/ \E v \in Values[receiver] : Send(v)
  \/ End \/ ReceiveSome \/ Finish \/ Lose \/ Consume

Spec == Init /\ [][Next]_vars

\* The transport and the pumps go on; so does a consumer.
FairSpec == Spec /\ WF_vars(ReceiveSome) /\ WF_vars(Finish) /\ WF_vars(Consume)

(***************************************************************************)
(* Properties.                                                             *)
(***************************************************************************)

delivered == consumed \o queue

\* Framing "solves the issue of re-framing": however the transport cuts the bytes, the
\* values that arrive are the first of those sent, unchanged, in order and once each.
PrefixDelivered == IsPrefix(delivered, sent)

\* "Server interpreter must be able to decode chunks encoded by the client, and vice
\* versa": a stream fails only for a value its codec rejects, or a lost connection.
NoSpuriousFailure ==
  status = "failed" => lost \/ \E i \in DOMAIN sent : sent[i] \in Undecodable

\* A consumer that is slower than the decoder still gets every value before a failure
\* (fs2 streams and Pekko sources).
FailureKeepsValues ==
  status = "failed" /\ ~lost /\ receiver # "fetch" =>
    /\ Len(delivered) < Len(sent)
    /\ sent[Len(delivered) + 1] \in Undecodable

\* On a stream that stays open a value waits at most for the next one: only the last
\* can be held back (its new-line comes with its successor, or with the end).
BoundedLag ==
  wire = <<>> /\ status = "open" =>
    Len(delivered) >= Len(sent) - (IF sender = "between" THEN 1 ELSE 0)

\* A stream that ends is seen to end by its consumer, with all the values or a failure.
StreamEnds == ended ~> status # "open" /\ queue = <<>>

\* Whatever the interpreters, the entity is a stream of the values sent.
Abstract == INSTANCE ChunkStream
  WITH Value    <- UNION Range(Values),
       Bad      <- Undecodable,
       received <- consumed,
       broken   <- lost,
       lossy    <- receiver = "fetch",
       status   <- IF queue = <<>> THEN status ELSE "open"

ImplementsChunkStream == Abstract!SSpec
=============================================================================
