------------------------- MODULE UrlExchangeProofs --------------------------
(***************************************************************************)
(* Proofs about the exchange of a URL (UrlExchange), on those of UrlProofs *)
(* about its path and its query string: for any description of a URL, any  *)
(* value, and texts of any length.                                         *)
(***************************************************************************)
EXTENDS UrlProofs

(***************************************************************************)
(* The slashes of the segments. A static segment with a slash is wanted as *)
(* one segment with a slash, but is written as several without: counting   *)
(* the segments that have one shows that the value does not arrive.        *)
(***************************************************************************)
HasSlash(text) == \E i \in DOMAIN text : text[i] \in {"/", "%2F"}

CountSlash == [n \in Nat |-> [text \in OnWire |-> IF HasSlash(text) THEN n + 1 ELSE n]]

Slashes(segments) == Folded(CountSlash, 0, segments)

LEMMA SlashesType == \A s \in Seq(OnWire) : Slashes(s) \in Nat
<1>1. 0 \in Nat /\ \A n \in Nat : \A text \in OnWire : CountSlash[n][text] \in Nat
  BY DEF CountSlash
<1>2. \A s \in Seq(OnWire) : Folded(CountSlash, 0, s) \in Nat
  BY <1>1, FoldedIn
<1> QED BY <1>2 DEF Slashes

LEMMA SlashesEmpty == Slashes(<<>>) = 0
BY FoldedEmpty DEF Slashes

LEMMA SlashesAppend ==
  ASSUME NEW s \in Seq(OnWire), NEW text \in OnWire
  PROVE  Slashes(Append(s, text)) = IF HasSlash(text) THEN Slashes(s) + 1 ELSE Slashes(s)
<1>1. Folded(CountSlash, 0, Append(s, text)) = CountSlash[Folded(CountSlash, 0, s)][text]
  BY FoldedAppend
<1>2. Slashes(s) \in Nat
  BY SlashesType
<1> QED BY <1>1, <1>2 DEF Slashes, CountSlash

LEMMA SlashesOne ==
  ASSUME NEW text \in OnWire
  PROVE  <<text>> \in Seq(OnWire) /\ Slashes(<<text>>) = IF HasSlash(text) THEN 1 ELSE 0
<1>1. PICK none \in Seq(OnWire) : none = <<>>
  BY EmptySeq, Zenon
<1>2. Append(none, text) = <<text>>
  BY <1>1
<1>3. Slashes(none) = 0
  BY <1>1, SlashesEmpty
<1>4. Slashes(Append(none, text)) = IF HasSlash(text) THEN 0 + 1 ELSE 0
  BY <1>3, SlashesAppend
<1> QED BY <1>2, <1>4

LEMMA SlashesConcat ==
  ASSUME NEW s \in Seq(OnWire)
  PROVE  \A t \in Seq(OnWire) : Slashes(s \o t) = Slashes(s) + Slashes(t)
<1> DEFINE G == {t \in Seq(OnWire) : Slashes(s \o t) = Slashes(s) + Slashes(t)}
<1>0. Slashes(s) \in Nat
  BY SlashesType
<1>1. <<>> \in G
  <2>1. s \o <<>> = s
    OBVIOUS
  <2> QED BY <1>0, <2>1, SlashesEmpty
<1>2. ASSUME NEW t \in Seq(OnWire), NEW text \in OnWire, t \in G PROVE Append(t, text) \in G
  <2>1. PICK u \in Seq(OnWire) : u = s \o t
    BY ConcatProperties, Zenon
  <2>2. Slashes(u) = Slashes(s) + Slashes(t) /\ Slashes(t) \in Nat
    BY <1>2, <2>1, SlashesType
  <2>3. s \o Append(t, text) = Append(u, text)
    BY <2>1, ConcatAppend, SMTT(30)
  <2>4. Slashes(Append(u, text)) = IF HasSlash(text) THEN Slashes(u) + 1 ELSE Slashes(u)
    BY SlashesAppend
  <2>5. Slashes(Append(t, text)) = IF HasSlash(text) THEN Slashes(t) + 1 ELSE Slashes(t)
    BY SlashesAppend
  <2>6. Slashes(s \o Append(t, text)) = Slashes(s) + Slashes(Append(t, text))
    <3>1. \A x, y \in Nat : (x + y) + 1 = x + (y + 1)
      OBVIOUS
    <3> QED BY <1>0, <2>2, <2>3, <2>4, <2>5, <3>1
  <2>7. Append(t, text) \in Seq(OnWire)
    OBVIOUS
  <2> QED BY <2>6, <2>7
<1> HIDE DEF G
<1>3. \A t \in Seq(OnWire) : t \in G
  BY <1>1, <1>2, EverySequence
<1> QED BY <1>3 DEF G

\* Segments without a slash.
LEMMA SlashesNone ==
  ASSUME NEW C \in SUBSET OnWire, \A text \in C : ~HasSlash(text)
  PROVE  \A s \in Seq(C) : s \in Seq(OnWire) /\ Slashes(s) = 0
<1> DEFINE G == {s \in Seq(C) : Slashes(s) = 0}
<1>1. <<>> \in G
  BY SlashesEmpty
<1>2. ASSUME NEW s \in Seq(C), NEW text \in C, s \in G PROVE Append(s, text) \in G
  <2>1. s \in Seq(OnWire) /\ text \in OnWire
    BY SeqMonotonic
  <2>2. Slashes(Append(s, text)) = Slashes(s)
    BY <2>1, SlashesAppend
  <2>3. Append(s, text) \in Seq(C)
    OBVIOUS
  <2> QED BY <1>2, <2>2, <2>3
<1> HIDE DEF G
<1>3. \A s \in Seq(C) : s \in G
  BY <1>1, <1>2, EverySequence
<1>4. \A s \in Seq(C) : s \in Seq(OnWire)
  BY SeqMonotonic
<1> QED BY <1>3, <1>4 DEF G

\* Segments that have slashes where others have.
SlashedLike(s, t) ==
  Len(s) = Len(t) /\ \A i \in 1 .. Len(s) : HasSlash(s[i]) <=> HasSlash(t[i])

LEMMA SlashesLike ==
  \A s, t \in Seq(OnWire) : SlashedLike(s, t) => Slashes(s) = Slashes(t)
<1> DEFINE G == {s \in Seq(OnWire) :
                   \A t \in Seq(OnWire) : SlashedLike(s, t) => Slashes(s) = Slashes(t)}
<1>1. <<>> \in G
  <2>1. PICK none \in Seq(OnWire) : none = <<>> /\ Len(none) = 0
    BY EmptySeq, Zenon
  <2>2. \A t \in Seq(OnWire) : Len(t) = 0 => t = <<>>
    BY EmptySeq
  <2>3. \A t \in Seq(OnWire) : SlashedLike(none, t) => t = none
    BY <2>1, <2>2 DEF SlashedLike
  <2> QED BY <2>1, <2>3
<1>2. ASSUME NEW s \in Seq(OnWire), NEW x \in OnWire, s \in G PROVE Append(s, x) \in G
  <2>1. ASSUME NEW t \in Seq(OnWire), SlashedLike(Append(s, x), t)
        PROVE  Slashes(Append(s, x)) = Slashes(t)
    <3>1. /\ Len(Append(s, x)) = Len(s) + 1 /\ Len(s) \in Nat /\ Append(s, x)[Len(s) + 1] = x
          /\ \A i \in 1 .. Len(s) : Append(s, x)[i] = s[i]
      OBVIOUS
    <3>2. Len(t) = Len(s) + 1
      BY <2>1, <3>1 DEF SlashedLike
    <3>3. t # <<>>
      BY <3>1, <3>2
    <3>4. PICK u \in Seq(OnWire), y \in OnWire : t = Append(u, y)
      BY <3>3, SequenceEmptyOrAppend
    <3>5. /\ Len(u) = Len(s) /\ t[Len(s) + 1] = y
          /\ \A i \in 1 .. Len(s) : t[i] = u[i]
      BY <3>1, <3>2, <3>4
    <3>6. SlashedLike(s, u) /\ (HasSlash(x) <=> HasSlash(y))
      <4>1. \A i \in 1 .. Len(s) + 1 : HasSlash(Append(s, x)[i]) <=> HasSlash(t[i])
        BY <2>1, <3>1 DEF SlashedLike
      <4>2. Len(s) + 1 \in 1 .. Len(s) + 1 /\ \A i \in 1 .. Len(s) : i \in 1 .. Len(s) + 1
        BY <3>1
      <4>3. HasSlash(x) <=> HasSlash(y)
        BY <3>1, <3>5, <4>1, <4>2
      <4>4. \A i \in 1 .. Len(s) : HasSlash(s[i]) <=> HasSlash(u[i])
        <5> TAKE i \in 1 .. Len(s)
        <5>1. HasSlash(Append(s, x)[i]) <=> HasSlash(t[i])
          BY <4>1, <4>2
        <5> QED BY <3>1, <3>5, <5>1
      <4> QED BY <3>5, <4>3, <4>4 DEF SlashedLike
    <3>7. Slashes(s) = Slashes(u)
      BY <1>2, <3>6
    <3> QED BY <3>4, <3>6, <3>7, SlashesAppend
  <2>2. Append(s, x) \in Seq(OnWire)
    OBVIOUS
  <2> QED BY <2>1, <2>2
<1> HIDE DEF G
<1>3. \A s \in Seq(OnWire) : s \in G
  BY <1>1, <1>2, EverySequence
<1> QED BY <1>3 DEF G

\* No conversion makes a slash, or loses one.
LEMMA SlashKept ==
  /\ \A c \in Wire : /\ Unescape(c) \in {"/", "%2F"} <=> c \in {"/", "%2F"}
                     /\ FormDecode(c) \in {"/", "%2F"} <=> c \in {"/", "%2F"}
  /\ \A client : \A c \in Characters :
       SegmentChar(client, c) \in {"/", "%2F"} <=> c \in {"/", "%2F"}
  /\ \A client : \A c \in Wire :
       RemainingChar(client, c) \in {"/", "%2F"} <=> c \in {"/", "%2F"}
  BY DEF Wire, Characters, Escapes, Unescape, FormDecode, SegmentChar, RemainingChar

LEMMA HasSlashDecoded ==
  ASSUME NEW server, NEW t \in OnWire
  PROVE  Decoded(server, t) \in Text /\ (HasSlash(Decoded(server, t)) <=> HasSlash(t))
<1>1. DOMAIN t = 1 .. Len(t) /\ \A i \in DOMAIN t : t[i] \in Wire
  <2>1. t \in Seq(Wire)
    BY CharactersAre
  <2> QED BY <2>1
<1>2. /\ DOMAIN FormDecoded(t) = DOMAIN t /\ DOMAIN Unescaped(t) = DOMAIN t
      /\ \A i \in DOMAIN t : FormDecoded(t)[i] = FormDecode(t[i]) /\ Unescaped(t)[i] = Unescape(t[i])
  BY DEF FormDecoded, Unescaped
<1>3. FormDecoded(t) \in Text /\ Unescaped(t) \in Text
  BY DecodedText
<1>4. HasSlash(FormDecoded(t)) <=> HasSlash(t)
  BY <1>1, <1>2, SlashKept DEF HasSlash
<1>5. HasSlash(Unescaped(t)) <=> HasSlash(t)
  BY <1>1, <1>2, SlashKept DEF HasSlash
<1> QED BY <1>3, <1>4, <1>5 DEF Decoded

LEMMA HasSlashInSegment ==
  ASSUME NEW client, NEW t \in Text
  PROVE  HasSlash(InSegment(client, t)) <=> HasSlash(t)
<1>1. \A i \in DOMAIN t : t[i] \in Characters
  <2>1. t \in Seq(Characters)
    BY CharactersAre
  <2> QED BY <2>1
<1>2. /\ DOMAIN InSegment(client, t) = DOMAIN t
      /\ \A i \in DOMAIN t : InSegment(client, t)[i] = SegmentChar(client, t[i])
  BY DEF InSegment
<1> QED BY <1>1, <1>2, SlashKept DEF HasSlash

LEMMA HasSlashInRemaining ==
  ASSUME NEW client, NEW t \in OnWire
  PROVE  HasSlash(InRemaining(client, t)) <=> HasSlash(t)
<1>1. \A i \in DOMAIN t : t[i] \in Wire
  <2>1. t \in Seq(Wire)
    BY CharactersAre
  <2> QED BY <2>1
<1>2. /\ DOMAIN InRemaining(client, t) = DOMAIN t
      /\ \A i \in DOMAIN t : InRemaining(client, t)[i] = RemainingChar(client, t[i])
  BY DEF InRemaining
<1> QED BY <1>1, <1>2, SlashKept DEF HasSlash

AllDecoded(server, s) == [i \in 1 .. Len(s) |-> Decoded(server, s[i])]

LEMMA SlashesDecoded ==
  ASSUME NEW server, NEW s \in Seq(OnWire)
  PROVE  /\ AllDecoded(server, s) \in Seq(Text) /\ AllDecoded(server, s) \in Seq(OnWire)
         /\ Slashes(AllDecoded(server, s)) = Slashes(s)
<1> DEFINE d == AllDecoded(server, s)
<1>1. \A i \in 1 .. Len(s) : s[i] \in OnWire /\ Len(s) \in Nat
  OBVIOUS
<1>2. \A i \in 1 .. Len(s) :
        Decoded(server, s[i]) \in Text /\ (HasSlash(Decoded(server, s[i])) <=> HasSlash(s[i]))
  BY <1>1, HasSlashDecoded
<1>3. Len(s) \in Nat
  OBVIOUS
<1>4. /\ d \in Seq(Text) /\ Len(d) = Len(s)
      /\ \A i \in 1 .. Len(s) : d[i] = Decoded(server, s[i])
  BY <1>2, <1>3 DEF AllDecoded
<1>5. d \in Seq(OnWire)
  BY <1>4, CharactersAre, SeqMonotonic
<1>6. SlashedLike(d, s)
  BY <1>2, <1>4 DEF SlashedLike
<1> QED BY <1>4, <1>5, <1>6, SlashesLike

(***************************************************************************)
(* What a client writes of a static segment has no slash.                  *)
(***************************************************************************)
LEMMA PlainHasNoSlash ==
  /\ Seq({"a"}) \in SUBSET OnWire
  /\ \A text \in Seq({"a"}) : ~HasSlash(text)
<1>1. {"a"} \subseteq Wire
  BY DEF Wire, Characters
<1>2. \A text \in Seq({"a"}) : \A i \in DOMAIN text : text[i] = "a"
  OBVIOUS
<1> QED BY <1>1, <1>2, CharactersAre, SeqMonotonic DEF HasSlash

LEMMA OneMore ==
  \A B : \A s \in Seq(B) : \A c \in B : Append(s, c) \in Seq(B) /\ Append(s, c) # <<>>
<1> TAKE B
<1> TAKE s \in Seq(B)
<1> TAKE c \in B
<1>1. Append(s, c) \in Seq(B) /\ Len(Append(s, c)) = Len(s) + 1 /\ Len(s) \in Nat
  OBVIOUS
<1>2. Append(s, c) = <<>> => Len(Append(s, c)) = 0
  BY <1>1
<1> QED BY <1>1, <1>2

LEMMA SplitType ==
  ASSUME NEW text \in Seq({"a", "/"})
  PROVE  Split(text) \in Seq(Seq({"a"})) /\ JavaSplit(text) \in Seq(Seq({"a"}))
<1> DEFINE step == [segments \in Seq(Text) |-> [c \in Characters |->
                      IF c = "/" THEN Append(segments, <<>>)
                      ELSE Append(Front(segments), Append(Last(segments), c))]]
           A == Seq(Seq({"a"})) \ {<<>>}
           first == <<<<>>>>
<1>1. first \in A
  <2>1. <<>> \in Seq({"a"})
    OBVIOUS
  <2> QED BY <2>1
<1>2. ASSUME NEW segments \in A, NEW c \in {"a", "/"} PROVE step[segments][c] \in A
  <2>1. segments \in Seq(Text) /\ c \in Characters
    <3>1. {"a"} \subseteq Characters /\ c \in Characters
      BY DEF Characters
    <3>2. Seq({"a"}) \subseteq Text
      BY <3>1, SeqMonotonic, CharactersAre
    <3> QED BY <3>1, <3>2, SeqMonotonic
  <2>2. step[segments][c] = IF c = "/" THEN Append(segments, <<>>)
                            ELSE Append(Front(segments), Append(Last(segments), c))
    BY <2>1
  <2>3. <<>> \in Seq({"a"})
    OBVIOUS
  <2>4. PICK u \in Seq(Seq({"a"})), t \in Seq({"a"}) : segments = Append(u, t)
    BY <1>2, SequenceEmptyOrAppend
  <2>5. Front(segments) = u /\ Last(segments) = t
    BY <2>4 DEF Front, Last
  <2> HIDE DEF step
  <2>6. CASE c = "/"
    <3>1. segments \in Seq(Seq({"a"}))
      BY <1>2
    <3>2. Append(segments, <<>>) \in A
      BY <2>3, <3>1, OneMore, Zenon
    <3> QED BY <2>2, <2>6, <3>2
  <2>7. CASE c = "a"
    <3>1. PICK v \in Seq({"a"}) : v = Append(t, c)
      BY <2>7, OneMore, Zenon
    <3>2. Append(u, v) \in Seq(Seq({"a"})) /\ Append(u, v) # <<>>
      BY OneMore, Zenon
    <3> QED BY <2>2, <2>5, <2>7, <3>1, <3>2
  <2> QED BY <2>6, <2>7
<1> HIDE DEF A, step, first
<1>3. \A t \in Seq({"a", "/"}) : Folded(step, first, t) \in A
  BY <1>1, <1>2, FoldedIn
<1>4. Split(text) = Folded(step, first, text)
  BY DEF Split, step, first
<1>5. PICK segments \in Seq(Seq({"a"})) : segments = Split(text)
  BY <1>3, <1>4 DEF A
<1>6. DropTrailingEmpties(segments) \in Seq(Seq({"a"}))
  <2>1. PICK x, last : x = <<>> /\ last = LastIndex(segments, x)
    OBVIOUS
  <2>2. Len(segments) \in Nat
    OBVIOUS
  <2>3. \/ last = 0 /\ \A i \in 1 .. Len(segments) : segments[i] = x
        \/ last \in 1 .. Len(segments) /\ segments[last] # x
           /\ \A i \in last + 1 .. Len(segments) : segments[i] = x
    BY ONLY <2>1, <2>2, LastOther
  <2>4. last \in 0 .. Len(segments)
    BY <2>2, <2>3
  <2>5. DropTrailingEmpties(segments) = SubSeq(segments, 1, last)
    BY <2>1 DEF DropTrailingEmpties, SelectLastInSeq, LastIndex
  <2>6. \A i \in 1 .. last : segments[i] \in Seq({"a"})
    BY <2>4
  <2> QED BY <2>4, <2>5, <2>6, SubSeqProperties
<1> QED BY <1>5, <1>6 DEF JavaSplit

(***************************************************************************)
(* What a part writes has no more slashes than what is wanted of it, and   *)
(* fewer if it is a static segment with a slash.                           *)
(***************************************************************************)
SlashIn(part) == part.kind = "static" /\ Contains(part.text, "/")

FewerSlashes(part, written, wanted) ==
  /\ Slashes(written) <= Slashes(wanted)
  /\ SlashIn(part) => Slashes(written) < Slashes(wanted)

LEMMA PartSlashes ==
  ASSUME NEW client, NEW part, NEW carried, Fits(part, carried),
         NEW pieces, pieces = EncodePart(client, part, carried),
         NEW w, w = Wanted(part, carried)
  PROVE  /\ pieces \in Seq(Seq(OnWire)) /\ w \in Seq(OnWire)
         /\ Len(w) >= 1
         /\ part.kind # "remaining" => Len(w) = 1
         /\ FewerSlashes(part, Joined(OnWire, pieces), w)
<1>1. part.kind \in {"static", "segment", "remaining"}
  BY DEF Fits, Parts
<1>2. CASE part.kind = "static"
  <2>1. part.text \in Seq({"a", "/"})
    BY <1>2 DEF Fits
  <2>2. PICK splits \in Seq(Seq({"a"})) :
          splits = IF client = "http4s" THEN JavaSplit(part.text) ELSE Split(part.text)
    BY <2>1, SplitType
  <2>3. splits \in Seq(OnWire) /\ Slashes(splits) = 0
    BY PlainHasNoSlash, SlashesNone
  <2>4. pieces = [i \in 1 .. Len(splits) |-> <<splits[i]>>]
    <3>1. DOMAIN splits = 1 .. Len(splits)
      OBVIOUS
    <3> QED BY <1>2, <2>2, <3>1 DEF EncodePart
  <2>5. Joined(OnWire, pieces) = splits
    BY <2>3, <2>4, JoinedSingles
  <2>6. pieces \in Seq(Seq(OnWire))
    <3>1. \A i \in 1 .. Len(splits) : splits[i] \in OnWire
      BY <2>3
    <3>2. \A i \in 1 .. Len(splits) : <<splits[i]>> \in Seq(OnWire)
      BY <3>1, SlashesOne
    <3>3. Len(splits) \in Nat
      OBVIOUS
    <3> QED BY <2>4, <3>2, <3>3
  <2>7. w = <<part.text>> /\ Len(w) = 1
    BY <1>2 DEF Wanted
  <2>8. part.text \in OnWire
    <3>1. {"a", "/"} \subseteq Wire
      BY DEF Wire, Characters
    <3> QED BY <2>1, <3>1, CharactersAre, SeqMonotonic
  <2>9. w \in Seq(OnWire) /\ Slashes(w) = IF HasSlash(part.text) THEN 1 ELSE 0
    BY <2>7, <2>8, SlashesOne
  <2>10. SlashIn(part) => HasSlash(part.text)
    <3>1. DOMAIN part.text = 1 .. Len(part.text)
      BY <2>1
    <3> QED BY <3>1 DEF SlashIn, Contains, HasSlash
  <2> QED BY <1>2, <2>3, <2>5, <2>6, <2>7, <2>9, <2>10 DEF FewerSlashes
<1>3. CASE part.kind = "segment"
  <2>1. carried \in Text /\ carried \in OnWire
    BY <1>3, CharactersAre DEF Fits
  <2>2. PICK u \in OnWire : u = InSegment(client, carried)
    BY <2>1, SegmentText
  <2>3. HasSlash(u) <=> HasSlash(carried)
    BY <2>1, <2>2, HasSlashInSegment
  <2>4. pieces = <<<<u>>>> /\ w = <<carried>> /\ Len(w) = 1
    BY <1>3, <2>2 DEF EncodePart, Wanted
  <2>5. PICK written \in Seq(OnWire) : written = <<u>>
    BY SlashesOne
  <2>6. pieces \in Seq(Seq(OnWire)) /\ Joined(OnWire, pieces) = written
    <3>1. pieces = <<written>>
      BY <2>4, <2>5
    <3> QED BY <3>1, JoinedOne
  <2>7. w \in Seq(OnWire) /\ Slashes(w) = IF HasSlash(carried) THEN 1 ELSE 0
    BY <2>1, <2>4, SlashesOne
  <2>8. Slashes(written) = Slashes(w) /\ Slashes(w) \in Nat
    BY <2>3, <2>5, <2>7, SlashesOne
  <2> QED BY <1>3, <2>4, <2>6, <2>7, <2>8 DEF FewerSlashes, SlashIn
<1>4. CASE part.kind = "remaining"
  <2>1. carried \in Seq(Seq({"a", "+"} \cup Escapes)) /\ carried # <<>>
    BY <1>4 DEF Fits
  <2>2. carried \in Seq(OnWire)
    <3>1. {"a", "+"} \cup Escapes \subseteq Wire
      BY DEF Wire, Characters
    <3>2. Seq({"a", "+"} \cup Escapes) \subseteq OnWire
      BY <3>1, CharactersAre, SeqMonotonic
    <3> QED BY <2>1, <3>2
  <2>3. PICK sent \in Seq(OnWire) : pieces = <<sent>> /\ Slashes(sent) = Slashes(carried)
    <3> DEFINE s == [j \in 1 .. Len(carried) |-> InRemaining(client, carried[j])]
    <3>1. Len(carried) \in Nat /\ DOMAIN carried = 1 .. Len(carried)
          /\ \A j \in 1 .. Len(carried) : carried[j] \in OnWire
      BY <2>2
    <3>2. \A j \in 1 .. Len(carried) : InRemaining(client, carried[j]) \in OnWire
      BY <3>1, RemainingText
    <3>3. s \in Seq(OnWire) /\ Len(s) = Len(carried)
          /\ \A j \in 1 .. Len(carried) : s[j] = InRemaining(client, carried[j])
      BY <3>1, <3>2
    <3>4. pieces = <<s>>
      BY <1>4, <3>1 DEF EncodePart
    <3> HIDE DEF s
    <3>5. SlashedLike(s, carried)
      BY <3>1, <3>3, HasSlashInRemaining DEF SlashedLike
    <3>6. Slashes(s) = Slashes(carried)
      BY <2>2, <3>3, <3>5, SlashesLike
    <3> QED BY <3>3, <3>4, <3>6
  <2>4. pieces \in Seq(Seq(OnWire)) /\ Joined(OnWire, pieces) = sent
    BY <2>3, JoinedOne
  <2>5. w = [i \in 1 .. Len(carried) |-> Decoded("http4s", carried[i])]
    <3>1. DOMAIN carried = 1 .. Len(carried)
      BY <2>2
    <3> QED BY <1>4, <3>1 DEF Wanted, Decoded
  <2>6. w \in Seq(OnWire) /\ Slashes(w) = Slashes(carried) /\ Slashes(w) \in Nat
    <3>1. PICK server : server = "http4s"
      OBVIOUS
    <3>2. w = AllDecoded(server, carried)
      BY <2>5, <3>1 DEF AllDecoded
    <3>3. w \in Seq(OnWire) /\ Slashes(w) = Slashes(carried)
      BY <2>2, <3>2, SlashesDecoded
    <3> QED BY <3>3, SlashesType
  <2>7. Len(w) = Len(carried) /\ Len(carried) >= 1
    <3>1. Len(carried) \in Nat /\ Len(carried) # 0
      BY <2>1, EmptySeq
    <3>2. DOMAIN w = 1 .. Len(carried)
      BY <2>5
    <3> QED BY <2>6, <3>1, <3>2
  <2> QED BY <1>4, <2>3, <2>4, <2>6, <2>7 DEF FewerSlashes, SlashIn
<1> QED BY <1>1, <1>2, <1>3, <1>4

(***************************************************************************)
(* The segments of all parts, and of the path that the client sends.       *)
(***************************************************************************)
\* Part by part, no more slashes, and fewer somewhere: none more, or fewer, in all.
NowhereMore(s, t) ==
  Len(s) = Len(t) /\ \A i \in 1 .. Len(s) : Slashes(s[i]) <= Slashes(t[i])

SomewhereFewer(s, t) == \E i \in 1 .. Len(s) : Slashes(s[i]) < Slashes(t[i])

FewerInAll(s, t) ==
  /\ Slashes(Joined(OnWire, s)) <= Slashes(Joined(OnWire, t))
  /\ SomewhereFewer(s, t) => Slashes(Joined(OnWire, s)) < Slashes(Joined(OnWire, t))

LEMMA SlashesAdd ==
  \A s, t \in Seq(Seq(OnWire)) : NowhereMore(s, t) => FewerInAll(s, t)
<1> DEFINE G == {s \in Seq(Seq(OnWire)) :
                   \A t \in Seq(Seq(OnWire)) : NowhereMore(s, t) => FewerInAll(s, t)}
<1>1. <<>> \in G
  <2>1. PICK none \in Seq(Seq(OnWire)) : none = <<>> /\ Len(none) = 0
    BY EmptySeq, Zenon
  <2>2. \A t \in Seq(Seq(OnWire)) : Len(t) = 0 => t = <<>>
    BY EmptySeq
  <2>3. \A t \in Seq(Seq(OnWire)) : NowhereMore(none, t) => t = none
    BY <2>1, <2>2 DEF NowhereMore
  <2>4. FewerInAll(none, none)
    <3>1. Joined(OnWire, none) = <<>>
      BY <2>1, JoinedEmpty
    <3>2. ~SomewhereFewer(none, none)
      BY <2>1 DEF SomewhereFewer
    <3> QED BY <3>1, <3>2, SlashesEmpty DEF FewerInAll
  <2> QED BY <2>1, <2>3, <2>4
<1>2. ASSUME NEW s \in Seq(Seq(OnWire)), NEW x \in Seq(OnWire), s \in G
      PROVE  Append(s, x) \in G
  <2>1. ASSUME NEW t \in Seq(Seq(OnWire)), NowhereMore(Append(s, x), t)
        PROVE  FewerInAll(Append(s, x), t)
    <3>1. /\ Len(Append(s, x)) = Len(s) + 1 /\ Len(s) \in Nat /\ Append(s, x)[Len(s) + 1] = x
          /\ \A i \in 1 .. Len(s) : Append(s, x)[i] = s[i]
      OBVIOUS
    <3>2. Len(t) = Len(s) + 1
      BY <2>1, <3>1 DEF NowhereMore
    <3>3. t # <<>>
      BY <3>1, <3>2
    <3>4. PICK u \in Seq(Seq(OnWire)), y \in Seq(OnWire) : t = Append(u, y)
      BY <3>3, SequenceEmptyOrAppend
    <3>5. /\ Len(u) = Len(s) /\ t[Len(s) + 1] = y
          /\ \A i \in 1 .. Len(s) : t[i] = u[i]
      BY <3>1, <3>2, <3>4
    <3>6. /\ Len(s) + 1 \in 1 .. Len(s) + 1
          /\ \A i \in 1 .. Len(s) + 1 : i \in 1 .. Len(s) \/ i = Len(s) + 1
          /\ \A i \in 1 .. Len(s) : i \in 1 .. Len(s) + 1
      BY <3>1
    <3>7. NowhereMore(s, u) /\ Slashes(x) <= Slashes(y)
      <4>1. \A i \in 1 .. Len(s) + 1 : Slashes(Append(s, x)[i]) <= Slashes(t[i])
        BY <2>1, <3>1 DEF NowhereMore
      <4>2. Slashes(x) <= Slashes(y)
        BY <3>1, <3>5, <3>6, <4>1
      <4>3. \A i \in 1 .. Len(s) : Slashes(s[i]) <= Slashes(u[i])
        <5> TAKE i \in 1 .. Len(s)
        <5>1. Slashes(Append(s, x)[i]) <= Slashes(t[i])
          BY <4>1, <3>6
        <5> QED BY <3>1, <3>5, <5>1
      <4> QED BY <3>5, <4>2, <4>3 DEF NowhereMore
    <3>8. FewerInAll(s, u)
      BY <1>2, <3>7
    <3>9. SomewhereFewer(Append(s, x), t) => SomewhereFewer(s, u) \/ Slashes(x) < Slashes(y)
      <4> SUFFICES ASSUME NEW i \in 1 .. Len(s) + 1, Slashes(Append(s, x)[i]) < Slashes(t[i])
                   PROVE  SomewhereFewer(s, u) \/ Slashes(x) < Slashes(y)
        BY <3>1 DEF SomewhereFewer
      <4>1. CASE i \in 1 .. Len(s)
        <5>1. Append(s, x)[i] = s[i] /\ t[i] = u[i]
          BY <3>1, <3>5, <4>1
        <5> QED BY <4>1, <5>1 DEF SomewhereFewer
      <4>2. CASE i = Len(s) + 1
        BY <3>1, <3>5, <4>2
      <4> QED BY <3>6, <4>1, <4>2
    <3>10. PICK a \in Seq(OnWire), b \in Seq(OnWire) : a = Joined(OnWire, s) /\ b = Joined(OnWire, u)
      BY JoinedType
    <3>11. Joined(OnWire, Append(s, x)) = a \o x /\ Joined(OnWire, t) = b \o y
      BY <3>4, <3>10, JoinedAppend
    <3>12. /\ Slashes(a \o x) = Slashes(a) + Slashes(x)
           /\ Slashes(b \o y) = Slashes(b) + Slashes(y)
      BY SlashesConcat
    <3>13. /\ Slashes(a) \in Nat /\ Slashes(b) \in Nat /\ Slashes(x) \in Nat /\ Slashes(y) \in Nat
      BY SlashesType
    <3>14. Slashes(a) <= Slashes(b) /\ (SomewhereFewer(s, u) => Slashes(a) < Slashes(b))
      BY <3>8, <3>10 DEF FewerInAll
    <3> HIDE DEF G
    <3>15. \A k, l, m, n \in Nat : /\ k <= l /\ m <= n => k + m <= l + n
                                   /\ (k < l /\ m <= n) \/ (k <= l /\ m < n) => k + m < l + n
      OBVIOUS
    <3>16. Slashes(a) + Slashes(x) <= Slashes(b) + Slashes(y)
      BY <3>7, <3>13, <3>14, <3>15
    <3>17. SomewhereFewer(Append(s, x), t) => Slashes(a) + Slashes(x) < Slashes(b) + Slashes(y)
      BY <3>7, <3>9, <3>13, <3>14, <3>15
    <3> QED BY <3>11, <3>12, <3>16, <3>17 DEF FewerInAll
  <2>2. Append(s, x) \in Seq(Seq(OnWire))
    OBVIOUS
  <2> QED BY <2>1, <2>2
<1> HIDE DEF G
<1>3. \A s \in Seq(Seq(OnWire)) : s \in G
  BY <1>1, <1>2, EverySequence
<1> QED BY <1>3 DEF G

LEMMA RequestSlashes ==
  ASSUME NEW client, NEW pieces \in Seq(Seq(OnWire)),
         NEW all, all = Joined(OnWire, pieces), all # <<>>,
         NEW path, path = RequestPath(client, pieces)
  PROVE  path \in Seq(OnWire) /\ path # <<>> /\ Slashes(path) <= Slashes(all)
<1> DEFINE rest == Joined(OnWire, DropLeadingEmpties(pieces))
           written == IF client = "http4s" THEN <<<<>>>> \o rest ELSE all
           sent == IF client = "pekko" /\ StartsWithAuthority(written)
                   THEN <<<<>>>> \o SubSeq(written, 4, Len(written)) ELSE written
<1>1. path = IF sent = <<<<>>>> THEN <<<<>>, <<>>>> ELSE sent
  BY DEF RequestPath, WrittenPath
<1>2. all \in Seq(OnWire) /\ Slashes(all) \in Nat
  BY JoinedType, SlashesType
<1>3. <<>> \in OnWire /\ ~HasSlash(<<>>)
  BY DEF OnWire, HasSlash
<1>4. rest \in Seq(OnWire) /\ Slashes(rest) <= Slashes(all)
  <2>0. PICK x : x = <<<<>>>>
    OBVIOUS
  <2>1. PICK first : first = FirstIndex(pieces, x)
    OBVIOUS
  <2>2. Len(pieces) \in Nat
    OBVIOUS
  <2>3. \/ first = 0 /\ \A i \in 1 .. Len(pieces) : pieces[i] = x
        \/ first \in 1 .. Len(pieces) /\ pieces[first] # x
           /\ \A i \in 1 .. first - 1 : pieces[i] = x
    BY ONLY <2>1, <2>2, FirstOther
  <2>4. DropLeadingEmpties(pieces)
          = IF first = 0 THEN <<>> ELSE SubSeq(pieces, first, Len(pieces))
    BY <2>0, <2>1 DEF DropLeadingEmpties, SelectInSeq, FirstIndex
  <2>5. CASE first = 0
    <3>1. rest = <<>>
      BY <2>4, <2>5, JoinedEmpty
    <3>2. <<>> \in Seq(OnWire) /\ 0 <= Slashes(all)
      BY <1>2
    <3> QED BY <3>1, <3>2, SlashesEmpty
  <2>6. CASE first # 0
    <3>1. PICK k : k = first - 1
      OBVIOUS
    <3>2. k \in 0 .. Len(pieces) /\ k + 1 = first
      BY <2>2, <2>3, <2>6, <3>1
    <3>3. PICK a, b \in Seq(Seq(OnWire)) : b = SubSeq(pieces, k + 1, Len(pieces)) /\ pieces = a \o b
      <4>1. CutAt(Seq(OnWire), pieces, k)
        BY <3>2, CutInTwo
      <4> QED BY <4>1, Zenon DEF CutAt
    <3>4. rest = Joined(OnWire, b)
      BY <2>4, <2>6, <3>2, <3>3
    <3>5. all = Joined(OnWire, a) \o Joined(OnWire, b)
      BY <3>3, JoinedConcat
    <3>6. Joined(OnWire, a) \in Seq(OnWire) /\ Joined(OnWire, b) \in Seq(OnWire)
      BY JoinedType
    <3>7. Slashes(all) = Slashes(Joined(OnWire, a)) + Slashes(Joined(OnWire, b))
      BY <3>5, <3>6, SlashesConcat
    <3>8. Slashes(Joined(OnWire, a)) \in Nat /\ Slashes(Joined(OnWire, b)) \in Nat
      BY <3>6, SlashesType
    <3>9. \A m, n \in Nat : n <= m + n
      OBVIOUS
    <3> QED BY <3>4, <3>6, <3>7, <3>8, <3>9
  <2> QED BY <2>5, <2>6
<1>5. PICK root \in Seq(OnWire) : root = <<<<>>>> /\ Slashes(root) = 0 /\ Len(root) = 1
  <2>1. PICK empty \in OnWire : empty = <<>>
    BY <1>3
  <2>2. <<empty>> \in Seq(OnWire) /\ Slashes(<<empty>>) = 0
    BY <1>3, <2>1, SlashesOne
  <2>3. Len(<<empty>>) = 1
    OBVIOUS
  <2> QED BY <2>1, <2>2, <2>3
<1> HIDE DEF rest
<1>6. /\ root \o rest \in Seq(OnWire) /\ root \o rest # <<>>
      /\ Slashes(root \o rest) <= Slashes(all)
  <2>1. root \o rest \in Seq(OnWire) /\ Len(root \o rest) = 1 + Len(rest) /\ Len(rest) \in Nat
    BY <1>4, <1>5
  <2>2. root \o rest # <<>>
    <3>1. 1 + Len(rest) # 0
      BY <2>1
    <3> QED BY <2>1, <3>1, EmptySeq
  <2>3. Slashes(root \o rest) = 0 + Slashes(rest) /\ Slashes(rest) \in Nat
    BY <1>4, <1>5, SlashesConcat, SlashesType
  <2> QED BY <1>4, <2>1, <2>2, <2>3
<1>7. written \in Seq(OnWire) /\ written # <<>> /\ Slashes(written) <= Slashes(all)
  BY <1>2, <1>5, <1>6
<1>8. /\ <<<<>>, <<>>>> \in Seq(OnWire) /\ <<<<>>, <<>>>> # <<>>
      /\ Slashes(<<<<>>, <<>>>>) <= Slashes(all)
  <2>1. Root = root \o root
    BY <1>5, RootTwice
  <2>2. Slashes(Root) = 0 + 0
    BY <1>5, <2>1, SlashesConcat
  <2>3. Root \in Seq(OnWire) /\ Len(Root) = 2
    BY IsRoot
  <2>4. Root # <<>>
    <3>1. Len(<<>>) = 0
      OBVIOUS
    <3> QED BY <2>3, <3>1
  <2> QED BY <1>2, <2>2, <2>3, <2>4 DEF Root
<1> HIDE DEF written
<1>9. sent \in Seq(OnWire) /\ sent # <<>> /\ Slashes(sent) <= Slashes(all)
  <2>1. CASE client = "pekko" /\ StartsWithAuthority(written)
    <3>1. Len(written) \in Nat /\ 3 \in 0 .. Len(written)
      BY <1>7, <2>1 DEF StartsWithAuthority
    <3>2. PICK k : k = 3
      OBVIOUS
    <3>3. PICK a, b \in Seq(OnWire) :
            b = SubSeq(written, k + 1, Len(written)) /\ written = a \o b
      <4>1. CutAt(OnWire, written, k)
        BY <1>7, <3>1, <3>2, CutInTwo
      <4> QED BY <4>1, Zenon DEF CutAt
    <3>4. sent = root \o b
      <4>1. k + 1 = 4
        BY <3>2
      <4> QED BY <1>5, <2>1, <3>3, <4>1
    <3>5. Slashes(written) = Slashes(a) + Slashes(b) /\ Slashes(root \o b) = Slashes(root) + Slashes(b)
      BY <3>3, SlashesConcat
    <3>6. Slashes(a) \in Nat /\ Slashes(b) \in Nat /\ Slashes(written) \in Nat
      BY <1>7, SlashesType
    <3>7. Slashes(sent) <= Slashes(all)
      <4>1. Slashes(sent) = 0 + Slashes(b)
        BY <1>5, <3>4, <3>5
      <4>2. Slashes(a) + Slashes(b) <= Slashes(all)
        BY <1>7, <3>5
      <4>3. \A m, n, o \in Nat : m + n <= o => 0 + n <= o
        OBVIOUS
      <4> QED BY <1>2, <3>6, <4>1, <4>2, <4>3
    <3>8. root \o b \in Seq(OnWire) /\ Len(root \o b) = 1 + Len(b) /\ Len(b) \in Nat
      BY <1>5
    <3>9. root \o b # <<>>
      <4>1. 1 + Len(b) # 0
        BY <3>8
      <4> QED BY <3>8, <4>1, EmptySeq
    <3> QED BY <3>4, <3>7, <3>8, <3>9
  <2>2. CASE ~(client = "pekko" /\ StartsWithAuthority(written))
    BY <1>7, <2>2
  <2> QED BY <2>1, <2>2
<1> HIDE DEF sent
<1> QED BY <1>1, <1>8, <1>9

(***************************************************************************)
(* The segments that a server decodes have no more slashes than the path.  *)
(***************************************************************************)
LEMMA NoSegment ==
  /\ <<>> \in Seq(OnWire) /\ <<<<>>>> \in Seq(OnWire)
  /\ Slashes(<<>>) = 0 /\ Slashes(<<<<>>>>) = 0
<1>0. <<>> \in OnWire
  BY DEF OnWire
<1>1. PICK empty \in OnWire : empty = <<>>
  BY <1>0, Zenon
<1>2. ~HasSlash(empty)
  BY <1>1 DEF HasSlash
<1>3. <<empty>> \in Seq(OnWire) /\ Slashes(<<empty>>) = 0
  BY <1>2, SlashesOne
<1> QED BY <1>1, <1>3, SlashesEmpty

LEMMA Http4sSlashes ==
  ASSUME NEW path \in Seq(OnWire), path # <<>>
  PROVE  Http4sSegments(path) \in Seq(Text) /\ Slashes(Http4sSegments(path)) <= Slashes(path)
<1>1. PICK x : x = <<>>
  OBVIOUS
<1>2. PICK last : last = LastIndex(path, x)
  OBVIOUS
<1>3. Len(path) \in Nat
  OBVIOUS
<1>4. \/ last = 0 /\ \A i \in 1 .. Len(path) : path[i] = x
      \/ last \in 1 .. Len(path) /\ path[last] # x /\ \A i \in last + 1 .. Len(path) : path[i] = x
  BY ONLY <1>2, <1>3, LastOther
<1>5. last \in 0 .. Len(path)
  BY <1>3, <1>4
<1>6. DropTrailingEmpties(path) = SubSeq(path, 1, last)
  BY <1>1, <1>2 DEF DropTrailingEmpties, SelectLastInSeq, LastIndex
<1>7. PICK front, back \in Seq(OnWire) : front = SubSeq(path, 1, last) /\ path = front \o back
  <2>1. CutAt(OnWire, path, last)
    BY <1>5, CutInTwo
  <2> QED BY <2>1, Zenon DEF CutAt
<1>8. PICK slash \in Seq(OnWire) :
        slash = (IF EndsWithSlash(path) THEN <<<<>>>> ELSE <<>>) /\ Slashes(slash) = 0
  BY NoSegment
<1>9. PICK kept \in Seq(OnWire) : kept = front \o slash
  BY ConcatProperties, Zenon
<1>10. Slashes(kept) <= Slashes(path)
  <2>1. /\ Slashes(front \o slash) = Slashes(front) + Slashes(slash)
        /\ Slashes(front \o back) = Slashes(front) + Slashes(back)
    BY SlashesConcat
  <2>2. Slashes(front) \in Nat /\ Slashes(back) \in Nat
    BY SlashesType
  <2>3. Slashes(kept) = Slashes(front)
    BY <1>8, <1>9, <2>1, <2>2
  <2>4. Slashes(path) = Slashes(front) + Slashes(back)
    BY <1>7, <2>1
  <2> QED BY <2>2, <2>3, <2>4
<1>11. Http4sSegments(path) = [i \in 1 .. Len(kept) |-> FormDecoded(kept[i])]
  <2>1. DOMAIN kept = 1 .. Len(kept)
    OBVIOUS
  <2>2. kept = DropTrailingEmpties(path) \o (IF EndsWithSlash(path) THEN <<<<>>>> ELSE <<>>)
    BY <1>6, <1>7, <1>8, <1>9
  <2> QED BY <2>1, <2>2 DEF Http4sSegments
<1>12. PICK server : server = "http4s"
  OBVIOUS
<1>13. PICK d : d = AllDecoded(server, kept)
  OBVIOUS
<1>14. d = Http4sSegments(path)
  BY <1>11, <1>12, <1>13 DEF AllDecoded, Decoded
<1>15. d \in Seq(Text) /\ Slashes(d) = Slashes(kept)
  BY <1>13, SlashesDecoded
<1> QED BY <1>10, <1>14, <1>15

LEMMA PekkoSlashes ==
  ASSUME NEW path \in Seq(OnWire), path # <<>>
  PROVE  PekkoSegments(path) \in Seq(Text) /\ Slashes(PekkoSegments(path)) <= Slashes(path)
<1> DEFINE inner == IF EndsWithSlash(path) THEN Front(Tail(path)) ELSE Tail(path)
           matched == IF inner = <<<<>>>> THEN <<>> ELSE inner
           slash == IF EndsWithSlash(path) /\ path # <<<<>>, <<>>>> THEN <<<<>>>> ELSE <<>>
<1>1. Len(path) \in Nat /\ Len(path) >= 1
  BY EmptySeq
<1>2. PICK root, tail \in Seq(OnWire) : tail = Tail(path) /\ path = root \o tail
  <2>1. CutAt(OnWire, path, 1)
    BY <1>1, CutInTwo
  <2>2. PICK a, b \in Seq(OnWire) : b = SubSeq(path, 2, Len(path)) /\ path = a \o b
    <3>1. 1 + 1 = 2
      OBVIOUS
    <3> QED BY <2>1, <3>1, Zenon DEF CutAt
  <2>3. Tail(path) = SubSeq(path, 2, Len(path))
    BY TailIsSubSeq
  <2> QED BY <2>2, <2>3
<1>3. PICK n \in Nat : n = Slashes(path)
  BY SlashesType
<1>4. Slashes(tail) <= n
  <2>1. Slashes(path) = Slashes(root) + Slashes(tail)
    BY <1>2, SlashesConcat
  <2>2. Slashes(root) \in Nat /\ Slashes(tail) \in Nat
    BY SlashesType
  <2> QED BY <1>3, <2>1, <2>2
<1>5. inner \in Seq(OnWire) /\ Slashes(inner) <= n
  <2>1. CASE EndsWithSlash(path)
    <3>1. Len(path) > 1
      BY <2>1 DEF EndsWithSlash
    <3>2. Len(tail) = Len(path) - 1
      BY <1>2, HeadTailProperties
    <3>3. PICK k : k = Len(tail) - 1
      OBVIOUS
    <3>4. k \in 0 .. Len(tail)
      BY <1>1, <3>1, <3>2, <3>3
    <3>5. PICK a, b \in Seq(OnWire) : a = SubSeq(tail, 1, k) /\ tail = a \o b
      <4>1. CutAt(OnWire, tail, k)
        BY <3>4, CutInTwo
      <4> QED BY <4>1, Zenon DEF CutAt
    <3>6. inner = a
      BY <1>2, <2>1, <3>3, <3>5 DEF Front
    <3>7. Slashes(tail) = Slashes(a) + Slashes(b)
      BY <3>5, SlashesConcat
    <3>8. Slashes(a) \in Nat /\ Slashes(b) \in Nat
      BY SlashesType
    <3>9. Slashes(a) <= n
      BY <1>4, <3>7, <3>8
    <3> QED BY <3>6, <3>9
  <2>2. CASE ~EndsWithSlash(path)
    BY <1>2, <1>4, <2>2
  <2> QED BY <2>1, <2>2
<1> HIDE DEF inner
<1>6. PICK m \in Seq(OnWire) : m = matched /\ Slashes(m) <= n
  BY <1>3, <1>5, NoSegment
<1>a. PICK server : server = "pekko"
  OBVIOUS
<1>7. PICK d : d = AllDecoded(server, m)
  OBVIOUS
<1>8. d \in Seq(Text) /\ d \in Seq(OnWire) /\ Slashes(d) <= n
  <2>1. d \in Seq(Text) /\ d \in Seq(OnWire) /\ Slashes(d) = Slashes(m)
    BY <1>7, SlashesDecoded
  <2> QED BY <1>6, <2>1
<1>9. PICK first \in Seq(Text), end \in Seq(Text) :
        /\ first = <<<<>>>> /\ end = slash
        /\ first \in Seq(OnWire) /\ end \in Seq(OnWire) /\ Slashes(first) = 0 /\ Slashes(end) = 0
  <2>1. <<>> \in Text
    BY DEF Text
  <2>2. <<<<>>>> \in Seq(Text) /\ <<>> \in Seq(Text)
    BY <2>1
  <2> QED BY <2>2, NoSegment
<1>10. PekkoSegments(path)
         = IF \E i \in DOMAIN m : m[i] = <<>> THEN <<>> ELSE (first \o d) \o end
  <2>1. DOMAIN m = 1 .. Len(m)
    OBVIOUS
  <2>2. [i \in DOMAIN m |-> Unescaped(m[i])] = d
    BY <1>a, <1>7, <2>1 DEF AllDecoded, Decoded
  <2>3. PekkoSegments(path)
          = IF \E i \in DOMAIN m : m[i] = <<>> THEN <<>>
            ELSE (first \o [i \in DOMAIN m |-> Unescaped(m[i])]) \o end
    BY <1>6, <1>9 DEF PekkoSegments, inner
  <2> QED BY <2>2, <2>3
<1>11. (first \o d) \o end \in Seq(Text) /\ Slashes((first \o d) \o end) <= n
  <2>1. PICK u : u = first \o d
    OBVIOUS
  <2>2. u \in Seq(OnWire) /\ u \in Seq(Text)
    BY <1>8, <1>9, <2>1, ConcatProperties, Zenon
  <2>3. Slashes(first \o d) = Slashes(first) + Slashes(d) /\ Slashes(u \o end) = Slashes(u) + Slashes(end)
    BY <1>8, <1>9, <2>2, SlashesConcat
  <2>4. Slashes(d) \in Nat
    BY <1>8, SlashesType
  <2>5. u \o end \in Seq(Text)
    BY <2>2
  <2> QED BY <1>8, <1>9, <2>1, <2>3, <2>4, <2>5
<1>12. <<>> \in Seq(Text) /\ Slashes(<<>>) <= n
  BY SlashesEmpty
<1> QED BY <1>3, <1>10, <1>11, <1>12

(***************************************************************************)
(* A value of a URL with a slash in a static segment does not arrive.      *)
(***************************************************************************)
LEMMA SlashNeverArrives ==
  ASSUME NEW url, NEW value, Described(url, value), SlashInStaticSegment(url),
         receiver \in Servers,
         NEW D, D = PathSegments(receiver, EncodePath(sender, url, value))
  PROVE  D \in Seq(Text) /\ ~Arrived(url, value, D)
<1> DEFINE part(i) == url.path[i]
           carried(i) == value.path[i]
           E(i) == EncodePart(sender, part(i), carried(i))
           W(i) == Wanted(part(i), carried(i))
<1>1. PICK n : n = Len(url.path)
  OBVIOUS
<1>2. /\ n \in Nat \ {0} /\ DOMAIN url.path = 1 .. n
      /\ url.path[1] = Static(<<>>)
      /\ \A i \in 1 .. n : Fits(part(i), carried(i))
      /\ \A i \in 1 .. n - 1 : part(i).kind # "remaining"
  BY <1>1, AnyParts
<1>3. \A i \in 1 .. n :
        /\ E(i) \in Seq(Seq(OnWire)) /\ W(i) \in Seq(OnWire)
        /\ Len(W(i)) >= 1
        /\ part(i).kind # "remaining" => Len(W(i)) = 1
        /\ FewerSlashes(part(i), Joined(OnWire, E(i)), W(i))
  <2> TAKE i \in 1 .. n
  <2>1. PICK a, b, p, w : a = part(i) /\ b = carried(i) /\ p = E(i) /\ w = W(i)
    OBVIOUS
  <2>2. Fits(a, b) /\ p = EncodePart(sender, a, b) /\ w = Wanted(a, b)
    BY <1>2, <2>1
  <2>3. /\ p \in Seq(Seq(OnWire)) /\ w \in Seq(OnWire)
        /\ Len(w) >= 1
        /\ a.kind # "remaining" => Len(w) = 1
        /\ FewerSlashes(a, Joined(OnWire, p), w)
    BY <2>2, PartSlashes
  <2> QED BY <2>1, <2>3
<1>4. E(1) = <<<<<<>>>>>>
  <2>1. part(1).kind = "static" /\ part(1).text = <<>> /\ <<>> \in Seq({"a"}) /\ part(1) \in Parts
    BY <1>2 DEF Static, Fits
  <2>2. E(1) = <<Piece(sender, part(1), carried(1))>>
    BY <2>1, EncodedPart
  <2>3. Piece(sender, part(1), carried(1)) = <<<<>>>>
    BY <2>1 DEF Piece
  <2> QED BY <2>2, <2>3
<1>5. PICK slashed \in 1 .. n : SlashIn(part(slashed))
  BY <1>2 DEF SlashInStaticSegment, SlashIn
<1>6. EncodePath(sender, url, value)
        = RequestPath(sender, Joined(Seq(OnWire), [i \in 1 .. n |-> E(i)]))
  BY <1>2 DEF EncodePath, EncodedPieces
<1>7. Arrived(url, value, D) =>
        /\ Len(D) = n - 1 + Len(W(n))
        /\ \A i \in 1 .. n - 1 : D[i] = W(i)[1]
        /\ \A j \in 1 .. Len(W(n)) : D[n - 1 + j] = W(n)[j]
  BY <1>1 DEF Arrived
<1> HIDE DEF part, carried, E, W
<1>8. PICK encoded \in Seq(Seq(Seq(OnWire))), wanted \in Seq(Seq(OnWire)) :
        encoded = [i \in 1 .. n |-> E(i)] /\ wanted = [i \in 1 .. n |-> W(i)]
  <2>1. [i \in 1 .. n |-> E(i)] \in Seq(Seq(Seq(OnWire)))
    BY <1>2, <1>3
  <2>2. [i \in 1 .. n |-> W(i)] \in Seq(Seq(OnWire))
    BY <1>2, <1>3
  <2> QED BY <2>1, <2>2
<1>9. Len(encoded) = n /\ Len(wanted) = n
  BY <1>2, <1>8
<1>10. PICK written \in Seq(Seq(OnWire)) : written = [i \in 1 .. n |-> Joined(OnWire, E(i))]
  <2>1. \A i \in 1 .. n : Joined(OnWire, E(i)) \in Seq(OnWire)
    BY <1>3, JoinedType
  <2>2. [i \in 1 .. n |-> Joined(OnWire, E(i))] \in Seq(Seq(OnWire))
    BY <1>2, <2>1
  <2> QED BY <2>2, Zenon
<1>11. FewerInAll(written, wanted) /\ SomewhereFewer(written, wanted)
  <2>1. Len(written) = n
    BY <1>2, <1>10
  <2>2. \A i \in 1 .. n : written[i] = Joined(OnWire, E(i)) /\ wanted[i] = W(i)
    BY <1>8, <1>10
  <2>3. NowhereMore(written, wanted)
    BY <1>3, <1>9, <2>1, <2>2 DEF NowhereMore, FewerSlashes
  <2>4. SomewhereFewer(written, wanted)
    BY <1>3, <1>5, <2>1, <2>2 DEF SomewhereFewer, FewerSlashes
  <2> QED BY <2>3, <2>4, SlashesAdd
<1>12. PICK pieces \in Seq(Seq(OnWire)) : pieces = Joined(Seq(OnWire), encoded)
  BY JoinedType
<1>13. PICK all \in Seq(OnWire) : all = Joined(OnWire, pieces) /\ all = Joined(OnWire, written)
  <2>1. Joined(OnWire, Joined(Seq(OnWire), encoded))
          = Joined(OnWire, [i \in 1 .. Len(encoded) |-> Joined(OnWire, encoded[i])])
    BY JoinedJoined
  <2>2. \A i \in 1 .. n : encoded[i] = E(i)
    BY <1>8
  <2>3. [i \in 1 .. Len(encoded) |-> Joined(OnWire, encoded[i])] = written
    BY <1>9, <1>10, <2>2
  <2>4. Joined(OnWire, pieces) = Joined(OnWire, written)
    BY <1>12, <2>1, <2>3
  <2> QED BY <2>4, JoinedType
<1>14. all # <<>>
  <2>1. written[1] = <<<<>>>>
    <3>1. PICK root \in Seq(OnWire) : root = <<<<>>>>
      BY NoSegment
    <3>2. Joined(OnWire, E(1)) = root
      BY <1>4, <3>1, JoinedOne
    <3> QED BY <1>2, <1>10, <3>1, <3>2
  <2>2. PICK a, b \in Seq(Seq(OnWire)) : a = SubSeq(written, 1, 1) /\ written = a \o b
    <3>1. 1 \in 0 .. Len(written)
      BY <1>2, <1>10
    <3>2. CutAt(Seq(OnWire), written, 1)
      BY <3>1, CutInTwo
    <3> QED BY <3>2, Zenon DEF CutAt
  <2>3. a = <<<<<<>>>>>>
    <3>1. /\ Len(a) = 1 /\ a[1] = written[1]
      <4>1. Len(written) = n /\ \A i \in 1 .. 1 : written[i] \in Seq(OnWire)
        BY <1>2, <1>10
      <4> QED BY <2>2, <4>1, SubSeqProperties
    <3>2. \A s \in Seq(Seq(OnWire)) : Len(s) = 1 => s = <<s[1]>>
      OBVIOUS
    <3> QED BY <2>1, <3>1, <3>2
  <2>4. PICK root \in Seq(OnWire) : root = <<<<>>>> /\ Joined(OnWire, a) = root /\ Len(root) = 1
    <3>1. PICK root \in Seq(OnWire) : root = <<<<>>>>
      BY NoSegment
    <3>2. Joined(OnWire, a) = root
      BY <2>3, <3>1, JoinedOne
    <3> QED BY <3>1, <3>2
  <2>5. PICK other \in Seq(OnWire) : other = Joined(OnWire, b)
    BY JoinedType
  <2>6. all = root \o other
    BY <1>13, <2>2, <2>4, <2>5, JoinedConcat
  <2>7. Len(all) = 1 + Len(other) /\ Len(other) \in Nat
    BY <2>4, <2>6
  <2> QED BY <2>7
<1>15. PICK path \in Seq(OnWire) :
         path = EncodePath(sender, url, value) /\ path # <<>> /\ Slashes(path) <= Slashes(all)
  <2>1. EncodePath(sender, url, value) = RequestPath(sender, pieces)
    BY <1>6, <1>8, <1>12
  <2> QED BY <1>13, <1>14, <2>1, RequestSlashes
<1>16. D \in Seq(Text) /\ Slashes(D) <= Slashes(path)
  <2>1. CASE receiver = "http4s"
    BY <1>15, <2>1, Http4sSlashes DEF PathSegments
  <2>2. CASE receiver = "pekko"
    BY <1>15, <2>2, PekkoSlashes DEF PathSegments
  <2> QED BY <2>1, <2>2 DEF Servers
<1>17. PICK right \in Seq(OnWire) : right = Joined(OnWire, wanted)
  BY JoinedType
<1>18. Slashes(D) < Slashes(right)
  <2>1. D \in Seq(OnWire)
    BY <1>16, CharactersAre, SeqMonotonic
  <2>2. Slashes(all) < Slashes(right)
    BY <1>11, <1>13, <1>17 DEF FewerInAll
  <2>3. /\ Slashes(D) \in Nat /\ Slashes(path) \in Nat /\ Slashes(all) \in Nat
        /\ Slashes(right) \in Nat
    BY <2>1, SlashesType
  <2> QED BY <1>15, <1>16, <2>2, <2>3
<1>19. Arrived(url, value, D) => D = right
  <2>1. LastSpreads(wanted, n)
    <3>1. \A i \in 1 .. n - 1 : i \in 1 .. n
      BY <1>2
    <3>2. \A i \in 1 .. n - 1 : Len(W(i)) = 1 /\ wanted[i] = W(i)
      BY <1>2, <1>3, <1>8, <3>1
    <3> QED BY <1>9, <3>2 DEF LastSpreads
  <2>2. SpreadOf(right, wanted, n)
    BY <1>2, <1>17, <2>1, JoinedSpread
  <2>3. wanted[n] = W(n) /\ \A i \in 1 .. n - 1 : wanted[i] = W(i)
    BY <1>2, <1>8
  <2>4. /\ Len(right) = n - 1 + Len(W(n))
        /\ \A i \in 1 .. n - 1 : right[i] = W(i)[1]
        /\ \A j \in 1 .. Len(W(n)) : right[n - 1 + j] = W(n)[j]
    BY <2>2, <2>3 DEF SpreadOf
  <2>5. PICK l \in Nat : l = Len(W(n))
    <3>1. W(n) \in Seq(OnWire)
      BY <1>2, <1>3
    <3>2. Len(W(n)) \in Nat
      BY <3>1
    <3> QED BY <3>2
  <2>6. \A k \in 1 .. n - 1 + l : k \in 1 .. n - 1 \/ (k - (n - 1) \in 1 .. l /\ n - 1 + (k - (n - 1)) = k)
    BY <1>2
  <2> SUFFICES ASSUME Arrived(url, value, D) PROVE D = right
    OBVIOUS
  <2>7. ASSUME NEW k \in 1 .. n - 1 + l PROVE D[k] = right[k]
    <3>1. CASE k \in 1 .. n - 1
      BY <1>7, <2>4, <3>1
    <3>2. CASE k - (n - 1) \in 1 .. l /\ n - 1 + (k - (n - 1)) = k
      <4>1. PICK j \in 1 .. l : n - 1 + j = k
        BY <3>2
      <4>2. D[n - 1 + j] = W(n)[j] /\ right[n - 1 + j] = W(n)[j]
        BY <1>7, <2>4, <2>5, <4>1
      <4> QED BY <4>1, <4>2
    <3> QED BY <2>6, <3>1, <3>2
  <2>8. Len(D) = n - 1 + l /\ Len(right) = n - 1 + l
    BY <1>7, <2>4, <2>5
  <2>9. D \in Seq(OnWire)
    BY <1>16, CharactersAre, SeqMonotonic
  <2> QED BY <2>7, <2>8, <2>9, SeqEqual
<1>20. ~Arrived(url, value, D)
  <2>1. D \in Seq(OnWire)
    BY <1>16, CharactersAre, SeqMonotonic
  <2>2. Slashes(right) \in Nat
    BY SlashesType
  <2>3. D # right
    BY <1>18, <2>2
  <2> QED BY <1>19, <2>3
<1> QED BY <1>16, <1>20

(***************************************************************************)
(* The URL, and its exchange.                                              *)
(***************************************************************************)
LEMMA SameRecords ==
  ASSUME NEW a, NEW b, NEW c, NEW d
  PROVE  [path |-> a, query |-> b] = [path |-> c, query |-> d] <=> a = c /\ b = d
<1> DEFINE r == [path |-> a, query |-> b]
           s == [path |-> c, query |-> d]
<1>1. r.path = a /\ r.query = b /\ s.path = c /\ s.query = d
  OBVIOUS
<1> QED BY <1>1

\* The values of different fields are different.
LEMMA OtherRecords ==
  ASSUME NEW a, NEW b
  PROVE  LET r == [path |-> a, query |-> b] IN
         /\ r # NotMatched /\ r # Malformed /\ r # NotYet /\ r # Unsent
         /\ NotMatched # NotYet /\ Malformed # NotYet /\ NotYet # Unsent
<1> DEFINE r == [path |-> a, query |-> b]
<1>1. /\ DOMAIN r = {"path", "query"} /\ DOMAIN NotMatched = {"matched"}
      /\ DOMAIN Malformed = {"malformed"} /\ DOMAIN NotYet = {"notYet"}
      /\ DOMAIN Unsent = {"unsent"}
  BY DEF NotMatched, Malformed, NotYet, Unsent
<1> HIDE DEF r
<1>2. /\ "path" \in DOMAIN r /\ "path" \notin DOMAIN NotMatched /\ "path" \notin DOMAIN Malformed
      /\ "path" \notin DOMAIN NotYet /\ "path" \notin DOMAIN Unsent
  BY <1>1
<1>3. /\ "notYet" \in DOMAIN NotYet /\ "notYet" \notin DOMAIN NotMatched
      /\ "notYet" \notin DOMAIN Malformed /\ "notYet" \notin DOMAIN Unsent
  BY <1>1
<1>4. r # NotMatched /\ r # Malformed /\ r # NotYet /\ r # Unsent
  BY <1>2
<1>5. NotMatched # NotYet /\ Malformed # NotYet /\ NotYet # Unsent
  BY <1>3
<1> QED BY <1>4, <1>5 DEF r

\* Two values mean the same when their parts and their parameters do.
LEMMA MeaningIs ==
  ASSUME NEW url, NEW v, NEW w
  PROVE  Meaning(url, v) = Meaning(url, w) <=>
           /\ \A i \in DOMAIN url.path :
                MeantPart(url.path[i], v.path[i]) = MeantPart(url.path[i], w.path[i])
           /\ \A i \in DOMAIN url.query :
                Meant(url.query[i], v.query[i]) = Meant(url.query[i], w.query[i])
<1> DEFINE P(x) == [i \in DOMAIN url.path |-> MeantPart(url.path[i], x.path[i])]
           Q(x) == [i \in DOMAIN url.query |-> Meant(url.query[i], x.query[i])]
<1>1. \A x : Meaning(url, x) = [path |-> P(x), query |-> Q(x)]
  BY DEF Meaning, MeantPart, Meant
<1>2. P(v) = P(w) <=> \A i \in DOMAIN url.path :
                        MeantPart(url.path[i], v.path[i]) = MeantPart(url.path[i], w.path[i])
  OBVIOUS
<1>3. Q(v) = Q(w) <=> \A i \in DOMAIN url.query :
                        Meant(url.query[i], v.query[i]) = Meant(url.query[i], w.query[i])
  OBVIOUS
<1> HIDE DEF P, Q
<1>4. Meaning(url, v) = Meaning(url, w) <=> P(v) = P(w) /\ Q(v) = Q(w)
  BY <1>1, SameRecords
<1> QED BY <1>2, <1>3, <1>4

\* What the server decodes means what the client encoded, but in the named cases.
Mistaken(url, value) ==
  \/ PlusMistaken(url, value)
  \/ EmptySegmentLost(url, value)
  \/ SlashInStaticSegment(url)

LEMMA UrlDecoded ==
  ASSUME NEW url, NEW value, Described(url, value), receiver \in Servers,
         NEW decoded, decoded = DecodeUrl(receiver, url, EncodeUrl(sender, url, value))
  PROVE  /\ decoded # NotYet
         /\ decoded \notin {NotMatched, Malformed} /\ Meaning(url, decoded) = Meaning(url, value)
              <=> ~Mistaken(url, value)
<1>1. PICK wire1 : wire1 = EncodeUrl(sender, url, value)
  OBVIOUS
<1>2. wire1.path = EncodePath(sender, url, value) /\ wire1.query = EncodeQuery(sender, url, value)
  BY <1>1 DEF EncodeUrl
<1>3. PICK D : D = PathSegments(receiver, wire1.path)
  OBVIOUS
<1>4. PICK e : e = DecodeParts(url.path, D)
  OBVIOUS
<1>5. /\ D \in Seq(Text)
      /\ Arrived(url, value, D) <=> ~Mistaken(url, value)
  <2>1. CASE SlashInStaticSegment(url)
    BY <1>2, <1>3, <2>1, SlashNeverArrives DEF Mistaken
  <2>2. CASE ~SlashInStaticSegment(url)
    BY <1>2, <1>3, <2>2, PathArrives DEF Mistaken
  <2> QED BY <2>1, <2>2
<1> DEFINE Parameters == [i \in DOMAIN url.query |-> DecodeParam(url.query[i], wire1.query)]
           right == \A i \in DOMAIN url.path :
                      MeantPart(url.path[i], e.carried[i]) = MeantPart(url.path[i], value.path[i])
<1>6. e.matched /\ e.rest = <<>> /\ right <=> Arrived(url, value, D)
  <2>1. PICK segments \in Seq(Text) : segments = D
    BY <1>5
  <2>2. LET f == DecodeParts(url.path, segments) IN
        (/\ f.matched /\ f.rest = <<>>
         /\ \A i \in DOMAIN url.path :
              MeantPart(url.path[i], f.carried[i]) = MeantPart(url.path[i], value.path[i]))
        <=> Arrived(url, value, segments)
    BY PathDecoded
  <2> QED BY <1>4, <2>1, <2>2, Zenon
<1>7. \A i \in DOMAIN url.query :
        /\ ~MissingParam(url.query[i], wire1.query)
        /\ Meant(url.query[i], DecodeParam(url.query[i], wire1.query))
             = Meant(url.query[i], value.query[i])
  <2>1. PICK client : client = sender
    OBVIOUS
  <2>2. wire1.query = EncodeQuery(client, url, value)
    BY <1>2, <2>1
  <2> QED BY <2>2, QueryDecoded
<1>8. decoded = IF ~e.matched \/ e.rest # <<>> THEN NotMatched
                ELSE [path |-> e.carried, query |-> Parameters]
  BY <1>1, <1>3, <1>4, <1>7 DEF DecodeUrl
<1>9. CASE ~e.matched \/ e.rest # <<>>
  BY <1>5, <1>6, <1>8, <1>9, OtherRecords
<1>10. CASE e.matched /\ e.rest = <<>>
  <2>1. decoded.path = e.carried /\ decoded.query = Parameters
    BY <1>8, <1>10
  <2>2. decoded # NotYet /\ decoded \notin {NotMatched, Malformed}
    BY <1>8, <1>10, OtherRecords
  <2>3. \A i \in DOMAIN url.query :
          Meant(url.query[i], decoded.query[i]) = Meant(url.query[i], value.query[i])
    BY <1>7, <2>1
  <2>4. Meaning(url, decoded) = Meaning(url, value) <=>
          \A i \in DOMAIN url.path :
            MeantPart(url.path[i], decoded.path[i]) = MeantPart(url.path[i], value.path[i])
    BY <2>3, MeaningIs
  <2>5. Meaning(url, decoded) = Meaning(url, value) <=> right
    BY <2>1, <2>4
  <2> HIDE DEF right
  <2> QED BY <1>5, <1>6, <1>10, <2>2, <2>5, Zenon
<1> QED BY <1>9, <1>10

\* What is on the wire and what is received are what was encoded and decoded.
ExchangeInv ==
  /\ message \in UrlMessages /\ receiver \in Servers
  /\ wire \in {NotYet, Unsent} \/ wire = EncodeUrl(sender, message.url, message.value)
  /\ \/ received = NotYet
     \/ received = DecodeUrl(receiver, message.url, EncodeUrl(sender, message.url, message.value))

LEMMA ExchangeGoesOn == UrlSpec => []ExchangeInv
<1>1. UrlInit => ExchangeInv
  BY DEF UrlInit, ExchangeInv
<1>2. ASSUME ExchangeInv, [UrlNext]_vars PROVE ExchangeInv'
  <2>1. CASE SendUrl
    BY <1>2, <2>1 DEF SendUrl, ExchangeInv
  <2>2. CASE ReceiveUrl
    BY <1>2, <2>2 DEF ReceiveUrl, ExchangeInv
  <2>3. CASE UNCHANGED vars
    BY <1>2, <2>3 DEF vars, ExchangeInv
  <2> QED BY <1>2, <2>1, <2>2, <2>3 DEF UrlNext
<1> QED BY <1>1, <1>2, PTL DEF UrlSpec

\* The value that a client puts in a URL is the one that a server decodes from it, for
\* every description of a URL, every value, and texts and lists of any length, once its
\* request has reached that server; and it is not, whenever a "+" is mistaken, an empty
\* segment is lost (written nowhere, or read as a host by the client of Pekko) or a static
\* segment has a slash: there are no other cases.
THEOREM UrlsRoundTrip == UrlSpec => []UrlRoundTrip
<1>1. ASSUME ExchangeInv, received # NotYet PROVE UrlRoundTrip
  <2>1. PICK url, value : url = message.url /\ value = message.value
    OBVIOUS
  <2>2. Described(url, value) /\ IsUrl(message)
    BY <1>1, <2>1, UrlMessagesAssumption DEF ExchangeInv, Described, IsUrl
  <2>3. received = DecodeUrl(receiver, url, EncodeUrl(sender, url, value)) /\ receiver \in Servers
    BY <1>1, <2>1 DEF ExchangeInv
  <2>4. PICK decoded : decoded = received
    OBVIOUS
  <2>5. decoded \notin {NotMatched, Malformed} /\ Meaning(url, decoded) = Meaning(url, value)
          <=> ~Mistaken(url, value)
    BY <2>2, <2>3, <2>4, UrlDecoded
  <2> QED BY <2>1, <2>4, <2>5, Zenon DEF UrlRoundTrip, Mistaken
<1>2. ASSUME received = NotYet PROVE UrlRoundTrip
  BY <1>2 DEF UrlRoundTrip
<1>3. ExchangeInv => UrlRoundTrip
  BY <1>1, <1>2
<1> QED BY <1>3, ExchangeGoesOn, PTL
=============================================================================
