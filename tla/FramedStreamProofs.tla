------------------------- MODULE FramedStreamProofs -------------------------
(***************************************************************************)
(* Proofs about streamed entities (FramedStream): for any texts, any       *)
(* number of values and any cuts of the bytes.                             *)
(***************************************************************************)
EXTENDS FramedStream, FoldingProofs

(***************************************************************************)
(* Sequences.                                                              *)
(***************************************************************************)
\* Two ways to cut a sequence: m lies between the cuts.
MiddleOf(p, r, a, b) == \E m \in Seq(Unit) : a = p \o m /\ r = m \o b

LEMMA CutTwice ==
  \A p, r, a, b \in Seq(Unit) :
    p \o r = a \o b /\ Len(p) <= Len(a) => MiddleOf(p, r, a, b)
<1> TAKE p, r, a, b \in Seq(Unit)
<1>0. HAVE p \o r = a \o b /\ Len(p) <= Len(a)
<1> DEFINE all == a \o b
           m == SubSeq(a, Len(p) + 1, Len(a))
<1>1. Len(p) \in Nat /\ Len(r) \in Nat /\ Len(a) \in Nat /\ Len(b) \in Nat OBVIOUS
<1>2. Len(all) = Len(a) + Len(b) /\ Len(all) = Len(p) + Len(r) BY <1>0
<1>3. m \in Seq(Unit) /\ Len(m) = Len(a) - Len(p) BY <1>0, <1>1
<1>4. \A i \in 1 .. Len(m) : m[i] = a[Len(p) + i] BY <1>1
<1>5. \A i \in 1 .. Len(a) : all[i] = a[i] BY <1>1
<1>6. \A i \in 1 .. Len(b) : all[Len(a) + i] = b[i] BY <1>1
<1>7. \A i \in 1 .. Len(p) : all[i] = p[i] BY <1>0, <1>1
<1>8. \A i \in 1 .. Len(r) : all[Len(p) + i] = r[i] BY <1>0, <1>1
<1> HIDE DEF m, all
<1>9. a = p \o m
  <2>1. Len(p \o m) = Len(a) /\ p \o m \in Seq(Unit) BY <1>1, <1>3
  <2>2. \A i \in 1 .. Len(a) : a[i] = (p \o m)[i]
    <3> TAKE i \in 1 .. Len(a)
    <3>1. CASE i <= Len(p)
      <4>1. (p \o m)[i] = p[i] BY <3>1, <1>1, <1>3
      <4>2. i \in 1 .. Len(p) BY <3>1, <1>1
      <4> QED BY <4>1, <4>2, <1>5, <1>7, Zenon
    <3>2. CASE i > Len(p)
      <4>1. i - Len(p) \in 1 .. Len(m) BY <3>2, <1>1, <1>3
      <4>2. (p \o m)[i] = m[i - Len(p)] BY <3>2, <4>1, <1>1, <1>3
      <4>3. m[i - Len(p)] = a[i] BY <4>1, <1>1, <1>4
      <4> QED BY <4>2, <4>3
    <3>3. i <= Len(p) \/ i > Len(p) BY <1>1
    <3> QED BY <3>1, <3>2, <3>3, Zenon
  <2> QED BY <2>1, <2>2, SeqEqual
<1>10. r = m \o b
  <2>1. Len(m \o b) = Len(r) /\ m \o b \in Seq(Unit) BY <1>1, <1>2, <1>3
  <2>2. \A i \in 1 .. Len(r) : r[i] = (m \o b)[i]
    <3> TAKE i \in 1 .. Len(r)
    <3>0. Len(p) + i \in Nat /\ all[Len(p) + i] = r[i] BY <1>1, <1>8
    <3>1. CASE i <= Len(m)
      <4>1. (m \o b)[i] = m[i] BY <3>1, <1>1, <1>3
      <4>2. i \in 1 .. Len(m) /\ Len(p) + i \in 1 .. Len(a) BY <3>1, <1>1, <1>3
      <4>3. m[i] = a[Len(p) + i] BY <4>2, <1>4
      <4>4. all[Len(p) + i] = a[Len(p) + i] BY <4>2, <1>5
      <4> QED BY <4>1, <4>3, <4>4, <3>0
    <3>2. CASE i > Len(m)
      <4>1. i - Len(m) \in 1 .. Len(b) BY <3>2, <1>1, <1>2, <1>3
      <4>a. Len(m) \in Nat /\ Len(b) \in Nat /\ Len(m) + (i - Len(m)) = i BY <1>1, <1>3
      <4>b. \A j \in 1 .. Len(b) : (m \o b)[Len(m) + j] = b[j] BY <1>1, <1>3
      <4>2. (m \o b)[i] = b[i - Len(m)] BY <4>1, <4>a, <4>b, Zenon
      <4>3. all[Len(a) + (i - Len(m))] = b[i - Len(m)] BY <4>1, <1>6
      <4>4. Len(a) + (i - Len(m)) = Len(p) + i BY <1>1, <1>3
      <4> QED BY <4>2, <4>3, <4>4, <3>0, Zenon
    <3>3. i <= Len(m) \/ i > Len(m) BY <1>1, <1>3
    <3> QED BY <3>1, <3>2, <3>3, Zenon
  <2> QED BY <2>1, <2>2, SeqEqual
<1> QED BY <1>3, <1>9, <1>10, Zenon DEF MiddleOf

LEMMA TwoUnits ==
  ASSUME NEW x, NEW y
  PROVE  <<x>> \o <<y>> = <<x, y>>
<1> DEFINE C == {x, y}
<1>1. <<x>> \in Seq(C) /\ <<y>> \in Seq(C) /\ <<x, y>> \in Seq(C) OBVIOUS
<1>2. Len(<<x>> \o <<y>>) = Len(<<x>>) + Len(<<y>>) /\ <<x>> \o <<y>> \in Seq(C)
  BY <1>1, ConcatProperties
<1>3. Len(<<x>> \o <<y>>) = 2 /\ Len(<<x, y>>) = 2 BY <1>2
<1>4. (<<x>> \o <<y>>)[1] = x /\ (<<x>> \o <<y>>)[2] = y BY <1>1, ConcatProperties
<1>5. \A i \in 1 .. 2 : (<<x>> \o <<y>>)[i] = <<x, y>>[i]
  <2> TAKE i \in 1 .. 2
  <2>1. i = 1 \/ i = 2 OBVIOUS
  <2> QED BY <2>1, <1>4
<1> QED BY <1>1, <1>2, <1>3, <1>5, SeqEqual, Zenon

LEMMA Associative == \A s, t, u \in Seq(Unit) : (s \o t) \o u = s \o (t \o u)
BY ConcatAssociative

LEMMA InTwo ==
  \A m, r \in Seq(Unit) : m # <<>> /\ r # <<>> /\ m \o r = <<"hi", "lo">> =>
    m = <<"hi">> /\ r = <<"lo">>
<1>0. SUFFICES ASSUME NEW m \in Seq(Unit), NEW r \in Seq(Unit), m # <<>>, r # <<>>,
                      m \o r = <<"hi", "lo">>
               PROVE  m = <<"hi">> /\ r = <<"lo">>
  BY Zenon
<1>1. Len(m) \in Nat \ {0} /\ Len(r) \in Nat \ {0} BY <1>0, EmptySeq
<1>2. Len(m \o r) = Len(m) + Len(r) OBVIOUS
<1>3. Len(m \o r) = 2 BY <1>0
<1>4. Len(m) = 1 /\ Len(r) = 1
  <2>1. \A x, y \in Nat \ {0} : x + y = 2 => x = 1 /\ y = 1 OBVIOUS
  <2> QED BY <2>1, <1>1, <1>2, <1>3, Zenon
<1>5. (m \o r)[1] = m[1] /\ (m \o r)[2] = r[1]
  <2>1. \A i \in 1 .. Len(m) : (m \o r)[i] = m[i] OBVIOUS
  <2>2. \A i \in 1 .. Len(r) : (m \o r)[Len(m) + i] = r[i] OBVIOUS
  <2>3. 1 \in 1 .. 1 /\ 1 + 1 = 2 OBVIOUS
  <2>4. (m \o r)[1 + 1] = r[1] BY <2>2, <2>3, <1>4, Zenon
  <2> QED BY <2>1, <2>3, <2>4, <1>4, Zenon
<1>6. m[1] = "hi" /\ r[1] = "lo" BY <1>0, <1>5
<1> QED BY <1>4, <1>6

\* The elements of the parts are those of the whole.
LEMMA ConcatParts ==
  ASSUME NEW C, NEW D, NEW s \in Seq(D), NEW t \in Seq(D), s \o t \in Seq(C)
  PROVE  s \in Seq(C) /\ t \in Seq(C)
<1> DEFINE all == s \o t
           m == Len(s)
           n == Len(t)
<1>1. m \in Nat /\ n \in Nat OBVIOUS
<1>2. Len(all) = m + n /\ all \in Seq(C) BY ConcatProperties
<1>3. \A i \in 1 .. m : all[i] = s[i] OBVIOUS
<1>4. \A i \in 1 .. n : all[m + i] = t[i] OBVIOUS
<1> HIDE DEF all
<1>5. \A i \in 1 .. Len(all) : all[i] \in C BY <1>2, ElementOfSeq
<1>6. s = [i \in 1 .. m |-> s[i]] /\ t = [i \in 1 .. n |-> t[i]] OBVIOUS
<1> HIDE DEF m, n
<1>7. \A i \in 1 .. m : s[i] \in C
  <2> TAKE i \in 1 .. m
  <2>1. i \in 1 .. m + n BY <1>1
  <2> QED BY <2>1, <1>2, <1>3, <1>5
<1>8. \A i \in 1 .. n : t[i] \in C
  <2> TAKE i \in 1 .. n
  <2>1. m + i \in 1 .. m + n BY <1>1
  <2> QED BY <2>1, <1>2, <1>4, <1>5
<1>9. [i \in 1 .. m |-> s[i]] \in Seq(C) BY <1>1, <1>7
<1>10. [i \in 1 .. n |-> t[i]] \in Seq(C) BY <1>1, <1>8
<1> QED BY <1>6, <1>9, <1>10, Zenon

LEMMA LastOfConcat ==
  ASSUME NEW C, NEW s \in Seq(C), NEW t \in Seq(C), t # <<>>
  PROVE  s \o t \in Seq(C) /\ s \o t # <<>> /\ Last(s \o t) = Last(t)
<1> DEFINE all == s \o t
           m == Len(s)
           n == Len(t)
<1>1. m \in Nat /\ n \in Nat \ {0} BY EmptySeq
<1>2. Len(all) = m + n /\ all \in Seq(C) BY ConcatProperties
<1>3. \A i \in 1 .. n : all[m + i] = t[i] OBVIOUS
<1>4. t[n] = Last(t) /\ all[Len(all)] = Last(all) BY DEF Last
<1> HIDE DEF all, m, n
<1>5. n \in 1 .. n /\ m + n # 0 BY <1>1
<1>6. all # <<>> BY <1>2, <1>5
<1>7. all[m + n] = t[n] BY <1>3, <1>5
<1> QED BY <1>2, <1>4, <1>6, <1>7, Zenon DEF all

(***************************************************************************)
(* Text. A Char is a character or a new-line.                              *)
(***************************************************************************)
Ascii  == AsciiChars \cup {"nl"}
Char   == Ascii \cup {"e"}
Inline == Unit \ {"nl"}

EncodeStep == [bytes \in Seq(Unit) |-> [char \in Unit |-> bytes \o BytesOf(char)]]

LEMMA UnitSets ==
  /\ AsciiChars \subseteq Ascii /\ Ascii \subseteq Char /\ Char \subseteq Unit
  /\ Inline \subseteq Unit
  /\ AsciiChars \cup {"e"} \subseteq Char
  /\ AsciiChars \cup {"e"} \subseteq Inline
  /\ "hi" \in Inline /\ "lo" \in Inline /\ "e" \in Char /\ "nl" \in Unit
  /\ "hi" \notin Char /\ "lo" \notin Char /\ "nl" \notin Inline /\ "e" \notin Ascii
BY DEF AsciiChars, Ascii, Char, Inline, Unit

LEMMA BytesOfType ==
  ASSUME NEW c \in Unit
  PROVE  /\ BytesOf(c) \in Seq(Unit)
         /\ c # "nl" => BytesOf(c) \in Seq(Inline)
         /\ BytesOf(c) # <<>>
<1>1. CASE c = "e"
  <2>1. BytesOf(c) = <<"hi", "lo">> BY <1>1 DEF BytesOf
  <2>2. "hi" \in Inline /\ "lo" \in Inline /\ "hi" \in Unit /\ "lo" \in Unit
    BY DEF Inline, Unit
  <2> QED BY <2>1, <2>2
<1>2. CASE c # "e"
  <2>1. BytesOf(c) = <<c>> BY <1>2 DEF BytesOf
  <2>2. c # "nl" => c \in Inline BY DEF Inline
  <2> QED BY <2>1, <2>2
<1> QED BY <1>1, <1>2

LEMMA EncodeEmpty == Encode(<<>>) = <<>>
BY FoldedEmpty DEF Encode

LEMMA EncodeType == \A t \in Seq(Unit) : Encode(t) \in Seq(Unit)
<1>1. \A a \in Seq(Unit) : \A c \in Unit : EncodeStep[a][c] \in Seq(Unit)
  BY BytesOfType, ConcatProperties DEF EncodeStep
<1>2. <<>> \in Seq(Unit) OBVIOUS
<1>3. \A t \in Seq(Unit) : Folded(EncodeStep, <<>>, t) \in Seq(Unit)
  BY <1>1, <1>2, FoldedIn, Zenon
<1> QED BY <1>3, Zenon DEF Encode, EncodeStep

LEMMA EncodeAppend ==
  ASSUME NEW t \in Seq(Unit), NEW c \in Unit
  PROVE  Encode(Append(t, c)) = Encode(t) \o BytesOf(c)
<1>1. Encode(t) = Folded(EncodeStep, <<>>, t) BY DEF Encode, EncodeStep
<1>2. Encode(Append(t, c)) = Folded(EncodeStep, <<>>, Append(t, c))
  BY DEF Encode, EncodeStep
<1>3. Folded(EncodeStep, <<>>, Append(t, c)) = EncodeStep[Folded(EncodeStep, <<>>, t)][c]
  BY FoldedAppend
<1>4. Encode(t) \in Seq(Unit) BY EncodeType
<1>5. EncodeStep[Encode(t)][c] = Encode(t) \o BytesOf(c) BY <1>4 DEF EncodeStep
<1> QED BY <1>1, <1>2, <1>3, <1>5, Zenon

LEMMA EncodeConcat ==
  ASSUME NEW s \in Seq(Unit)
  PROVE  \A t \in Seq(Unit) : Encode(s \o t) = Encode(s) \o Encode(t)
<1> DEFINE S == {t \in Seq(Unit) : Encode(s \o t) = Encode(s) \o Encode(t)}
<1>0. Encode(s) \in Seq(Unit) BY EncodeType
<1>1. <<>> \in S
  <2>1. s \o <<>> = s BY ConcatEmptySeq
  <2>2. Encode(s) \o <<>> = Encode(s) BY <1>0, ConcatEmptySeq
  <2>3. <<>> \in Seq(Unit) OBVIOUS
  <2> QED BY <2>1, <2>2, <2>3, EncodeEmpty, Zenon
<1>2. ASSUME NEW t \in Seq(Unit), NEW c \in Unit, t \in S PROVE Append(t, c) \in S
  <2>1. s \o Append(t, c) = Append(s \o t, c) /\ s \o t \in Seq(Unit) OBVIOUS
  <2>2. Encode(s \o Append(t, c)) = Encode(s \o t) \o BytesOf(c)
    BY <2>1, EncodeAppend, Zenon
  <2>3. Encode(Append(t, c)) = Encode(t) \o BytesOf(c) BY EncodeAppend
  <2>4. (Encode(s) \o Encode(t)) \o BytesOf(c) = Encode(s) \o (Encode(t) \o BytesOf(c))
    <3>1. Encode(t) \in Seq(Unit) /\ BytesOf(c) \in Seq(Unit) BY EncodeType, BytesOfType
    <3> QED BY <3>1, <1>0, Associative, Zenon
  <2>5. Append(t, c) \in Seq(Unit) OBVIOUS
  <2> QED BY <2>2, <2>3, <2>4, <2>5, <1>2, Zenon
<1> HIDE DEF S
<1>3. \A t \in Seq(Unit) : t \in S BY <1>1, <1>2, EverySequence
<1> QED BY <1>3 DEF S

\* ASCII is its own encoding.
LEMMA EncodeAscii == \A t \in Seq(Ascii) : Encode(t) = t
<1> DEFINE S == {t \in Seq(Ascii) : Encode(t) = t}
<1>1. <<>> \in S BY EncodeEmpty, EmptySeq, Zenon
<1>2. ASSUME NEW t \in Seq(Ascii), NEW c \in Ascii, t \in S PROVE Append(t, c) \in S
  <2>1. t \in Seq(Unit) /\ c \in Unit BY UnitSets, SeqMonotonic, Zenon
  <2>2. Encode(Append(t, c)) = t \o BytesOf(c) BY <2>1, <1>2, EncodeAppend
  <2>3. BytesOf(c) = <<c>> BY UnitSets DEF BytesOf
  <2>4. Append(t, c) = t \o <<c>> /\ Append(t, c) \in Seq(Ascii) OBVIOUS
  <2> QED BY <2>2, <2>3, <2>4, Zenon
<1> HIDE DEF S
<1>3. \A t \in Seq(Ascii) : t \in S BY <1>1, <1>2, EverySequence
<1> QED BY <1>3 DEF S

\* The bytes of a text are those of a new-line only for a new-line.
LEMMA EncodeInline ==
  \A t \in Seq(Inline) : Encode(t) \in Seq(Inline) /\ (Encode(t) = <<>> => t = <<>>)
<1> DEFINE S == {t \in Seq(Inline) :
                   Encode(t) \in Seq(Inline) /\ (Encode(t) = <<>> => t = <<>>)}
<1>1. <<>> \in S BY EncodeEmpty, EmptySeq, Zenon
<1>2. ASSUME NEW t \in Seq(Inline), NEW c \in Inline, t \in S PROVE Append(t, c) \in S
  <2>1. t \in Seq(Unit) /\ c \in Unit BY UnitSets, SeqMonotonic, Zenon
  <2>2. Encode(Append(t, c)) = Encode(t) \o BytesOf(c) BY <2>1, EncodeAppend
  <2>3. BytesOf(c) \in Seq(Inline) /\ BytesOf(c) # <<>> BY <2>1, BytesOfType DEF Inline
  <2>4. Encode(t) \o BytesOf(c) \in Seq(Inline) /\ Encode(t) \o BytesOf(c) # <<>>
    BY <2>3, <1>2, ConcatProperties, EmptySeq
  <2>5. Append(t, c) \in Seq(Inline) OBVIOUS
  <2> QED BY <2>2, <2>4, <2>5, Zenon
<1> HIDE DEF S
<1>3. \A t \in Seq(Inline) : t \in S BY <1>1, <1>2, EverySequence
<1> QED BY <1>3 DEF S

DecodeStep ==
  [text \in Seq(Unit) |-> [byte \in Unit |->
     IF byte # "lo" THEN Append(text, byte)
     ELSE IF text # <<>> /\ Last(text) = "hi" THEN Append(Front(text), "e")
     ELSE Append(text, "U+FFFD")]]

DecodedBytes(bytes) == Folded(DecodeStep, <<>>, bytes)

LEMMA DecodedAppend ==
  ASSUME NEW bytes \in Seq(Unit), NEW b \in Unit
  PROVE  DecodedBytes(Append(bytes, b)) = DecodeStep[DecodedBytes(bytes)][b]
BY FoldedAppend DEF DecodedBytes

\* A text is decoded as it was encoded.
LEMMA DecodedEncoded == \A t \in Seq(Char) : DecodedBytes(Encode(t)) = t
<1> DEFINE S == {t \in Seq(Char) : DecodedBytes(Encode(t)) = t}
<1>1. <<>> \in S
  <2>1. DecodedBytes(<<>>) = <<>> BY FoldedEmpty DEF DecodedBytes
  <2> QED BY <2>1, EncodeEmpty, EmptySeq, Zenon
<1>2. ASSUME NEW t \in Seq(Char), NEW c \in Char, t \in S PROVE Append(t, c) \in S
  <2> DEFINE bytes == Encode(t)
  <2>1. t \in Seq(Unit) /\ c \in Unit BY UnitSets, SeqMonotonic, Zenon
  <2>2. bytes \in Seq(Unit) /\ DecodedBytes(bytes) = t BY <2>1, <1>2, EncodeType
  <2>3. Encode(Append(t, c)) = bytes \o BytesOf(c) BY <2>1, EncodeAppend
  <2> HIDE DEF bytes
  <2>4. CASE c # "e"
    <3>1. bytes \o BytesOf(c) = Append(bytes, c) BY <2>4, <2>2, <2>1 DEF BytesOf
    <3>2. c # "lo" BY DEF Char, Ascii, AsciiChars
    <3>3. DecodeStep[t][c] = Append(t, c) BY <2>1, <3>2 DEF DecodeStep
    <3>4. DecodedBytes(Append(bytes, c)) = DecodeStep[t][c] BY <2>1, <2>2, DecodedAppend
    <3>5. Append(t, c) \in Seq(Char) OBVIOUS
    <3> QED BY <2>3, <3>1, <3>3, <3>4, <3>5, Zenon
  <2>5. CASE c = "e"
    <3>1. "hi" \in Unit /\ "lo" \in Unit BY DEF Unit
    <3>2. bytes \o BytesOf(c) = Append(Append(bytes, "hi"), "lo")
      BY <2>5, <2>2, <3>1 DEF BytesOf
    <3>3. Append(bytes, "hi") \in Seq(Unit) /\ Append(t, "hi") \in Seq(Unit)
      BY <2>1, <2>2, <3>1
    <3>4. DecodeStep[t]["hi"] = Append(t, "hi") BY <2>1, <3>1 DEF DecodeStep
    <3>5. DecodedBytes(Append(bytes, "hi")) = Append(t, "hi")
      BY <2>2, <3>1, <3>4, DecodedAppend
    <3>6. DecodeStep[Append(t, "hi")]["lo"] = Append(t, "e")
      <4>1. Append(t, "hi") # <<>> /\ Last(Append(t, "hi")) = "hi" BY <2>1, <3>1 DEF Last
      <4>2. Front(Append(t, "hi")) = t BY <2>1, <3>1 DEF Front
      <4> QED BY <4>1, <4>2, <3>1, <3>3 DEF DecodeStep
    <3>7. DecodedBytes(Append(Append(bytes, "hi"), "lo")) =
            DecodeStep[DecodedBytes(Append(bytes, "hi"))]["lo"]
      BY <3>1, <3>3, DecodedAppend
    <3>8. Append(t, c) \in Seq(Char) OBVIOUS
    <3> QED BY <2>3, <2>5, <3>2, <3>5, <3>6, <3>7, <3>8, Zenon
  <2> QED BY <2>4, <2>5
<1> HIDE DEF S
<1>3. \A t \in Seq(Char) : t \in S BY <1>1, <1>2, EverySequence
<1> QED BY <1>3 DEF S

LEMMA DecodeEncode == \A t \in Seq(Char) : DecodeText(Encode(t)) = t
<1> TAKE t \in Seq(Char)
<1>1. DecodedBytes(Encode(t)) = t BY DecodedEncoded
<1>2. DecodeText(Encode(t)) =
        [i \in DOMAIN DecodedBytes(Encode(t)) |->
           IF DecodedBytes(Encode(t))[i] = "hi" THEN "U+FFFD" ELSE DecodedBytes(Encode(t))[i]]
  BY DEF DecodeText, DecodedBytes, DecodeStep
<1>3. \A i \in DOMAIN t : t[i] # "hi" BY UnitSets
<1>4. DecodeText(Encode(t)) = [i \in DOMAIN t |-> t[i]] BY <1>1, <1>2, <1>3
<1> QED BY <1>4

\* The end of a decoded text is not the first byte of a character.
LEMMA EncodeLast ==
  \A t \in Seq(Char) : Encode(t) # <<>> => Last(Encode(t)) # "hi"
<1> DEFINE S == {t \in Seq(Char) : Encode(t) # <<>> => Last(Encode(t)) # "hi"}
<1>1. <<>> \in S BY EncodeEmpty, EmptySeq, Zenon
<1>2. ASSUME NEW t \in Seq(Char), NEW c \in Char, t \in S PROVE Append(t, c) \in S
  <2>1. t \in Seq(Unit) /\ c \in Unit BY UnitSets, SeqMonotonic, Zenon
  <2>2. Encode(t) \in Seq(Unit) BY <2>1, EncodeType
  <2>3. Encode(Append(t, c)) = Encode(t) \o BytesOf(c) BY <2>1, EncodeAppend
  <2>4. Last(Encode(t) \o BytesOf(c)) # "hi"
    <3>1. CASE c = "e"
      <4>1. BytesOf(c) = <<"hi", "lo">> BY <3>1 DEF BytesOf
      <4> QED BY <4>1, <2>2 DEF Last
    <3>2. CASE c # "e"
      <4>1. BytesOf(c) = <<c>> BY <3>2 DEF BytesOf
      <4>2. c # "hi" BY UnitSets
      <4> QED BY <4>1, <4>2, <2>2 DEF Last
    <3> QED BY <3>1, <3>2
  <2>5. Append(t, c) \in Seq(Char) OBVIOUS
  <2> QED BY <2>3, <2>4, <2>5, Zenon
<1> HIDE DEF S
<1>3. \A t \in Seq(Char) : t \in S BY <1>1, <1>2, EverySequence
<1> QED BY <1>3 DEF S

\* A beginning of the bytes of t encodes a beginning u of t, or that and half of the
\* character after it; what remains encodes, with the half, the rest w of t.
CutsText(t, p, r, u, w) ==
  /\ t = u \o w
  /\ \/ p = Encode(u) /\ r = Encode(w)
     \/ p = Encode(u) \o <<"hi">> /\ <<"hi">> \o r = Encode(w)

LEMMA EncodeCut ==
  \A t \in Seq(Char) : \A p, r \in Seq(Unit) :
    p \o r = Encode(t) => \E u, w \in Seq(Char) : CutsText(t, p, r, u, w)
<1> DEFINE Cut(t) == \A p, r \in Seq(Unit) :
             p \o r = Encode(t) => \E u, w \in Seq(Char) : CutsText(t, p, r, u, w)
           S == {t \in Seq(Char) : Cut(t)}
<1>1. <<>> \in S
  <2>1. ASSUME NEW p \in Seq(Unit), NEW r \in Seq(Unit), p \o r = Encode(<<>>)
        PROVE  CutsText(<<>>, p, r, <<>>, <<>>)
    <3>1. p \o r = <<>> BY <2>1, EncodeEmpty
    <3>2. Len(p) + Len(r) = 0 /\ Len(p) \in Nat /\ Len(r) \in Nat
      <4>1. Len(p \o r) = 0 BY <3>1
      <4> QED BY <4>1
    <3>3. p = <<>> /\ r = <<>> BY <3>2
    <3>4. <<>> \o <<>> = <<>> OBVIOUS
    <3> QED BY <3>3, <3>4, EncodeEmpty, Zenon DEF CutsText
  <2> QED BY <2>1, EmptySeq, Zenon
<1>2. ASSUME NEW t \in Seq(Char), NEW c \in Char, t \in S PROVE Append(t, c) \in S
  <2> DEFINE bytes == Encode(t)
             bc == BytesOf(c)
             tc == Append(t, c)
  <2>1. t \in Seq(Unit) /\ c \in Unit BY UnitSets, SeqMonotonic, Zenon
  <2>2. bytes \in Seq(Unit) /\ bc \in Seq(Unit) BY <2>1, EncodeType, BytesOfType
  <2>3. Encode(tc) = bytes \o bc BY <2>1, EncodeAppend
  <2>4. tc \in Seq(Char) /\ tc = t \o <<c>> OBVIOUS
  <2>5. Cut(t) BY <1>2
  <2> HIDE DEF bytes, bc, tc, Cut
  <2>6. ASSUME NEW p \in Seq(Unit), NEW r \in Seq(Unit), p \o r = bytes \o bc
        PROVE  \E u, w \in Seq(Char) : CutsText(tc, p, r, u, w)
    <3>0. Len(p) \in Nat /\ Len(r) \in Nat /\ Len(bytes) \in Nat /\ Len(bc) \in Nat
      BY <2>2
    <3>1. CASE Len(p) <= Len(bytes)
      <4>1. PICK m \in Seq(Unit) : bytes = p \o m /\ r = m \o bc
        <5>1. MiddleOf(p, r, bytes, bc) BY <2>2, <2>6, <3>1, CutTwice
        <5> QED BY <5>1 DEF MiddleOf
      <4>2. PICK u \in Seq(Char), w \in Seq(Char) : CutsText(t, p, m, u, w)
        BY <4>1, <2>5 DEF Cut, bytes
      <4> DEFINE wc == Append(w, c)
      <4>3. wc \in Seq(Char) OBVIOUS
      <4>4. w \in Seq(Unit) /\ u \in Seq(Unit) BY UnitSets, SeqMonotonic, Zenon
      <4>5. Encode(wc) = Encode(w) \o bc /\ Encode(w) \in Seq(Unit)
        BY <4>4, <2>1, EncodeAppend, EncodeType DEF bc
      <4>6. tc = u \o wc
        <5>1. t = u \o w BY <4>2 DEF CutsText
        <5>2. u \o Append(w, c) = Append(u \o w, c) BY ConcatAppend
        <5> QED BY <5>1, <5>2, Zenon DEF tc
      <4> HIDE DEF wc
      <4>7. CASE p = Encode(u) /\ m = Encode(w)
        <5>1. r = Encode(wc) BY <4>1, <4>5, <4>7
        <5> QED BY <4>3, <4>6, <4>7, <5>1 DEF CutsText
      <4>8. CASE p = Encode(u) \o <<"hi">> /\ <<"hi">> \o m = Encode(w)
        <5>1. <<"hi">> \in Seq(Unit) BY DEF Unit
        <5>2. <<"hi">> \o (m \o bc) = (<<"hi">> \o m) \o bc BY <5>1, <2>2, Associative, Zenon
        <5>3. <<"hi">> \o r = Encode(wc) BY <4>1, <4>5, <4>8, <5>2, Zenon
        <5> QED BY <4>3, <4>6, <4>8, <5>3, Zenon DEF CutsText
      <4> QED BY <4>2, <4>7, <4>8, Zenon DEF CutsText
    <3>2. CASE Len(p) > Len(bytes)
      <4>1. PICK m \in Seq(Unit) : p = bytes \o m /\ bc = m \o r
        <5>1. Len(bytes) <= Len(p) /\ bytes \o bc = p \o r BY <3>2, <3>0, <2>6
        <5>2. MiddleOf(bytes, bc, p, r) BY <5>1, <2>2, CutTwice
        <5> QED BY <5>2 DEF MiddleOf
      <4>2. m # <<>> /\ Len(m) \in Nat /\ Len(m) # 0 BY <4>1, <3>2, <2>2
      <4>3. Len(bc) = Len(m) + Len(r) BY <4>1
      <4>4. ASSUME r = <<>> PROVE CutsText(tc, p, r, tc, <<>>)
        <5>1. bc = m BY <4>1, <4>4
        <5>2. p = Encode(tc) BY <5>1, <4>1, <2>3
        <5>3. tc = tc \o <<>> BY <2>4
        <5> QED BY <5>2, <5>3, <4>4, EncodeEmpty, Zenon DEF CutsText
      <4>5. ASSUME r # <<>> PROVE CutsText(tc, p, r, t, <<c>>)
        <5>1. Len(r) # 0 BY <4>5
        <5>2. c = "e"
          <6>1. c # "e" => Len(bc) = 1 BY DEF bc, BytesOf
          <6> QED BY <6>1, <5>1, <4>2, <4>3, <3>0
        <5>3. bc = <<"hi", "lo">> BY <5>2 DEF bc, BytesOf
        <5>6. m = <<"hi">> /\ r = <<"lo">> BY <5>3, <4>1, <4>2, <4>5, InTwo, Zenon
        <5>7. Encode(<<c>>) = bc
          <6>1. <<c>> = Append(<<>>, c) /\ <<>> \in Seq(Unit) OBVIOUS
          <6>2. Encode(Append(<<>>, c)) = Encode(<<>>) \o BytesOf(c)
            BY <6>1, <2>1, EncodeAppend, Zenon
          <6>3. <<>> \o bc = bc BY <2>2
          <6> QED BY <6>1, <6>2, <6>3, EncodeEmpty, Zenon DEF bc
        <5>8. p = Encode(t) \o <<"hi">> BY <4>1, <5>6 DEF bytes
        <5>9. <<"hi">> \o r = bc
          <6> QED BY <5>3, <5>6, TwoUnits, Zenon
        <5> QED BY <5>7, <5>8, <5>9, <2>4, Zenon DEF CutsText
      <4>6. <<>> \in Seq(Char) /\ <<c>> \in Seq(Char) OBVIOUS
      <4> QED BY <4>4, <4>5, <4>6, <2>4, Zenon
    <3>3. Len(p) <= Len(bytes) \/ Len(p) > Len(bytes) BY <3>0
    <3> QED BY <3>1, <3>2, <3>3, Zenon
  <2>7. Cut(tc) BY <2>3, <2>6, Zenon DEF Cut
  <2> QED BY <2>4, <2>7, Zenon DEF tc
<1> HIDE DEF S
<1>3. \A t \in Seq(Char) : t \in S BY <1>1, <1>2, EverySequence
<1> QED BY <1>3, Zenon DEF S

(***************************************************************************)
(* Frames. The state of the framing: the complete frames and the rest.     *)
(***************************************************************************)
Acc(frames, rest) == [frames |-> frames, rest |-> rest]

SplitStep ==
  [acc \in [frames : Seq(Seq(Unit)), rest : Seq(Unit)] |-> [unit \in Unit |->
     IF unit = "nl" THEN [frames |-> Append(acc.frames, acc.rest), rest |-> <<>>]
                    ELSE [acc EXCEPT !.rest = Append(@, unit)]]]

\* The framing goes on from acc with more units.
SplitFrom(acc, units) == Folded(SplitStep, acc, units)

LEMMA SplitStepIs ==
  ASSUME NEW F \in Seq(Seq(Unit)), NEW r \in Seq(Unit), NEW u \in Unit
  PROVE  SplitStep[Acc(F, r)][u] =
           IF u = "nl" THEN Acc(Append(F, r), <<>>) ELSE Acc(F, Append(r, u))
<1>1. Acc(F, r) \in [frames : Seq(Seq(Unit)), rest : Seq(Unit)] BY DEF Acc
<1>2. SplitStep[Acc(F, r)][u] =
        IF u = "nl" THEN [frames |-> Append(Acc(F, r).frames, Acc(F, r).rest), rest |-> <<>>]
                    ELSE [Acc(F, r) EXCEPT !.rest = Append(@, u)]
  BY <1>1 DEF SplitStep
<1>3. Acc(F, r).frames = F /\ Acc(F, r).rest = r BY DEF Acc
<1>4. [Acc(F, r) EXCEPT !.rest = Append(@, u)] = Acc(F, Append(r, u))
  <2>1. \A x : [[frames |-> F, rest |-> r] EXCEPT !.rest = x] = [frames |-> F, rest |-> x]
    OBVIOUS
  <2> QED BY <2>1, <1>3, Zenon DEF Acc
<1>5. Acc(Append(F, r), <<>>) = [frames |-> Append(F, r), rest |-> <<>>] BY DEF Acc
<1> QED BY <1>2, <1>3, <1>4, <1>5, Zenon

LEMMA SplitNothing ==
  ASSUME NEW acc
  PROVE  SplitFrom(acc, <<>>) = acc
BY FoldedEmpty DEF SplitFrom

LEMMA SplitOneMore ==
  ASSUME NEW acc, NEW t \in Seq(Unit), NEW u \in Unit
  PROVE  SplitFrom(acc, Append(t, u)) = SplitStep[SplitFrom(acc, t)][u]
BY FoldedAppend DEF SplitFrom

LEMMA SplitConcat ==
  ASSUME NEW acc, NEW s \in Seq(Unit), NEW t \in Seq(Unit)
  PROVE  SplitFrom(acc, s \o t) = SplitFrom(SplitFrom(acc, s), t)
BY FoldedConcat DEF SplitFrom

\* A new-line ends a frame.
LEMMA SplitNewLine ==
  ASSUME NEW F \in Seq(Seq(Unit)), NEW r \in Seq(Unit)
  PROVE  SplitFrom(Acc(F, r), <<"nl">>) = Acc(Append(F, r), <<>>)
<1>1. <<>> \in Seq(Unit) /\ "nl" \in Unit /\ <<"nl">> = Append(<<>>, "nl") BY UnitSets
<1>2. SplitFrom(Acc(F, r), Append(<<>>, "nl")) = SplitStep[SplitFrom(Acc(F, r), <<>>)]["nl"]
  BY <1>1, SplitOneMore, Zenon
<1>3. SplitFrom(Acc(F, r), <<>>) = Acc(F, r) BY SplitNothing
<1>4. SplitStep[Acc(F, r)]["nl"] = Acc(Append(F, r), <<>>) BY <1>1, SplitStepIs
<1> QED BY <1>1, <1>2, <1>3, <1>4, Zenon

\* What has no new-line goes to the rest.
LEMMA SplitInline ==
  ASSUME NEW F \in Seq(Seq(Unit)), NEW r \in Seq(Unit)
  PROVE  \A t \in Seq(Inline) : SplitFrom(Acc(F, r), t) = Acc(F, r \o t)
<1> DEFINE S == {t \in Seq(Inline) : SplitFrom(Acc(F, r), t) = Acc(F, r \o t)}
<1>1. <<>> \in S
  <2>1. r \o <<>> = r BY ConcatEmptySeq
  <2> QED BY <2>1, SplitNothing, EmptySeq, Zenon
<1>2. ASSUME NEW t \in Seq(Inline), NEW u \in Inline, t \in S PROVE Append(t, u) \in S
  <2>1. t \in Seq(Unit) /\ u \in Unit /\ u # "nl" BY UnitSets, SeqMonotonic
  <2>2. r \o t \in Seq(Unit) BY <2>1, ConcatProperties
  <2>3. SplitFrom(Acc(F, r), Append(t, u)) = SplitStep[Acc(F, r \o t)][u]
    BY <2>1, <1>2, SplitOneMore
  <2>4. SplitStep[Acc(F, r \o t)][u] = Acc(F, Append(r \o t, u)) BY <2>1, <2>2, SplitStepIs
  <2>5. r \o Append(t, u) = Append(r \o t, u) BY <2>1, ConcatAppend
  <2>6. Append(t, u) \in Seq(Inline) OBVIOUS
  <2> QED BY <2>3, <2>4, <2>5, <2>6, Zenon
<1> HIDE DEF S
<1>3. \A t \in Seq(Inline) : t \in S BY <1>1, <1>2, EverySequence
<1> QED BY <1>3 DEF S

\* Neither the frames nor the rest have a new-line.
LineState == [frames : Seq(Seq(Inline)), rest : Seq(Inline)]

LEMMA LineStateIs ==
  ASSUME NEW F \in Seq(Seq(Inline)), NEW r \in Seq(Inline)
  PROVE  Acc(F, r) \in LineState
BY DEF LineState, Acc

LEMMA LineStateParts ==
  ASSUME NEW acc \in LineState
  PROVE  /\ acc.frames \in Seq(Seq(Inline)) /\ acc.rest \in Seq(Inline)
         /\ acc.frames \in Seq(Seq(Unit)) /\ acc.rest \in Seq(Unit)
         /\ acc = Acc(acc.frames, acc.rest)
<1>1. acc.frames \in Seq(Seq(Inline)) /\ acc.rest \in Seq(Inline) BY DEF LineState
<1>2. acc = Acc(acc.frames, acc.rest) BY DEF LineState, Acc
<1>3. Seq(Inline) \subseteq Seq(Unit) BY UnitSets, SeqMonotonic
<1>4. acc.frames \in Seq(Seq(Unit)) /\ acc.rest \in Seq(Unit)
  BY <1>1, <1>3, SeqMonotonic, Zenon
<1> QED BY <1>1, <1>2, <1>4, Zenon

LEMMA LineStateSplit ==
  ASSUME NEW acc \in LineState
  PROVE  \A t \in Seq(Unit) : SplitFrom(acc, t) \in LineState
<1>1. ASSUME NEW a \in LineState, NEW u \in Unit PROVE SplitStep[a][u] \in LineState
  <2> DEFINE F == a.frames
             r == a.rest
  <2>1. /\ F \in Seq(Seq(Inline)) /\ r \in Seq(Inline) /\ F \in Seq(Seq(Unit))
        /\ r \in Seq(Unit) /\ a = Acc(F, r)
    BY <1>1, LineStateParts, Zenon
  <2> HIDE DEF F, r
  <2>4. SplitStep[a][u] =
          IF u = "nl" THEN Acc(Append(F, r), <<>>) ELSE Acc(F, Append(r, u))
    BY <2>1, SplitStepIs
  <2>5. CASE u = "nl"
    <3>1. Append(F, r) \in Seq(Seq(Inline)) /\ <<>> \in Seq(Inline) BY <2>1
    <3> QED BY <3>1, <2>4, <2>5, LineStateIs
  <2>6. CASE u # "nl"
    <3>1. u \in Inline BY <2>6 DEF Inline
    <3>2. Append(r, u) \in Seq(Inline) BY <3>1, <2>1
    <3> QED BY <3>2, <2>1, <2>4, <2>6, LineStateIs
  <2> QED BY <2>5, <2>6
<1> QED BY <1>1, FoldedIn DEF SplitFrom

\* The frames that are there stay, at the beginning.
LEMMA SplitShift ==
  ASSUME NEW F \in Seq(Seq(Inline)), NEW r \in Seq(Inline)
  PROVE  \A t \in Seq(Unit) :
           LET next == SplitFrom(Acc(<<>>, r), t)
           IN  SplitFrom(Acc(F, r), t) = Acc(F \o next.frames, next.rest)
<1> DEFINE next(t) == SplitFrom(Acc(<<>>, r), t)
           S == {t \in Seq(Unit) :
                   SplitFrom(Acc(F, r), t) = Acc(F \o next(t).frames, next(t).rest)}
<1>0. Acc(<<>>, r) \in LineState
  <2>1. <<>> \in Seq(Seq(Inline)) OBVIOUS
  <2> QED BY <2>1, LineStateIs
<1>1. <<>> \in S
  <2>1. next(<<>>) = Acc(<<>>, r) BY SplitNothing
  <2>2. next(<<>>).frames = <<>> /\ next(<<>>).rest = r BY <2>1 DEF Acc
  <2>3. F \o <<>> = F BY ConcatEmptySeq
  <2>4. SplitFrom(Acc(F, r), <<>>) = Acc(F, r) BY SplitNothing
  <2> QED BY <2>2, <2>3, <2>4, EmptySeq, Zenon
<1>2. ASSUME NEW t \in Seq(Unit), NEW u \in Unit, t \in S PROVE Append(t, u) \in S
  <2> DEFINE G == next(t).frames
             q == next(t).rest
             tu == Append(t, u)
  <2>1. next(t) \in LineState BY <1>0, LineStateSplit
  <2>2. next(tu) = SplitStep[next(t)][u] BY SplitOneMore
  <2>3. SplitFrom(Acc(F, r), tu) = SplitStep[Acc(F \o G, q)][u] BY <1>2, SplitOneMore
  <2>4. tu \in Seq(Unit) OBVIOUS
  <2> HIDE DEF next, tu
  <2>5. /\ G \in Seq(Seq(Inline)) /\ q \in Seq(Inline) /\ G \in Seq(Seq(Unit))
        /\ q \in Seq(Unit) /\ next(t) = Acc(G, q)
    BY <2>1, LineStateParts, Zenon
  <2> HIDE DEF G, q
  <2>6. F \o G \in Seq(Seq(Unit))
    <3>1. Seq(Inline) \subseteq Seq(Unit) BY UnitSets, SeqMonotonic
    <3>2. F \in Seq(Seq(Unit)) BY <3>1, SeqMonotonic, Zenon
    <3> QED BY <3>2, <2>5, ConcatProperties
  <2>7. CASE u = "nl"
    <3>1. next(tu) = Acc(Append(G, q), <<>>) BY <2>2, <2>5, <2>7, SplitStepIs
    <3>2. SplitFrom(Acc(F, r), tu) = Acc(Append(F \o G, q), <<>>)
      BY <2>3, <2>5, <2>6, <2>7, SplitStepIs
    <3>3. F \o Append(G, q) = Append(F \o G, q) BY <2>5, ConcatAppend
    <3>4. next(tu).frames = Append(G, q) /\ next(tu).rest = <<>> BY <3>1 DEF Acc
    <3> QED BY <3>2, <3>3, <3>4, <2>4, Zenon DEF tu
  <2>8. CASE u # "nl"
    <3>1. next(tu) = Acc(G, Append(q, u)) BY <2>2, <2>5, <2>8, SplitStepIs
    <3>2. SplitFrom(Acc(F, r), tu) = Acc(F \o G, Append(q, u))
      BY <2>3, <2>5, <2>6, <2>8, SplitStepIs
    <3>3. next(tu).frames = G /\ next(tu).rest = Append(q, u) BY <3>1 DEF Acc
    <3> QED BY <3>2, <3>3, <2>4, Zenon DEF tu
  <2> QED BY <2>7, <2>8
<1> HIDE DEF S
<1>3. \A t \in Seq(Unit) : t \in S BY <1>1, <1>2, EverySequence
<1> QED BY <1>3, Zenon DEF S

\* What Split gives is what the framing adds to the frames it gave before.
LEMMA SplitIs ==
  ASSUME buffer \in Seq(Inline), NEW units \in Seq(Unit)
  PROVE  /\ Split(units) \in LineState
         /\ \A F \in Seq(Seq(Inline)) :
              SplitFrom(Acc(F, buffer), units) =
                Acc(F \o Split(units).frames, Split(units).rest)
<1>1. buffer \in Seq(Unit) /\ <<>> \in Seq(Seq(Inline)) /\ <<>> \in Seq(Seq(Unit))
  BY UnitSets, SeqMonotonic, EmptySeq, Zenon
<1>2. Split(units) = SplitFrom(Acc(<<>>, <<>>), buffer \o units)
  BY DEF Split, SplitFrom, SplitStep, Acc
<1>3. SplitFrom(Acc(<<>>, <<>>), buffer \o units) =
        SplitFrom(SplitFrom(Acc(<<>>, <<>>), buffer), units)
  BY <1>1, SplitConcat
<1>4. SplitFrom(Acc(<<>>, <<>>), buffer) = Acc(<<>>, buffer)
  <2>1. <<>> \in Seq(Unit) /\ <<>> \o buffer = buffer BY <1>1, ConcatEmptySeq, EmptySeq
  <2>2. SplitFrom(Acc(<<>>, <<>>), buffer) = Acc(<<>>, <<>> \o buffer)
    BY <1>1, <2>1, SplitInline
  <2> QED BY <2>1, <2>2
<1>5. Split(units) = SplitFrom(Acc(<<>>, buffer), units) BY <1>2, <1>3, <1>4
<1>6. Acc(<<>>, buffer) \in LineState BY <1>1, LineStateIs
<1>7. Split(units) \in LineState BY <1>5, <1>6, LineStateSplit
<1>8. ASSUME NEW F \in Seq(Seq(Inline))
      PROVE  SplitFrom(Acc(F, buffer), units) =
               Acc(F \o Split(units).frames, Split(units).rest)
  BY <1>5, SplitShift
<1> QED BY <1>7, <1>8

(***************************************************************************)
(* What the receiver r makes of the values: their frames, and the units    *)
(* that go through its framing.                                            *)
(***************************************************************************)
Text == Seq(AsciiChars \cup {"e"}) \ {<<>>}

FrameOf(r, v)  == IF r = "pekko" THEN Encode(v) ELSE v
FramesOf(r, s) == [i \in DOMAIN s |-> FrameOf(r, s[i])]

\* Of the values of s, those whose frames are complete; and the frame that is not.
Complete(snd, s)   == IF snd = "afterEach" \/ s = <<>> THEN s ELSE Front(s)
Pending(snd, r, s) == IF snd = "afterEach" \/ s = <<>> THEN <<>> ELSE FrameOf(r, Last(s))

\* The state of a framing that was given all the units of the values of s.
SplitOf(snd, r, s) == Acc(FramesOf(r, Complete(snd, s)), Pending(snd, r, s))

\* The units that the value v adds after those of s.
UnitsOf(snd, r, s, v) ==
  IF snd = "afterEach" THEN FrameOf(r, v) \o <<"nl">>
  ELSE (IF s = <<>> THEN <<>> ELSE <<"nl">>) \o FrameOf(r, v)

\* Units to come, and the bytes that carry them.
Coming(r)    == IF r = "pekko" THEN Seq(Unit) ELSE IF r = "fetch" THEN Seq(Ascii) ELSE Seq(Char)
WireOf(r, u) == IF r = "pekko" THEN u ELSE Encode(u)

LEMMA TextSets ==
  ASSUME NEW v \in Text
  PROVE  v \in Seq(Char) /\ v \in Seq(Inline) /\ v \in Seq(Unit) /\ v # <<>>
BY UnitSets, SeqMonotonic, Zenon DEF Text

LEMMA FrameOfText ==
  ASSUME NEW r, NEW v \in Text
  PROVE  FrameOf(r, v) \in Seq(Inline) /\ FrameOf(r, v) # <<>> /\ FrameOf(r, v) \in Seq(Unit)
<1>1. v \in Seq(Inline) /\ v # <<>> /\ v \in Seq(Unit) BY TextSets
<1>2. Encode(v) \in Seq(Inline) /\ Encode(v) # <<>> BY <1>1, EncodeInline, Zenon
<1>3. Encode(v) \in Seq(Unit) BY <1>1, EncodeType
<1> QED BY <1>1, <1>2, <1>3, Zenon DEF FrameOf

\* The receiver reads the frame of a value as that value.
LEMMA TextOfFrame ==
  ASSUME NEW v \in Text
  PROVE  TextOf(FrameOf(receiver, v)) = v
BY TextSets, DecodeEncode, Zenon DEF TextOf, FrameOf

LEMMA FramesOfSeq ==
  ASSUME NEW r, NEW s \in Seq(Text)
  PROVE  /\ FramesOf(r, s) \in Seq(Seq(Inline)) /\ FramesOf(r, s) \in Seq(Seq(Unit))
         /\ Len(FramesOf(r, s)) = Len(s)
         /\ \A i \in 1 .. Len(s) : FramesOf(r, s)[i] = FrameOf(r, s[i])
<1>1. DOMAIN s = 1 .. Len(s) /\ Len(s) \in Nat OBVIOUS
<1>2. \A i \in 1 .. Len(s) :
        FrameOf(r, s[i]) \in Seq(Inline) /\ FrameOf(r, s[i]) \in Seq(Unit)
  BY FrameOfText
<1>3. FramesOf(r, s) = [i \in 1 .. Len(s) |-> FrameOf(r, s[i])] BY <1>1 DEF FramesOf
<1> QED BY <1>1, <1>2, <1>3

LEMMA FramesOfAppend ==
  ASSUME NEW r, NEW s \in Seq(Text), NEW v \in Text
  PROVE  FramesOf(r, Append(s, v)) = Append(FramesOf(r, s), FrameOf(r, v))
<1> DEFINE sv == Append(s, v)
           F == FramesOf(r, s)
           G == FramesOf(r, sv)
           f == FrameOf(r, v)
<1>1. sv \in Seq(Text) /\ Len(sv) = Len(s) + 1 /\ sv[Len(s) + 1] = v OBVIOUS
<1>2. \A i \in 1 .. Len(s) : sv[i] = s[i] OBVIOUS
<1>3. f \in Seq(Inline) BY FrameOfText
<1> HIDE DEF sv
<1>4. F \in Seq(Seq(Inline)) /\ Len(F) = Len(s)
  BY FramesOfSeq
<1>5. G \in Seq(Seq(Inline)) /\ Len(G) = Len(s) + 1
  BY <1>1, FramesOfSeq
<1>6. \A i \in 1 .. Len(s) : F[i] = FrameOf(r, s[i]) BY FramesOfSeq
<1>7. \A i \in 1 .. Len(s) + 1 : G[i] = FrameOf(r, sv[i]) BY <1>1, FramesOfSeq
<1> HIDE DEF F, G, f
<1>8. Append(F, f) \in Seq(Seq(Inline)) /\ Len(Append(F, f)) = Len(s) + 1 BY <1>3, <1>4
<1>9. \A i \in 1 .. Len(s) + 1 : G[i] = Append(F, f)[i]
  <2> TAKE i \in 1 .. Len(s) + 1
  <2>1. CASE i = Len(s) + 1
    <3>1. G[i] = f BY <2>1, <1>1, <1>7 DEF f
    <3>2. Append(F, f)[i] = f BY <2>1, <1>3, <1>4
    <3> QED BY <3>1, <3>2
  <2>2. CASE i \in 1 .. Len(s)
    <3>1. G[i] = FrameOf(r, s[i]) BY <2>2, <1>2, <1>7
    <3>2. Append(F, f)[i] = F[i] BY <2>2, <1>3, <1>4
    <3> QED BY <3>1, <3>2, <2>2, <1>6
  <2>3. \A n \in Nat : \A k \in 1 .. n + 1 : k = n + 1 \/ k \in 1 .. n OBVIOUS
  <2>4. Len(s) \in Nat OBVIOUS
  <2> QED BY <2>1, <2>2, <2>3, <2>4, Zenon
<1>10. G = Append(F, f) BY <1>5, <1>8, <1>9, SeqEqual
<1> QED BY <1>10 DEF F, G, f, sv

LEMMA FrontLast ==
  ASSUME NEW C, NEW s \in Seq(C), s # <<>>
  PROVE  Front(s) \in Seq(C) /\ Last(s) \in C /\ s = Append(Front(s), Last(s))
         /\ Len(Front(s)) = Len(s) - 1
<1>1. Len(s) \in Nat \ {0} BY EmptySeq
<1>2. Front(s) \in Seq(C) /\ Len(Front(s)) = Len(s) - 1
  <2> DEFINE n == Len(s) - 1
  <2>1. n \in Nat /\ \A i \in 1 .. n : s[i] \in C BY <1>1
  <2> HIDE DEF n
  <2>2. SubSeq(s, 1, n) \in Seq(C) BY <2>1, SubSeqProperties
  <2>3. Len(SubSeq(s, 1, n)) = n BY <2>1, SubSeqProperties
  <2> QED BY <2>2, <2>3, Zenon DEF Front, n
<1>3. Last(s) \in C BY <1>1 DEF Last
<1>4. \A i \in 1 .. Len(s) - 1 : Front(s)[i] = s[i] BY <1>1 DEF Front
<1>5. Append(Front(s), Last(s)) \in Seq(C) /\ Len(Append(Front(s), Last(s))) = Len(s)
  BY <1>1, <1>2, <1>3
<1>6. \A i \in 1 .. Len(s) : s[i] = Append(Front(s), Last(s))[i]
  <2> TAKE i \in 1 .. Len(s)
  <2>1. CASE i = Len(s)
    <3>1. Append(Front(s), Last(s))[i] = Last(s) BY <2>1, <1>1, <1>2, <1>3
    <3> QED BY <3>1, <2>1 DEF Last
  <2>2. CASE i \in 1 .. Len(s) - 1
    <3>1. Append(Front(s), Last(s))[i] = Front(s)[i] BY <2>2, <1>1, <1>2, <1>3
    <3> QED BY <3>1, <2>2, <1>4
  <2>3. \A n \in Nat \ {0} : \A k \in 1 .. n : k = n \/ k \in 1 .. n - 1 OBVIOUS
  <2> QED BY <2>1, <2>2, <2>3, <1>1, Zenon
<1>7. s = Append(Front(s), Last(s)) BY <1>5, <1>6, SeqEqual
<1> QED BY <1>2, <1>3, <1>7

LEMMA FrontLastAppend ==
  ASSUME NEW C, NEW s \in Seq(C), NEW v \in C
  PROVE  Front(Append(s, v)) = s /\ Last(Append(s, v)) = v /\ Append(s, v) # <<>>
BY DEF Front, Last

\* One more value.
LEMMA SplitOneValue ==
  ASSUME NEW snd \in Senders, NEW r, NEW s \in Seq(Text), NEW v \in Text
  PROVE  SplitFrom(SplitOf(snd, r, s), UnitsOf(snd, r, s, v)) = SplitOf(snd, r, Append(s, v))
<1> DEFINE F == FramesOf(r, s)
           f == FrameOf(r, v)
<1>1. F \in Seq(Seq(Unit)) /\ f \in Seq(Inline) /\ f \in Seq(Unit)
  BY FramesOfSeq, FrameOfText
<1>2. FramesOf(r, Append(s, v)) = Append(F, f) BY FramesOfAppend
<1>3. Front(Append(s, v)) = s /\ Last(Append(s, v)) = v /\ Append(s, v) # <<>>
  BY FrontLastAppend
<1>4. <<>> \in Seq(Unit) /\ <<"nl">> \in Seq(Unit) /\ <<>> \o f = f /\ <<>> \in Seq(Seq(Unit))
  BY <1>1, UnitSets, ConcatEmptySeq, EmptySeq
<1> HIDE DEF F, f
<1>5. CASE snd = "afterEach"
  <2>1. SplitOf(snd, r, s) = Acc(F, <<>>) BY <1>5, Zenon DEF SplitOf, Complete, Pending, F
  <2>2. SplitOf(snd, r, Append(s, v)) = Acc(Append(F, f), <<>>)
    BY <1>5, <1>2, Zenon DEF SplitOf, Complete, Pending
  <2>3. UnitsOf(snd, r, s, v) = f \o <<"nl">> BY <1>5 DEF UnitsOf, f
  <2>4. SplitFrom(Acc(F, <<>>), f \o <<"nl">>) =
          SplitFrom(SplitFrom(Acc(F, <<>>), f), <<"nl">>)
    BY <1>1, <1>4, SplitConcat
  <2>5. SplitFrom(Acc(F, <<>>), f) = Acc(F, f) BY <1>1, <1>4, SplitInline
  <2>6. SplitFrom(Acc(F, f), <<"nl">>) = Acc(Append(F, f), <<>>) BY <1>1, SplitNewLine
  <2> QED BY <2>1, <2>2, <2>3, <2>4, <2>5, <2>6, Zenon
<1>6. CASE snd # "afterEach" /\ s = <<>>
  <2>2. FramesOf(r, <<>>) = <<>> BY DEF FramesOf
  <2>1. SplitOf(snd, r, s) = Acc(<<>>, <<>>)
    BY <1>6, <2>2, Zenon DEF SplitOf, Complete, Pending
  <2>3. SplitOf(snd, r, Append(s, v)) = Acc(<<>>, f)
    BY <1>3, <1>6, <2>2, Zenon DEF SplitOf, Complete, Pending, f
  <2>4. UnitsOf(snd, r, s, v) = f BY <1>4, <1>6, Zenon DEF UnitsOf, f
  <2>5. SplitFrom(Acc(<<>>, <<>>), f) = Acc(<<>>, <<>> \o f) BY <1>1, <1>4, SplitInline, Zenon
  <2> QED BY <2>1, <2>3, <2>4, <2>5, <1>4, Zenon
<1>7. CASE snd # "afterEach" /\ s # <<>>
  <2> DEFINE P == FramesOf(r, Front(s))
             l == FrameOf(r, Last(s))
  <2>1. Front(s) \in Seq(Text) /\ Last(s) \in Text /\ s = Append(Front(s), Last(s))
    BY <1>7, FrontLast
  <2>2. P \in Seq(Seq(Unit)) /\ l \in Seq(Unit) BY <2>1, FramesOfSeq, FrameOfText
  <2>3. F = Append(P, l) BY <2>1, FramesOfAppend DEF F
  <2>4. SplitOf(snd, r, s) = Acc(P, l) BY <1>7, Zenon DEF SplitOf, Complete, Pending
  <2>5. SplitOf(snd, r, Append(s, v)) = Acc(F, f)
    BY <1>3, <1>7, Zenon DEF SplitOf, Complete, Pending, F, f
  <2>6. UnitsOf(snd, r, s, v) = <<"nl">> \o f BY <1>7, Zenon DEF UnitsOf, f
  <2> HIDE DEF P, l
  <2>7. SplitFrom(Acc(P, l), <<"nl">> \o f) = SplitFrom(SplitFrom(Acc(P, l), <<"nl">>), f)
    BY <1>1, <1>4, SplitConcat
  <2>8. SplitFrom(Acc(P, l), <<"nl">>) = Acc(F, <<>>) BY <2>2, <2>3, SplitNewLine
  <2>9. SplitFrom(Acc(F, <<>>), f) = Acc(F, f) BY <1>1, <1>4, SplitInline
  <2> QED BY <2>4, <2>5, <2>6, <2>7, <2>8, <2>9, Zenon
<1> QED BY <1>5, <1>6, <1>7

\* What is sent for a value is the bytes of the units that it adds.
LEMMA WireOfValue ==
  ASSUME NEW v \in Text, sender \in Senders
  PROVE  WireOf(receiver, UnitsOf(sender, receiver, sent, v)) = Framed(v)
<1>1. v \in Seq(Unit) /\ Encode(v) \in Seq(Unit) BY TextSets, EncodeType
<1>2. <<>> \in Seq(Unit) /\ <<"nl">> \in Seq(Unit) BY UnitSets
<1>3. Encode(<<"nl">>) = <<"nl">>
  <2>1. <<"nl">> \in Seq(Ascii) BY DEF Ascii
  <2> QED BY <2>1, EncodeAscii
<1>a. \A s, t \in Seq(Unit) : Encode(s) = s => Encode(s \o t) = s \o Encode(t)
  BY EncodeConcat
<1>b. \A s, t \in Seq(Unit) : Encode(t) = t => Encode(s \o t) = Encode(s) \o t
  BY EncodeConcat
<1>4. Encode(v \o <<"nl">>) = Encode(v) \o <<"nl">> BY <1>b, <1>1, <1>2, <1>3, Zenon
<1>5. Encode(<<"nl">> \o v) = <<"nl">> \o Encode(v) BY <1>a, <1>1, <1>2, <1>3, Zenon
<1>6. Encode(<<>> \o v) = <<>> \o Encode(v) BY <1>a, <1>1, <1>2, EncodeEmpty, Zenon
<1>7. CASE sender = "afterEach"
  <2>1. Framed(v) = Encode(v) \o <<"nl">> BY <1>7 DEF Framed
  <2>2. UnitsOf(sender, receiver, sent, v) = FrameOf(receiver, v) \o <<"nl">>
    BY <1>7 DEF UnitsOf
  <2> QED BY <2>1, <2>2, <1>4, Zenon DEF WireOf, FrameOf
<1>8. CASE sender = "between"
  <2>1. sender # "afterEach" BY <1>8
  <2>2. Framed(v) = (IF sent = <<>> THEN <<>> ELSE <<"nl">>) \o Encode(v)
    BY <1>8 DEF Framed
  <2>3. UnitsOf(sender, receiver, sent, v) =
          (IF sent = <<>> THEN <<>> ELSE <<"nl">>) \o FrameOf(receiver, v)
    BY <2>1 DEF UnitsOf
  <2> QED BY <2>2, <2>3, <1>5, <1>6, Zenon DEF WireOf, FrameOf
<1> QED BY <1>7, <1>8 DEF Senders

LEMMA ComingIs ==
  ASSUME NEW r, NEW u \in Coming(r)
  PROVE  /\ u \in Seq(Unit) /\ WireOf(r, u) \in Seq(Unit)
         /\ \A w \in Coming(r) :
              u \o w \in Coming(r) /\ WireOf(r, u \o w) = WireOf(r, u) \o WireOf(r, w)
<1>1. Coming(r) \subseteq Seq(Unit) BY UnitSets, SeqMonotonic, Zenon DEF Coming
<1>2. \A w \in Coming(r) : u \o w \in Coming(r) BY ConcatProperties DEF Coming
<1>3. \A w \in Coming(r) : WireOf(r, u \o w) = WireOf(r, u) \o WireOf(r, w)
  BY <1>1, EncodeConcat, Zenon DEF WireOf
<1>4. WireOf(r, u) \in Seq(Unit) BY <1>1, EncodeType, Zenon DEF WireOf
<1> QED BY <1>1, <1>2, <1>3, <1>4, Zenon

LEMMA NothingComing ==
  ASSUME NEW r
  PROVE  <<>> \in Coming(r) /\ WireOf(r, <<>>) = <<>>
BY EncodeEmpty, EmptySeq, Zenon DEF Coming, WireOf

LEMMA UnitsOfComing ==
  ASSUME NEW snd, NEW r, NEW s, NEW v \in Text, r = "fetch" => v \in Seq(AsciiChars)
  PROVE  UnitsOf(snd, r, s, v) \in Coming(r)
<1>1. FrameOf(r, v) \in Coming(r)
  <2>1. FrameOf(r, v) \in Seq(Unit) BY FrameOfText
  <2>2. r # "pekko" => FrameOf(r, v) = v BY DEF FrameOf
  <2>3. v \in Seq(Char) BY TextSets
  <2>4. r = "fetch" => v \in Seq(Ascii) BY UnitSets, SeqMonotonic
  <2> QED BY <2>1, <2>2, <2>3, <2>4, Zenon DEF Coming
<1>2. <<"nl">> \in Coming(r)
  <2>1. "nl" \in Unit /\ "nl" \in Ascii /\ "nl" \in Char BY DEF Unit, Ascii, Char
  <2>2. <<"nl">> \in Seq(Unit) /\ <<"nl">> \in Seq(Ascii) /\ <<"nl">> \in Seq(Char) BY <2>1
  <2> QED BY <2>2, Zenon DEF Coming
<1>3. <<>> \in Coming(r) BY NothingComing
<1> QED BY <1>1, <1>2, <1>3, ComingIs, Zenon DEF UnitsOf

\* The units of a chunk are the next ones, and the bytes that remain, with those held
\* back by a decoder, carry the rest.
NextUnits(chunk, bytes, coming, rest) ==
  /\ Units(chunk) \in Seq(Unit)
  /\ coming = Units(chunk) \o rest
  /\ Carry(chunk) \o bytes = WireOf(receiver, rest)

LEMMA ReceivedUnits ==
  ASSUME receiver \in Receivers, NEW chunk \in Seq(Unit), chunk # <<>>,
         NEW bytes \in Seq(Unit), NEW coming \in Coming(receiver),
         carry \in {<<>>, <<"hi">>}, receiver # "http4s" => carry = <<>>,
         carry \o (chunk \o bytes) = WireOf(receiver, coming)
  PROVE  \E rest \in Coming(receiver) : NextUnits(chunk, bytes, coming, rest)
<1>1. <<>> \o bytes = bytes /\ <<>> \o (chunk \o bytes) = chunk \o bytes
  BY ConcatEmptySeq, ConcatProperties
<1>2. CASE receiver = "pekko"
  <2>1. carry = <<>> /\ Units(chunk) = chunk /\ Carry(chunk) = <<>> BY <1>2 DEF Units, Carry
  <2>2. coming = chunk \o bytes BY <2>1, <1>1, <1>2, Zenon DEF WireOf
  <2>3. bytes \in Coming(receiver) /\ WireOf(receiver, bytes) = bytes
    BY <1>2 DEF Coming, WireOf
  <2> QED BY <2>1, <2>2, <2>3, <1>1, Zenon DEF NextUnits
<1>3. CASE receiver = "fetch"
  <2>1. carry = <<>> /\ Units(chunk) = DecodeText(chunk) /\ Carry(chunk) = <<>>
    BY <1>3 DEF Units, Carry
  <2>2. coming \in Seq(Ascii) BY <1>3 DEF Coming
  <2>3. coming = chunk \o bytes BY <2>1, <2>2, <1>1, <1>3, EncodeAscii, Zenon DEF WireOf
  <2>4. chunk \in Seq(Ascii) /\ bytes \in Seq(Ascii) BY <2>2, <2>3, ConcatParts
  <2>5. DecodeText(chunk) = chunk
    <3>1. chunk \in Seq(Char) BY <2>4, UnitSets, SeqMonotonic
    <3> QED BY <3>1, <2>4, DecodeEncode, EncodeAscii, Zenon
  <2>6. bytes \in Coming(receiver) /\ WireOf(receiver, bytes) = bytes
    BY <2>4, <1>3, EncodeAscii DEF Coming, WireOf
  <2> QED BY <2>1, <2>3, <2>5, <2>6, <1>1, Zenon DEF NextUnits
<1>4. CASE receiver = "http4s"
  <2> DEFINE all == carry \o chunk
  <2>1. coming \in Seq(Char) /\ Coming(receiver) = Seq(Char) BY <1>4 DEF Coming
  <2>2. carry \in Seq(Unit)
    <3>1. "hi" \in Unit BY DEF Unit
    <3>2. <<"hi">> \in Seq(Unit) /\ <<>> \in Seq(Unit) BY <3>1
    <3> QED BY <3>2, Zenon
  <2>3. all \in Seq(Unit) /\ all # <<>> /\ Last(all) = Last(chunk) BY <2>2, LastOfConcat
  <2>4. all \o bytes = Encode(coming)
    BY <1>4, <2>2, Associative, Zenon DEF WireOf
  <2>5. /\ Units(chunk) = DecodeText(IF Last(all) = "hi" THEN Front(all) ELSE all)
        /\ Carry(chunk) = IF Last(chunk) = "hi" THEN <<"hi">> ELSE <<>>
    BY <1>4 DEF Units, Carry
  <2> HIDE DEF all
  <2>6. PICK u \in Seq(Char), w \in Seq(Char) : CutsText(coming, all, bytes, u, w)
    BY <2>1, <2>3, <2>4, EncodeCut
  <2>7. u \in Seq(Unit) /\ Encode(u) \in Seq(Unit) BY UnitSets, SeqMonotonic, EncodeType, Zenon
  <2>8. WireOf(receiver, w) = Encode(w) BY <1>4 DEF WireOf
  <2>9. CASE all = Encode(u) /\ bytes = Encode(w)
    <3>1. Last(all) # "hi" BY <2>3, <2>9, EncodeLast
    <3>2. Units(chunk) = u /\ Carry(chunk) = <<>> BY <3>1, <2>3, <2>5, <2>9, DecodeEncode
    <3>3. coming = u \o w BY <2>6 DEF CutsText
    <3> QED BY <3>2, <3>3, <2>1, <2>7, <2>8, <2>9, <1>1, Zenon DEF NextUnits
  <2>10. CASE all = Encode(u) \o <<"hi">> /\ <<"hi">> \o bytes = Encode(w)
    <3>1. Encode(u) \o <<"hi">> = Append(Encode(u), "hi") BY <2>7, UnitSets, AppendIsConcat
    <3>2. Last(all) = "hi" /\ Front(all) = Encode(u)
      <4>1. "hi" \in Unit BY DEF Unit
      <4>2. Last(Append(Encode(u), "hi")) = "hi" /\ Front(Append(Encode(u), "hi")) = Encode(u)
        BY <4>1, <2>7, FrontLastAppend
      <4> QED BY <4>2, <3>1, <2>10, Zenon
    <3>3. Units(chunk) = u /\ Carry(chunk) = <<"hi">> BY <3>2, <2>3, <2>5, DecodeEncode
    <3>4. coming = u \o w BY <2>6 DEF CutsText
    <3> QED BY <3>3, <3>4, <2>1, <2>7, <2>8, <2>10, Zenon DEF NextUnits
  <2> QED BY <2>6, <2>9, <2>10, Zenon DEF CutsText
<1> QED BY <1>2, <1>3, <1>4 DEF Receivers

(***************************************************************************)
(* Values that were delivered, and the next ones.                          *)
(***************************************************************************)
Starts(s, t)        == Len(s) <= Len(t) /\ \A i \in 1 .. Len(s) : s[i] = t[i]
Follows(s, vals, t) == Len(s) + Len(vals) <= Len(t)
                         /\ \A i \in 1 .. Len(vals) : vals[i] = t[Len(s) + i]

LEMMA StartsIsPrefix ==
  ASSUME NEW C, NEW s \in Seq(C), NEW t \in Seq(C), Starts(s, t)
  PROVE  IsPrefix(s, t)
<1> DEFINE m == Len(s)
<1>1. m \in Nat /\ Len(t) \in Nat /\ m <= Len(t) BY DEF Starts
<1>2. \A i \in 1 .. m : s[i] = t[i] BY DEF Starts
<1>3. SubSeq(s, 1, m) = [i \in 1 .. m |-> s[i]] BY <1>1
<1>4. SubSeq(t, 1, m) = [i \in 1 .. m |-> t[i]] BY <1>1
<1> QED BY <1>1, <1>2, <1>3, <1>4 DEF IsPrefix

LEMMA ConcatIs ==
  ASSUME NEW C, NEW s \in Seq(C), NEW t \in Seq(C)
  PROVE  /\ s \o t \in Seq(C) /\ Len(s \o t) = Len(s) + Len(t)
         /\ \A i \in 1 .. Len(s) : (s \o t)[i] = s[i]
         /\ \A i \in 1 .. Len(t) : (s \o t)[Len(s) + i] = t[i]
         /\ \A i \in 1 .. Len(s) + Len(t) :
              i \in 1 .. Len(s) \/ \E j \in 1 .. Len(t) : i = Len(s) + j
<1>1. s \o t \in Seq(C) /\ Len(s \o t) = Len(s) + Len(t) BY ConcatProperties
<1>2. \A i \in 1 .. Len(s) : (s \o t)[i] = s[i] OBVIOUS
<1>3. \A i \in 1 .. Len(t) : (s \o t)[Len(s) + i] = t[i] OBVIOUS
<1>4. \A m, n \in Nat : \A i \in 1 .. m + n : i \in 1 .. m \/ \E j \in 1 .. n : i = m + j
  <2> TAKE m, n \in Nat
  <2> TAKE i \in 1 .. m + n
  <2>1. i > m => i - m \in 1 .. n /\ i = m + (i - m) OBVIOUS
  <2>2. i <= m => i \in 1 .. m OBVIOUS
  <2> QED BY <2>1, <2>2
<1>5. Len(s) \in Nat /\ Len(t) \in Nat OBVIOUS
<1> QED BY <1>1, <1>2, <1>3, <1>4, <1>5, Zenon

\* With the values that follow, what was delivered is still a beginning.
LEMMA StartsFurther ==
  ASSUME NEW C, NEW s \in Seq(C), NEW vals \in Seq(C), NEW t, Starts(s, t),
         Follows(s, vals, t)
  PROVE  Starts(s \o vals, t)
<1> DEFINE all == s \o vals
           m == Len(s)
           n == Len(vals)
<1>1. Len(all) = m + n /\ m + n <= Len(t) BY ConcatIs DEF Follows
<1>2. \A i \in 1 .. m : all[i] = t[i] BY ConcatIs DEF Starts
<1>3. \A j \in 1 .. n : all[m + j] = t[m + j] BY ConcatIs DEF Follows
<1>4. \A i \in 1 .. m + n : i \in 1 .. m \/ \E j \in 1 .. n : i = m + j BY ConcatIs
<1> HIDE DEF all, m, n
<1>5. \A i \in 1 .. m + n : all[i] = t[i] BY <1>2, <1>3, <1>4, Zenon
<1> QED BY <1>1, <1>5, Zenon DEF Starts, all

LEMMA CompleteIs ==
  ASSUME NEW snd, NEW s \in Seq(Text)
  PROVE  /\ Complete(snd, s) \in Seq(Text)
         /\ Starts(Complete(snd, s), s)
         /\ snd = "afterEach" \/ s = <<>> => Complete(snd, s) = s
         /\ snd # "afterEach" => Len(s) <= Len(Complete(snd, s)) + 1
<1>1. Len(s) \in Nat OBVIOUS
<1>2. CASE snd = "afterEach" \/ s = <<>>
  <2>1. Complete(snd, s) = s BY <1>2 DEF Complete
  <2>2. Starts(s, s) /\ Len(s) <= Len(s) + 1 BY <1>1 DEF Starts
  <2> QED BY <2>1, <2>2, Zenon
<1>3. CASE ~ (snd = "afterEach" \/ s = <<>>)
  <2> DEFINE P == Front(s)
  <2>1. Complete(snd, s) = P BY <1>3 DEF Complete
  <2>2. P \in Seq(Text) /\ Len(P) = Len(s) - 1 BY <1>3, FrontLast
  <2>3. \A i \in 1 .. Len(P) : P[i] = s[i] BY <1>1, <2>2 DEF Front
  <2> HIDE DEF P
  <2>4. Len(P) <= Len(s) /\ Len(s) <= Len(P) + 1 BY <1>1, <2>2
  <2> QED BY <2>1, <2>2, <2>3, <2>4, <1>3, Zenon DEF Starts
<1> QED BY <1>2, <1>3, Zenon

LEMMA AccParts ==
  ASSUME NEW F, NEW q
  PROVE  Acc(F, q).frames = F /\ Acc(F, q).rest = q
BY DEF Acc

LEMMA AccInjective ==
  ASSUME NEW F, NEW q, NEW G, NEW p, Acc(F, q) = Acc(G, p)
  PROVE  F = G /\ q = p
BY AccParts

HasMiddle(all, F, G) ==
  Len(F) + Len(G) <= Len(all) /\ \A i \in 1 .. Len(G) : all[Len(F) + i] = G[i]

LEMMA MiddlePart ==
  ASSUME NEW C, NEW F \in Seq(C), NEW G \in Seq(C), NEW H \in Seq(C)
  PROVE  HasMiddle((F \o G) \o H, F, G)
<1> DEFINE FG == F \o G
           all == FG \o H
           k == Len(F)
           n == Len(G)
           h == Len(H)
<1>1. FG \in Seq(C) /\ Len(FG) = k + n /\ \A i \in 1 .. n : FG[k + i] = G[i] BY ConcatIs
<1>2. k \in Nat /\ n \in Nat /\ h \in Nat OBVIOUS
<1> HIDE DEF FG
<1>3. Len(all) = (k + n) + h /\ \A i \in 1 .. k + n : all[i] = FG[i]
  <2>1. Len(all) = Len(FG) + Len(H) BY <1>1, ConcatIs
  <2>2. \A i \in 1 .. Len(FG) : all[i] = FG[i] BY <1>1, ConcatIs
  <2> QED BY <2>1, <2>2, <1>1, Zenon
<1> HIDE DEF all, k, n, h
<1>4. \A i \in 1 .. n : k + i \in 1 .. k + n BY <1>2
<1>5. \A i \in 1 .. n : all[k + i] = G[i] BY <1>1, <1>3, <1>4, Zenon
<1>6. k + n <= Len(all) BY <1>2, <1>3
<1> QED BY <1>5, <1>6, Zenon DEF HasMiddle, all, FG, k, n

\* The frames that a framing completes after those of d are those of the next values.
LEMMA NextFrames ==
  ASSUME NEW snd, NEW r, NEW s \in Seq(Text), NEW d \in Seq(Text),
         NEW G \in Seq(Seq(Inline)), NEW q \in Seq(Inline), NEW rest \in Seq(Unit)
  PROVE  SplitFrom(Acc(FramesOf(r, d) \o G, q), rest) = SplitOf(snd, r, s) =>
           \E vals \in Seq(Text) : G = FramesOf(r, vals) /\ Follows(d, vals, s)
<1> DEFINE F == FramesOf(r, d)
           H == SplitFrom(Acc(<<>>, q), rest).frames
           P == Complete(snd, s)
           all == FramesOf(r, P)
           k == Len(d)
           n == Len(G)
           vals == [i \in 1 .. n |-> s[k + i]]
<1>0. HAVE SplitFrom(Acc(FramesOf(r, d) \o G, q), rest) = SplitOf(snd, r, s)
<1>1. F \in Seq(Seq(Inline)) /\ Len(F) = k BY FramesOfSeq
<1>2. F \o G \in Seq(Seq(Inline)) BY <1>1, ConcatProperties
<1>3. all = (F \o G) \o H
  <2>1. SplitFrom(Acc(F \o G, q), rest) =
          Acc((F \o G) \o H, SplitFrom(Acc(<<>>, q), rest).rest)
    BY <1>2, SplitShift
  <2>2. Acc(all, Pending(snd, r, s)) = Acc((F \o G) \o H, SplitFrom(Acc(<<>>, q), rest).rest)
    BY <2>1, <1>0, Zenon DEF SplitOf
  <2> HIDE DEF all, F, H
  <2> QED BY <2>2, AccInjective
<1>4. H \in Seq(Seq(Inline))
  <2>1. <<>> \in Seq(Seq(Inline)) OBVIOUS
  <2>2. SplitFrom(Acc(<<>>, q), rest) \in LineState BY <2>1, LineStateIs, LineStateSplit
  <2> QED BY <2>2, LineStateParts
<1>5. P \in Seq(Text) /\ Starts(P, s) BY CompleteIs
<1>6. Len(all) = Len(P) /\ \A i \in 1 .. Len(P) : all[i] = FrameOf(r, P[i])
  BY <1>5, FramesOfSeq
<1>7. k \in Nat /\ n \in Nat /\ Len(s) \in Nat /\ Len(P) \in Nat BY <1>5
<1>8. G = [i \in 1 .. n |-> G[i]] /\ \A i \in 1 .. Len(s) : s[i] \in Text OBVIOUS
<1> HIDE DEF F, H, all, P
<1>9. k + n <= Len(all) /\ \A i \in 1 .. n : all[k + i] = G[i]
  <2>1. HasMiddle((F \o G) \o H, F, G) BY <1>1, <1>4, MiddlePart
  <2> QED BY <2>1, <1>1, <1>3, Zenon DEF HasMiddle
<1> HIDE DEF k, n
<1>10. Len(P) <= Len(s) /\ \A i \in 1 .. Len(P) : P[i] = s[i] BY <1>5 DEF Starts
<1>11. k + n <= Len(s) BY <1>6, <1>7, <1>9, <1>10
<1>12. \A i \in 1 .. n : k + i \in 1 .. Len(P) /\ k + i \in 1 .. Len(s)
  BY <1>6, <1>7, <1>9, <1>11
<1>13. \A i \in 1 .. n : G[i] = FrameOf(r, s[k + i]) BY <1>6, <1>9, <1>10, <1>12, Zenon
<1>14. vals \in Seq(Text) /\ Len(vals) = n /\ \A i \in 1 .. n : vals[i] = s[k + i]
  <2>1. \A i \in 1 .. n : s[k + i] \in Text BY <1>8, <1>12, Zenon
  <2> QED BY <2>1, <1>7
<1> HIDE DEF vals
<1>15. G = FramesOf(r, vals)
  <2>1. FramesOf(r, vals) = [i \in 1 .. n |-> FrameOf(r, vals[i])]
    <3>1. DOMAIN vals = 1 .. n BY <1>14
    <3> QED BY <3>1 DEF FramesOf
  <2>2. \A i \in 1 .. n : FrameOf(r, vals[i]) = G[i] BY <1>13, <1>14, Zenon
  <2> QED BY <2>1, <2>2, <1>8
<1>16. Follows(d, vals, s) BY <1>11, <1>14, Zenon DEF Follows, k
<1> QED BY <1>14, <1>15, <1>16

LEMMA FramesOfConcat ==
  ASSUME NEW r, NEW s \in Seq(Text), NEW t \in Seq(Text)
  PROVE  FramesOf(r, s \o t) = FramesOf(r, s) \o FramesOf(r, t)
<1> DEFINE st == s \o t
           m == Len(s)
           n == Len(t)
           A == FramesOf(r, st)
           B == FramesOf(r, s) \o FramesOf(r, t)
<1>1. st \in Seq(Text) /\ Len(st) = m + n BY ConcatIs
<1>2. A \in Seq(Seq(Unit)) /\ Len(A) = m + n /\ \A i \in 1 .. m + n : A[i] = FrameOf(r, st[i])
  BY <1>1, FramesOfSeq
<1>3. B \in Seq(Seq(Unit)) /\ Len(B) = m + n
  <2> DEFINE S == FramesOf(r, s)
             T == FramesOf(r, t)
  <2>1. S \in Seq(Seq(Unit)) /\ T \in Seq(Seq(Unit)) /\ Len(S) = m /\ Len(T) = n
    BY FramesOfSeq
  <2> HIDE DEF S, T
  <2>2. S \o T \in Seq(Seq(Unit)) /\ Len(S \o T) = Len(S) + Len(T) BY <2>1, ConcatIs
  <2> QED BY <2>1, <2>2, Zenon DEF S, T
<1>4. \A i \in 1 .. m : B[i] = FrameOf(r, s[i]) /\ st[i] = s[i]
  <2>1. \A i \in 1 .. m : st[i] = s[i] BY ConcatIs
  <2>2. \A i \in 1 .. m : B[i] = FramesOf(r, s)[i] BY FramesOfSeq, ConcatIs
  <2>3. \A i \in 1 .. m : FramesOf(r, s)[i] = FrameOf(r, s[i]) BY FramesOfSeq
  <2> QED BY <2>1, <2>2, <2>3, Zenon
<1>5. \A j \in 1 .. n : B[m + j] = FrameOf(r, t[j]) /\ st[m + j] = t[j]
  <2>1. \A j \in 1 .. n : st[m + j] = t[j] BY ConcatIs
  <2> DEFINE S == FramesOf(r, s)
             T == FramesOf(r, t)
  <2>a. S \in Seq(Seq(Unit)) /\ T \in Seq(Seq(Unit)) /\ Len(S) = m /\ Len(T) = n
    BY FramesOfSeq
  <2> HIDE DEF S, T
  <2>b. \A j \in 1 .. Len(T) : (S \o T)[Len(S) + j] = T[j] BY <2>a, ConcatIs
  <2>2. \A j \in 1 .. n : B[m + j] = FramesOf(r, t)[j] BY <2>a, <2>b, Zenon DEF S, T
  <2>3. \A j \in 1 .. n : FramesOf(r, t)[j] = FrameOf(r, t[j]) BY FramesOfSeq
  <2> QED BY <2>1, <2>2, <2>3, Zenon
<1>6. \A i \in 1 .. m + n : i \in 1 .. m \/ \E j \in 1 .. n : i = m + j BY ConcatIs
<1> HIDE DEF A, B, st, m, n
<1>7. \A i \in 1 .. m + n : A[i] = B[i]
  <2> TAKE i \in 1 .. m + n
  <2>1. A[i] = FrameOf(r, st[i]) BY <1>2
  <2>2. CASE i \in 1 .. m BY <2>1, <2>2, <1>4
  <2>3. CASE \E j \in 1 .. n : i = m + j BY <2>1, <2>3, <1>5
  <2> QED BY <2>2, <2>3, <1>6, Zenon
<1>8. A = B BY <1>2, <1>3, <1>7, SeqEqual, Zenon
<1> QED BY <1>8 DEF A, B, st

(***************************************************************************)
(* Decoding.                                                               *)
(***************************************************************************)
LEMMA LeastExists ==
  ASSUME NEW S \in SUBSET Nat, S # {}
  PROVE  \E i \in S : \A j \in S : i <= j
<1> DEFINE R == OpToRel(<, Nat)
<1>1. IsWellFoundedOn(R, Nat) BY NatLessThanWellFounded
<1>2. \A y, x \in Nat : y < x => <<y, x>> \in R BY DEF OpToRel
<1> HIDE DEF R
<1>3. PICK x \in S : \A y \in S : ~ (<<y, x>> \in R) BY <1>1, WFMin, Zenon
<1>4. \A y \in S : ~ (y < x) BY <1>2, <1>3
<1>5. \A y \in S : x <= y BY <1>4
<1> QED BY <1>5

\* The values of vals are decoded, up to the first that is rejected.
Decoded(vals, end) ==
  \/ /\ \A i \in 1 .. Len(vals) : vals[i] \notin Undecodable
     /\ status' = end /\ queue' = queue \o vals
  \/ \E n \in Nat :
       /\ n + 1 <= Len(vals) /\ vals[n + 1] \in Undecodable
       /\ \A i \in 1 .. n : vals[i] \notin Undecodable
       /\ status' = "failed"
       /\ queue' = IF receiver = "fetch" THEN <<>> ELSE queue \o SubSeq(vals, 1, n)

LEMMA DecodesAll ==
  ASSUME NEW vals \in Seq(Text), NEW end, DecodeAll(FramesOf(receiver, vals), end),
         queue \in Seq(Text)
  PROVE  Decoded(vals, end)
<1> DEFINE frames == FramesOf(receiver, vals)
           texts == [i \in DOMAIN frames |-> TextOf(frames[i])]
           bad == {i \in DOMAIN texts : ~Decodes(texts[i])}
           least == CHOOSE i \in bad : \A j \in bad : i <= j
           good == IF bad = {} THEN texts ELSE SubSeq(texts, 1, least - 1)
<1>1. /\ status' = IF bad = {} THEN end ELSE "failed"
      /\ queue'  = IF bad # {} /\ receiver = "fetch" THEN <<>> ELSE queue \o good
  BY DEF DecodeAll
<1>2. Len(vals) \in Nat /\ DOMAIN vals = 1 .. Len(vals) OBVIOUS
<1>3. texts = vals
  <2>1. DOMAIN frames = 1 .. Len(vals) BY <1>2 DEF FramesOf
  <2>2. \A i \in 1 .. Len(vals) : frames[i] = FrameOf(receiver, vals[i]) BY FramesOfSeq
  <2>3. \A i \in 1 .. Len(vals) : TextOf(frames[i]) = vals[i] BY <2>2, TextOfFrame
  <2>4. vals = [i \in 1 .. Len(vals) |-> vals[i]] OBVIOUS
  <2> HIDE DEF frames
  <2> QED BY <2>1, <2>3, <2>4
<1> HIDE DEF texts
<1>4. bad = {i \in 1 .. Len(vals) : vals[i] \in Undecodable}
  <2>1. \A i \in 1 .. Len(vals) : vals[i] # <<>> BY DEF Text
  <2> QED BY <2>1, <1>2, <1>3 DEF Decodes
<1> HIDE DEF bad
<1>5. CASE bad = {}
  <2>1. \A i \in 1 .. Len(vals) : vals[i] \notin Undecodable BY <1>4, <1>5
  <2>2. status' = end /\ queue' = queue \o vals BY <1>1, <1>3, <1>5
  <2> QED BY <2>1, <2>2 DEF Decoded
<1>6. CASE bad # {}
  <2>1. bad \subseteq Nat BY <1>4, <1>2
  <2>2. least \in bad /\ \A j \in bad : least <= j BY <2>1, <1>6, LeastExists
  <2>3. status' = "failed" /\ queue' = IF receiver = "fetch" THEN <<>> ELSE queue \o good
    BY <1>1, <1>6
  <2>4. good = SubSeq(vals, 1, least - 1) BY <1>3, <1>6
  <2> HIDE DEF least, good
  <2> DEFINE n == least - 1
  <2>5. least \in 1 .. Len(vals) /\ vals[least] \in Undecodable BY <2>2, <1>4
  <2>6. n \in Nat /\ n + 1 = least /\ n + 1 <= Len(vals) BY <2>5, <1>2
  <2>7. \A i \in 1 .. n : i \in 1 .. Len(vals) /\ ~ (least <= i) BY <2>6, <1>2
  <2>8. \A i \in 1 .. n : vals[i] \notin Undecodable BY <2>2, <2>7, <1>4
  <2> HIDE DEF n
  <2>9. good = SubSeq(vals, 1, n) BY <2>4 DEF n
  <2> QED BY <2>3, <2>5, <2>6, <2>8, <2>9 DEF Decoded
<1> QED BY <1>5, <1>6

(***************************************************************************)
(* The stream. With the frames of the values d and the rest buf, the       *)
(* framing makes of what is to come, carried by bytes, all those of s.     *)
(***************************************************************************)
FlowOf(snd, r, s, d, buf, bytes) ==
  \E coming \in Coming(r) :
    /\ bytes = WireOf(r, coming)
    /\ SplitFrom(Acc(FramesOf(r, d), buf), coming) = SplitOf(snd, r, s)

LEMMA FlowStarts ==
  ASSUME NEW snd, NEW r
  PROVE  FlowOf(snd, r, <<>>, <<>>, <<>>, <<>>)
<1>1. FramesOf(r, <<>>) = <<>> BY DEF FramesOf
<1>2. Complete(snd, <<>>) = <<>> /\ Pending(snd, r, <<>>) = <<>> BY DEF Complete, Pending
<1> QED BY <1>1, <1>2, NothingComing, SplitNothing, Zenon DEF FlowOf, SplitOf

\* One more value is sent.
LEMMA FlowSends ==
  ASSUME NEW snd \in Senders, NEW r, NEW s \in Seq(Text), NEW d, NEW buf, NEW bytes,
         FlowOf(snd, r, s, d, buf, bytes),
         NEW v \in Text, r = "fetch" => v \in Seq(AsciiChars)
  PROVE  FlowOf(snd, r, Append(s, v), d, buf, bytes \o WireOf(r, UnitsOf(snd, r, s, v)))
<1> DEFINE acc == Acc(FramesOf(r, d), buf)
           more == UnitsOf(snd, r, s, v)
<1>1. PICK coming \in Coming(r) : bytes = WireOf(r, coming)
                                  /\ SplitFrom(acc, coming) = SplitOf(snd, r, s)
  BY DEF FlowOf
<1>2. more \in Coming(r) BY UnitsOfComing
<1>3. SplitFrom(SplitOf(snd, r, s), more) = SplitOf(snd, r, Append(s, v)) BY SplitOneValue
<1> HIDE DEF acc, more
<1>4. coming \in Seq(Unit) /\ more \in Seq(Unit) BY <1>2, ComingIs
<1>5. coming \o more \in Coming(r) BY <1>2, ComingIs
<1>6. WireOf(r, coming \o more) = bytes \o WireOf(r, more) BY <1>1, <1>2, ComingIs
<1>7. SplitFrom(acc, coming \o more) = SplitOf(snd, r, Append(s, v))
  BY <1>1, <1>3, <1>4, SplitConcat
<1> QED BY <1>5, <1>6, <1>7, Zenon DEF FlowOf, acc, more

\* A chunk is received: its complete frames are those of the next values.
TakesIn(chunk, bytes) ==
  /\ Split(Units(chunk)).rest \in Seq(Inline)
  /\ \E vals \in Seq(Text) :
       /\ Split(Units(chunk)).frames = FramesOf(receiver, vals)
       /\ Follows(delivered, vals, sent)
       /\ FlowOf(sender, receiver, sent, delivered \o vals, Split(Units(chunk)).rest,
                 Carry(chunk) \o bytes)

LEMMA FlowReceives ==
  ASSUME receiver \in Receivers, sent \in Seq(Text), delivered \in Seq(Text),
         buffer \in Seq(Inline), carry \in {<<>>, <<"hi">>},
         receiver # "http4s" => carry = <<>>,
         NEW chunk \in Seq(Unit), chunk # <<>>, NEW bytes \in Seq(Unit),
         FlowOf(sender, receiver, sent, delivered, buffer, carry \o (chunk \o bytes))
  PROVE  TakesIn(chunk, bytes)
<1> DEFINE F == FramesOf(receiver, delivered)
           d == delivered
<1> HIDE DEF d
<1>1. PICK coming \in Coming(receiver) :
        /\ carry \o (chunk \o bytes) = WireOf(receiver, coming)
        /\ SplitFrom(Acc(F, buffer), coming) = SplitOf(sender, receiver, sent)
  BY DEF FlowOf
<1>2. PICK rest \in Coming(receiver) : NextUnits(chunk, bytes, coming, rest)
  BY <1>1, ReceivedUnits
<1> DEFINE units == Units(chunk)
           G == Split(units).frames
           q == Split(units).rest
<1>3. units \in Seq(Unit) /\ coming = units \o rest /\ rest \in Seq(Unit)
  BY <1>2, ComingIs DEF NextUnits
<1>4. F \in Seq(Seq(Inline)) BY FramesOfSeq
<1> HIDE DEF units, F
<1>5. Split(units) \in LineState /\ SplitFrom(Acc(F, buffer), units) = Acc(F \o G, q)
  BY <1>3, <1>4, SplitIs
<1>6. G \in Seq(Seq(Inline)) /\ q \in Seq(Inline) BY <1>5, LineStateParts
<1> HIDE DEF G, q
<1>7. SplitFrom(Acc(F \o G, q), rest) = SplitOf(sender, receiver, sent)
  <2>1. SplitFrom(Acc(F, buffer), units \o rest) =
          SplitFrom(SplitFrom(Acc(F, buffer), units), rest)
    BY <1>3, SplitConcat
  <2> QED BY <2>1, <1>1, <1>3, <1>5, Zenon
<1>8. PICK vals \in Seq(Text) : G = FramesOf(receiver, vals) /\ Follows(delivered, vals, sent)
  BY <1>3, <1>6, <1>7, NextFrames DEF F
<1>9. FramesOf(receiver, delivered \o vals) = F \o G BY <1>8, FramesOfConcat DEF F
<1>10. FlowOf(sender, receiver, sent, delivered \o vals, q, Carry(chunk) \o bytes)
  BY <1>2, <1>7, <1>9, Zenon DEF NextUnits, FlowOf
<1> QED BY <1>6, <1>8, <1>10, Zenon DEF TakesIn, G, q, units

\* Nothing is under way: what was not delivered is the frame in the buffer.
LEMMA FlowEnds ==
  ASSUME receiver \in Receivers, sent \in Seq(Text), delivered \in Seq(Text),
         Starts(delivered, sent), carry \in {<<>>, <<"hi">>},
         receiver # "http4s" => carry = <<>>,
         FlowOf(sender, receiver, sent, delivered, buffer, carry \o <<>>)
  PROVE  delivered = Complete(sender, sent) /\ buffer = Pending(sender, receiver, sent)
<1> DEFINE P == Complete(sender, sent)
<1>1. PICK coming \in Coming(receiver) :
        /\ carry \o <<>> = WireOf(receiver, coming)
        /\ SplitFrom(Acc(FramesOf(receiver, delivered), buffer), coming) =
             SplitOf(sender, receiver, sent)
  BY DEF FlowOf
<1>2. carry \o <<>> = carry
  <2>1. "hi" \in Unit BY DEF Unit
  <2>2. <<"hi">> \in Seq(Unit) /\ <<>> \in Seq(Unit) BY <2>1
  <2>3. carry \in Seq(Unit) BY <2>2, Zenon
  <2> QED BY <2>3, ConcatEmptySeq
<1>3. coming = <<>>
  <2>1. CASE receiver = "pekko"
    <3>1. carry = <<>> BY <2>1
    <3> QED BY <3>1, <2>1, <1>1, <1>2, Zenon DEF WireOf
  <2>2. CASE receiver # "pekko"
    <3>1. coming \in Seq(Char) BY <2>2, UnitSets, SeqMonotonic DEF Coming
    <3>2. Encode(coming) = carry BY <2>2, <1>1, <1>2, Zenon DEF WireOf
    <3>3. carry # <<"hi">>
      <4>1. <<"hi">> # <<>> /\ Last(<<"hi">>) = "hi" BY DEF Last
      <4> QED BY <4>1, <3>1, <3>2, EncodeLast, Zenon
    <3>4. Encode(coming) = Encode(<<>>) BY <3>2, <3>3, EncodeEmpty
    <3>5. <<>> \in Seq(Char) OBVIOUS
    <3> QED BY <3>1, <3>4, <3>5, DecodedEncoded, Zenon
  <2> QED BY <2>1, <2>2
<1>4. Acc(FramesOf(receiver, delivered), buffer) =
        Acc(FramesOf(receiver, P), Pending(sender, receiver, sent))
  BY <1>1, <1>3, SplitNothing, Zenon DEF SplitOf
<1>5. FramesOf(receiver, delivered) = FramesOf(receiver, P)
      /\ buffer = Pending(sender, receiver, sent)
  BY <1>4, AccInjective
<1>6. P \in Seq(Text) /\ Starts(P, sent) BY CompleteIs
<1> HIDE DEF P
<1>7. Len(delivered) = Len(P) BY <1>5, <1>6, FramesOfSeq
<1>8. \A i \in 1 .. Len(P) : delivered[i] = P[i] BY <1>6, <1>7, Zenon DEF Starts
<1>9. delivered = P BY <1>6, <1>7, <1>8, SeqEqual
<1> QED BY <1>5, <1>9 DEF P

(***************************************************************************)
(* The invariant.                                                          *)
(***************************************************************************)

\* The fetch client is sent ASCII only: it decodes each chunk on its own.
FetchIsAscii == Values["fetch"] \subseteq Seq(AsciiChars)

\* Nobody ends every frame with a new-line for a receiver that takes what follows it.
NoTrailingNewLine == \A r \in Receivers \ {"pekko"} : <<"afterEach", r>> \notin Pairs

TypesOK ==
  /\ sender \in Senders /\ receiver \in Receivers /\ <<sender, receiver>> \in Pairs
  /\ sent \in Seq(Values[receiver])
  /\ ended \in BOOLEAN /\ lost \in BOOLEAN /\ firstChunk \in BOOLEAN
  /\ wire \in Seq(Unit) /\ (sent = <<>> => wire = <<>>)
  /\ carry \in {<<>>, <<"hi">>} /\ (receiver # "http4s" => carry = <<>>)
  /\ buffer \in Seq(Inline)
  /\ queue \in Seq(Text) /\ consumed \in Seq(Text)
  /\ status \in {"open", "closed", "failed"}

\* What was delivered are the first values sent, and the codec accepts them.
Good(d) == Starts(d, sent) /\ \A i \in 1 .. Len(d) : d[i] \notin Undecodable

Flowing ==
  /\ ~lost
  /\ FlowOf(sender, receiver, sent, delivered, buffer, carry \o wire)
  /\ firstChunk => delivered = <<>> /\ buffer = <<>> /\ carry = <<>>
  /\ ~firstChunk => sent # <<>>

\* The codec rejects the next value, or one that the fetch client was still to consume.
Rejection(r, s, c, d) ==
  \/ r = "fetch" /\ \E i \in 1 .. Len(s) : i > Len(c) /\ s[i] \in Undecodable
  \/ Len(d) < Len(s) /\ s[Len(d) + 1] \in Undecodable

Excused ==
  \/ lost
  \/ sender = "afterEach" /\ receiver # "pekko"
  \/ Rejection(receiver, sent, consumed, delivered)

StreamInv ==
  /\ TypesOK
  /\ Good(delivered)
  /\ status = "open"   => Flowing
  /\ status = "closed" => ended /\ delivered = sent
  /\ status = "failed" => Excused /\ (receiver = "fetch" => queue = <<>>)

LEMMA TextValues ==
  ASSUME receiver \in Receivers
  PROVE  Values[receiver] \subseteq Text
BY FramedStreamAssumption DEF Text

LEMMA SentIsText ==
  ASSUME TypesOK
  PROVE  sent \in Seq(Text) /\ delivered \in Seq(Text)
<1>1. sent \in Seq(Text) BY TextValues, SeqMonotonic, Zenon DEF TypesOK
<1>2. consumed \o queue \in Seq(Text) BY ConcatProperties DEF TypesOK
<1> QED BY <1>1, <1>2 DEF delivered

LEMMA StreamStarts ==
  ASSUME Init
  PROVE  StreamInv
<1>1. PICK pair \in Pairs : sender = pair[1] /\ receiver = pair[2] BY Zenon DEF Init
<1>2. pair \in Senders \X Receivers BY FramedStreamAssumption
<1>3. pair = <<sender, receiver>> /\ sender \in Senders /\ receiver \in Receivers
  BY <1>1, <1>2
<1>4. TypesOK
  <2>1. <<sender, receiver>> \in Pairs BY <1>3, Zenon
  <2>2. \A C : <<>> \in Seq(C) OBVIOUS
  <2>3. /\ sent \in Seq(Values[receiver]) /\ wire \in Seq(Unit) /\ buffer \in Seq(Inline)
        /\ queue \in Seq(Text) /\ consumed \in Seq(Text)
    BY <2>2, Zenon DEF Init
  <2> QED BY <1>3, <2>1, <2>3 DEF Init, TypesOK
<1>5. delivered = <<>> BY DEF Init, delivered
<1>6. <<>> \o <<>> = <<>> OBVIOUS
<1>7. Flowing BY <1>5, <1>6, FlowStarts, Zenon DEF Init, Flowing
<1>8. Good(<<>>) BY DEF Good, Starts, Init
<1> QED BY <1>4, <1>5, <1>7, <1>8 DEF StreamInv, Init

LEMMA SendKeeps ==
  ASSUME StreamInv, FetchIsAscii, NEW v \in Values[receiver], Send(v)
  PROVE  StreamInv'
<1>1. TypesOK /\ receiver \in Receivers /\ sender \in Senders BY DEF StreamInv, TypesOK
<1>2. sent \in Seq(Text) /\ delivered \in Seq(Text) BY <1>1, SentIsText
<1>3. v \in Text /\ (receiver = "fetch" => v \in Seq(AsciiChars))
  BY <1>1, TextValues DEF FetchIsAscii
<1> DEFINE units == UnitsOf(sender, receiver, sent, v)
<1>4. units \in Coming(receiver) BY <1>3, UnitsOfComing
<1>5. Framed(v) = WireOf(receiver, units) BY <1>1, <1>3, WireOfValue
<1>6. Framed(v) \in Seq(Unit) BY <1>4, <1>5, ComingIs
<1>7. sent' = Append(sent, v) /\ wire' = wire \o Framed(v)
      /\ UNCHANGED <<sender, receiver, ended, lost, consumed, carry, buffer, firstChunk,
                     queue, status>>
  BY DEF Send, receiving
<1>8. sent' # <<>> /\ sent' \in Seq(Values[receiver]) /\ Len(sent') = Len(sent) + 1
      /\ \A i \in 1 .. Len(sent) : sent'[i] = sent[i]
  BY <1>7 DEF StreamInv, TypesOK
<1>9. wire' \in Seq(Unit) BY <1>1, <1>6, <1>7, ConcatProperties, Zenon DEF TypesOK
<1>10. delivered' = delivered BY <1>7 DEF delivered
<1>11. TypesOK' BY <1>1, <1>7, <1>8, <1>9 DEF TypesOK
<1>12. Good(delivered)'
  <2>1. Len(delivered) \in Nat /\ Len(sent) \in Nat BY <1>2
  <2>2. Good(delivered) BY DEF StreamInv
  <2> QED BY <2>1, <2>2, <1>8, <1>10 DEF Good, Starts
<1>13. (status = "open" => Flowing)'
  <2>1. SUFFICES ASSUME status' = "open" PROVE Flowing' OBVIOUS
  <2>2. Flowing BY <2>1, <1>7 DEF StreamInv
  <2>3. carry \in Seq(Unit)
    <3>1. <<"hi">> \in Seq(Unit) /\ <<>> \in Seq(Unit) BY DEF Unit
    <3> QED BY <3>1, <1>1, Zenon DEF TypesOK
  <2>4. carry' \o wire' = (carry \o wire) \o Framed(v)
    BY <2>3, <1>1, <1>6, <1>7, Associative, Zenon DEF TypesOK
  <2>5. FlowOf(sender, receiver, sent, delivered, buffer, carry \o wire)
    BY <2>2 DEF Flowing
  <2>6. FlowOf(sender, receiver, Append(sent, v), delivered, buffer,
               (carry \o wire) \o WireOf(receiver, units))
    BY <2>5, <1>1, <1>2, <1>3, FlowSends
  <2> HIDE DEF units
  <2>7. FlowOf(sender, receiver, sent, delivered, buffer, carry \o wire)'
    BY <2>4, <2>6, <1>5, <1>7, <1>10, Zenon
  <2> QED BY <2>2, <2>7, <1>7, <1>8, <1>10, Zenon DEF Flowing
<1>14. status # "closed" \/ ended = FALSE BY DEF Send
<1>15. status = "failed" => Excused'
  <2>1. SUFFICES ASSUME status = "failed" PROVE Excused' OBVIOUS
  <2>2. Excused BY <2>1 DEF StreamInv
  <2>3. Len(delivered) \in Nat /\ Len(sent) \in Nat BY <1>2
  <2>4. Rejection(receiver, sent, consumed, delivered) =>
          Rejection(receiver, sent', consumed, delivered)
    BY <2>3, <1>8 DEF Rejection
  <2> QED BY <2>2, <2>4, <1>7, <1>10 DEF Excused
<1>16. (status = "closed" => ended /\ delivered = sent)' BY <1>7 DEF StreamInv, Send
<1> QED BY <1>7, <1>11, <1>12, <1>13, <1>15, <1>16 DEF StreamInv

LEMMA EndKeeps ==
  ASSUME StreamInv, End
  PROVE  StreamInv'
<1>1. UNCHANGED <<sender, receiver, sent, wire, lost, consumed, carry, buffer, firstChunk,
                  queue, status>>
      /\ ended' = TRUE
  BY DEF End, receiving
<1>2. delivered' = delivered BY <1>1 DEF delivered
<1>3. TypesOK' BY <1>1 DEF StreamInv, TypesOK
<1>4. Good(delivered)' BY <1>1, <1>2 DEF StreamInv, Good
<1>5. (status = "open" => Flowing)' BY <1>1, <1>2, Zenon DEF StreamInv, Flowing
<1>6. (status = "failed" => Excused /\ (receiver = "fetch" => queue = <<>>))'
  BY <1>1, <1>2, Zenon DEF StreamInv, Excused
<1>7. (status = "closed" => ended /\ delivered = sent)' BY <1>1, <1>2 DEF StreamInv
<1> QED BY <1>3, <1>4, <1>5, <1>6, <1>7 DEF StreamInv

LEMMA GoodPart ==
  ASSUME NEW s \in Seq(Text), NEW t \in Seq(Text), Good(s \o t)
  PROVE  Good(s)
<1> DEFINE all == s \o t
           m == Len(s)
           n == Len(t)
<1>1. Len(all) = m + n /\ \A i \in 1 .. m : all[i] = s[i] BY ConcatIs
<1>2. m \in Nat /\ n \in Nat OBVIOUS
<1> HIDE DEF all, m, n
<1>3. /\ Len(all) <= Len(sent)
      /\ \A i \in 1 .. Len(all) : all[i] = sent[i] /\ all[i] \notin Undecodable
  BY DEF Good, Starts, all
<1>4. \A i \in 1 .. m : i \in 1 .. m + n BY <1>2
<1>5. \A i \in 1 .. m : s[i] = sent[i] /\ s[i] \notin Undecodable BY <1>1, <1>3, <1>4, Zenon
<1> QED BY <1>5 DEF Good, Starts, m

LEMMA GoodFurther ==
  ASSUME NEW d \in Seq(Text), NEW vals \in Seq(Text), Good(d), Follows(d, vals, sent),
         \A i \in 1 .. Len(vals) : vals[i] \notin Undecodable
  PROVE  Good(d \o vals)
<1> DEFINE all == d \o vals
           m == Len(d)
           n == Len(vals)
<1>1. Starts(all, sent) BY StartsFurther DEF Good
<1>2. Len(all) = m + n /\ \A i \in 1 .. m : all[i] = d[i] BY ConcatIs
<1>3. \A j \in 1 .. n : all[m + j] = vals[j] BY ConcatIs
<1>4. \A i \in 1 .. m + n : i \in 1 .. m \/ \E j \in 1 .. n : i = m + j BY ConcatIs
<1>5. \A i \in 1 .. m : d[i] \notin Undecodable BY DEF Good
<1> HIDE DEF all, m, n
<1>6. \A j \in 1 .. n : vals[j] \notin Undecodable BY DEF n
<1>7. \A i \in 1 .. m + n : all[i] \notin Undecodable BY <1>2, <1>3, <1>4, <1>5, <1>6, Zenon
<1> QED BY <1>1, <1>2, <1>7, Zenon DEF Good, all

\* What becomes of the stream when the values vals, the next of those sent, are decoded.
Takes(vals, end) ==
  /\ queue' \in Seq(Text)
  /\ Good(delivered')
  /\ \/ status' = end /\ delivered' = delivered \o vals
     \/ /\ status' = "failed"
        /\ Rejection(receiver, sent, consumed, delivered')
        /\ receiver = "fetch" => queue' = <<>>

LEMMA DecodedTakes ==
  ASSUME StreamInv, consumed' = consumed, NEW vals \in Seq(Text), NEW end,
         Follows(delivered, vals, sent), Decoded(vals, end)
  PROVE  Takes(vals, end)
<1>1. TypesOK /\ Good(delivered) BY DEF StreamInv
<1>2. consumed \in Seq(Text) /\ queue \in Seq(Text) BY <1>1 DEF TypesOK
<1>3. delivered = consumed \o queue /\ delivered' = consumed \o queue'
  BY DEF delivered
<1>4. sent \in Seq(Text) /\ delivered \in Seq(Text) BY <1>1, SentIsText
<1>5. Len(delivered) \in Nat /\ Len(sent) \in Nat /\ Len(vals) \in Nat /\ Len(consumed) \in Nat
      /\ Len(consumed) <= Len(delivered)
  <2>1. Len(delivered) = Len(consumed) + Len(queue) BY <1>2, <1>3, ConcatIs
  <2>2. Len(consumed) \in Nat /\ Len(queue) \in Nat BY <1>2
  <2> QED BY <2>1, <2>2, <1>4
<1>6. CASE /\ \A i \in 1 .. Len(vals) : vals[i] \notin Undecodable
           /\ status' = end /\ queue' = queue \o vals
  <2>1. queue' \in Seq(Text) BY <1>2, <1>6, ConcatProperties
  <2>2. delivered' = delivered \o vals
    <3>1. (consumed \o queue) \o vals = consumed \o (queue \o vals)
      BY <1>2, ConcatAssociative, SMTT(30)
    <3>2. consumed \o queue' = consumed \o (queue \o vals) BY <1>6, Zenon
    <3>3. delivered \o vals = (consumed \o queue) \o vals BY <1>3, Zenon
    <3> QED BY <3>1, <3>2, <3>3, <1>3, Zenon
  <2>3. Good(delivered \o vals) BY <1>1, <1>4, <1>6, GoodFurther
  <2> QED BY <2>1, <2>2, <2>3, <1>6, Zenon DEF Takes
<1>7. ASSUME NEW n \in Nat,
             n + 1 <= Len(vals) /\ vals[n + 1] \in Undecodable,
             \A i \in 1 .. n : vals[i] \notin Undecodable,
             status' = "failed",
             queue' = IF receiver = "fetch" THEN <<>> ELSE queue \o SubSeq(vals, 1, n)
      PROVE  Takes(vals, end)
  <2> DEFINE k == Len(delivered) + (n + 1)
             part == SubSeq(vals, 1, n)
  <2>1. n + 1 \in 1 .. Len(vals) /\ k \in Nat /\ k > Len(consumed) BY <1>5, <1>7
  <2>2. k \in 1 .. Len(sent) /\ sent[k] \in Undecodable
    <3>1. Len(delivered) + Len(vals) <= Len(sent)
          /\ \A i \in 1 .. Len(vals) : vals[i] = sent[Len(delivered) + i]
      BY DEF Follows
    <3> QED BY <3>1, <2>1, <1>5, <1>7
  <2>3. part \in Seq(Text) /\ Len(part) = n /\ \A i \in 1 .. n : part[i] = vals[i] BY <1>7
  <2>4. Follows(delivered, part, sent) /\ \A i \in 1 .. Len(part) : part[i] \notin Undecodable
    BY <2>3, <1>5, <1>7 DEF Follows
  <2>5. CASE receiver = "fetch"
    <3>1. queue' = <<>> BY <2>5, <1>7
    <3>2. delivered' = consumed BY <3>1, <1>2, <1>3, ConcatEmptySeq
    <3>3. Good(consumed) BY <1>1, <1>2, <1>3, GoodPart
    <3>4. Rejection(receiver, sent, consumed, delivered') BY <2>1, <2>2, <2>5 DEF Rejection
    <3>5. queue' \in Seq(Text) BY <3>1
    <3> QED BY <3>1, <3>2, <3>3, <3>4, <3>5, <1>7, Zenon DEF Takes
  <2>6. CASE receiver # "fetch"
    <3>1. queue' = queue \o part BY <2>6, <1>7
    <3> HIDE DEF part
    <3>2. queue' \in Seq(Text) BY <3>1, <2>3, <1>2, ConcatProperties
    <3>3. delivered' = delivered \o part
      <4>1. (consumed \o queue) \o part = consumed \o (queue \o part)
        BY <2>3, <1>2, ConcatAssociative, SMTT(30)
      <4>2. consumed \o queue' = consumed \o (queue \o part) BY <3>1, Zenon
      <4>3. delivered \o part = (consumed \o queue) \o part BY <1>3, Zenon
      <4> QED BY <4>1, <4>2, <4>3, <1>3, Zenon
    <3>4. Good(delivered \o part) BY <2>3, <2>4, <1>1, <1>4, GoodFurther
    <3>5. Len(delivered \o part) = Len(delivered) + n BY <2>3, <1>4, ConcatIs
    <3>6. Len(delivered') + 1 = k /\ Len(delivered') < Len(sent)
      BY <3>3, <3>5, <2>2, <1>5
    <3>7. Rejection(receiver, sent, consumed, delivered') BY <3>6, <2>2, Zenon DEF Rejection
    <3> QED BY <3>2, <3>3, <3>4, <3>7, <2>6, <1>7, Zenon DEF Takes
  <2> QED BY <2>5, <2>6
<1> QED BY <1>6, <1>7 DEF Decoded

LEMMA ReceiveKeeps ==
  ASSUME StreamInv, NEW n \in 1 .. Len(wire), Receive(n)
  PROVE  StreamInv'
<1> DEFINE chunk == SubSeq(wire, 1, n)
           bytes == SubSeq(wire, n + 1, Len(wire))
<1>1. TypesOK /\ Good(delivered) /\ status = "open" /\ Flowing BY DEF StreamInv, Receive
<1>2. sent \in Seq(Text) /\ delivered \in Seq(Text) BY <1>1, SentIsText
<1>3. wire \in Seq(Unit) BY <1>1 DEF TypesOK
<1>4. chunk \in Seq(Unit) /\ bytes \in Seq(Unit) /\ chunk # <<>> /\ wire = chunk \o bytes
  <2>1. Len(wire) \in Nat /\ n \in Nat BY <1>3
  <2>2. chunk \in Seq(Unit) /\ Len(chunk) = n /\ bytes \in Seq(Unit) BY <2>1, <1>3
  <2>3. chunk # <<>> BY <2>2
  <2>4. wire = chunk \o bytes BY <2>1, <1>3
  <2> QED BY <2>2, <2>3, <2>4
<1>5. /\ wire' = bytes /\ carry' = Carry(chunk) /\ buffer' = Split(Units(chunk)).rest
      /\ firstChunk' = FALSE
      /\ DecodeAll(Split(Units(chunk)).frames, "open")
      /\ UNCHANGED <<sender, receiver, sent, ended, lost, consumed>>
  BY DEF Receive
<1> HIDE DEF chunk, bytes
<1>6. FlowOf(sender, receiver, sent, delivered, buffer, carry \o (chunk \o bytes))
  BY <1>1, <1>4, Zenon DEF Flowing
<1>7. TakesIn(chunk, bytes) BY <1>1, <1>2, <1>4, <1>6, FlowReceives DEF TypesOK
<1>8. buffer' \in Seq(Inline) BY <1>5, <1>7 DEF TakesIn
<1>9. PICK vals \in Seq(Text) :
        /\ Split(Units(chunk)).frames = FramesOf(receiver, vals)
        /\ Follows(delivered, vals, sent)
        /\ FlowOf(sender, receiver, sent, delivered \o vals, Split(Units(chunk)).rest,
                  Carry(chunk) \o bytes)
  BY <1>7, Zenon DEF TakesIn
<1>10. Decoded(vals, "open")
  <2>1. DecodeAll(FramesOf(receiver, vals), "open") BY <1>5, <1>9, Zenon
  <2>2. queue \in Seq(Text) BY <1>1 DEF TypesOK
  <2> QED BY <2>1, <2>2, DecodesAll
<1>11. Takes(vals, "open") BY <1>5, <1>9, <1>10, DecodedTakes
<1>12. sent # <<>>
  <2>1. wire # <<>> BY <1>3
  <2> QED BY <2>1, <1>1 DEF TypesOK
<1>13. TypesOK'
  <2>1. carry' \in {<<>>, <<"hi">>} /\ (receiver # "http4s" => carry' = <<>>)
    BY <1>5 DEF Carry
  <2>2. status' \in {"open", "closed", "failed"} /\ queue' \in Seq(Text)
    BY <1>11, Zenon DEF Takes
  <2> QED BY <2>1, <2>2, <1>1, <1>4, <1>5, <1>8, <1>12 DEF TypesOK
<1>14. Good(delivered)' BY <1>5, <1>11 DEF Takes, Good
<1>15. (status = "open" => Flowing)'
  <2>1. SUFFICES ASSUME status' = "open" PROVE Flowing' OBVIOUS
  <2>2. delivered' = delivered \o vals BY <2>1, <1>11 DEF Takes
  <2>3. ~lost BY <1>1 DEF Flowing
  <2> QED BY <2>2, <2>3, <1>5, <1>9, <1>12, Zenon DEF Flowing
<1>16. status' # "closed" BY <1>11 DEF Takes
<1>17. (status = "failed" => Excused /\ (receiver = "fetch" => queue = <<>>))'
  <2>1. SUFFICES ASSUME status' = "failed"
                 PROVE  Excused' /\ (receiver = "fetch" => queue' = <<>>)
    BY <1>5
  <2>2. Rejection(receiver, sent, consumed, delivered') /\ (receiver = "fetch" => queue' = <<>>)
    BY <2>1, <1>11 DEF Takes
  <2> QED BY <2>2, <1>5, Zenon DEF Excused
<1> QED BY <1>13, <1>14, <1>15, <1>16, <1>17 DEF StreamInv

\* What is left at the end: the frame of the last value if it was not delivered, or, of a
\* sender that ends every frame, an empty frame.
LEMMA LastFrames ==
  ASSUME StreamInv, status = "open", wire = <<>>
  PROVE  \/ LastFrame = <<<<>>>> /\ sender = "afterEach" /\ receiver # "pekko"
         \/ \E vals \in Seq(Text) :
              /\ LastFrame = FramesOf(receiver, vals)
              /\ Follows(delivered, vals, sent)
              /\ delivered \o vals = sent
<1>1. TypesOK /\ Good(delivered) /\ Flowing BY DEF StreamInv
<1>2. sent \in Seq(Text) /\ delivered \in Seq(Text) BY <1>1, SentIsText
<1>3. delivered = Complete(sender, sent) /\ buffer = Pending(sender, receiver, sent)
  <2>1. FlowOf(sender, receiver, sent, delivered, buffer, carry \o <<>>)
    BY <1>1, Zenon DEF Flowing
  <2> QED BY <2>1, <1>1, <1>2, FlowEnds DEF TypesOK, Good
<1>4. ASSUME LastFrame = <<>>, delivered = sent
      PROVE  \E vals \in Seq(Text) :
               /\ LastFrame = FramesOf(receiver, vals)
               /\ Follows(delivered, vals, sent)
               /\ delivered \o vals = sent
  <2>1. FramesOf(receiver, <<>>) = <<>> BY DEF FramesOf
  <2>2. sent \o <<>> = sent BY <1>2, ConcatEmptySeq
  <2>3. Follows(sent, <<>>, sent) BY <1>2 DEF Follows
  <2>4. <<>> \in Seq(Text) OBVIOUS
  <2> QED BY <2>1, <2>2, <2>3, <2>4, <1>4, Zenon
<1>5. ASSUME LastFrame = <<buffer>>, sender # "afterEach", sent # <<>>
      PROVE  \E vals \in Seq(Text) :
               /\ LastFrame = FramesOf(receiver, vals)
               /\ Follows(delivered, vals, sent)
               /\ delivered \o vals = sent
  <2> DEFINE l == Last(sent)
             front == Front(sent)
  <2>1. front \in Seq(Text) /\ l \in Text /\ sent = Append(front, l)
        /\ Len(front) = Len(sent) - 1
    BY <1>2, <1>5, FrontLast
  <2>2. buffer = FrameOf(receiver, l) BY <1>3, <1>5 DEF Pending
  <2>3. delivered = front BY <1>3, <1>5 DEF Complete
  <2> HIDE DEF l, front
  <2>4. FramesOf(receiver, <<l>>) = <<FrameOf(receiver, l)>>
    <3>1. DOMAIN <<l>> = {1} /\ <<l>>[1] = l OBVIOUS
    <3> QED BY <3>1 DEF FramesOf
  <2>5. front \o <<l>> = sent BY <2>1
  <2>6. Follows(front, <<l>>, sent)
    <3>1. Len(sent) = Len(front) + 1 /\ sent[Len(front) + 1] = l BY <2>1, <1>2
    <3> QED BY <3>1, <2>1, <1>2 DEF Follows
  <2>7. <<l>> \in Seq(Text) BY <2>1
  <2>8. LastFrame = FramesOf(receiver, <<l>>) BY <2>2, <2>4, <1>5, Zenon
  <2> QED BY <2>3, <2>5, <2>6, <2>7, <2>8, Zenon
<1>6. sender # "afterEach" /\ sent # <<>> => buffer # <<>>
  <2>1. HAVE sender # "afterEach" /\ sent # <<>>
  <2>2. Last(sent) \in Text BY <2>1, <1>2, FrontLast
  <2>3. buffer = FrameOf(receiver, Last(sent)) BY <2>1, <1>3 DEF Pending
  <2> QED BY <2>2, <2>3, FrameOfText
<1>7. sender = "afterEach" \/ sent = <<>> => delivered = sent /\ buffer = <<>>
  BY <1>3 DEF Complete, Pending
<1>8. CASE receiver = "pekko" BY <1>4, <1>5, <1>6, <1>7, <1>8, Zenon DEF LastFrame
<1>9. CASE receiver # "pekko" /\ firstChunk
  <2>1. buffer = <<>> BY <1>1, <1>9 DEF Flowing
  <2>2. LastFrame = <<>> BY <1>9 DEF LastFrame
  <2> QED BY <2>1, <2>2, <1>4, <1>6, <1>7, Zenon
<1>10. CASE receiver # "pekko" /\ ~firstChunk
  <2>1. LastFrame = <<buffer>> BY <1>10 DEF LastFrame
  <2>2. sent # <<>> BY <1>1, <1>10 DEF Flowing
  <2> QED BY <2>1, <2>2, <1>5, <1>7, <1>10, Zenon
<1> QED BY <1>8, <1>9, <1>10

\* An empty frame is not a value: the stream fails.
LEMMA EmptyFrameFails ==
  ASSUME NEW end, DecodeAll(<<<<>>>>, end), queue \in Seq(Text)
  PROVE  status' = "failed" /\ queue' = IF receiver = "fetch" THEN <<>> ELSE queue
<1> DEFINE frames == <<<<>>>>
           texts == [i \in DOMAIN frames |-> TextOf(frames[i])]
           bad == {i \in DOMAIN texts : ~Decodes(texts[i])}
           least == CHOOSE i \in bad : \A j \in bad : i <= j
           good == IF bad = {} THEN texts ELSE SubSeq(texts, 1, least - 1)
<1>1. /\ status' = IF bad = {} THEN end ELSE "failed"
      /\ queue'  = IF bad # {} /\ receiver = "fetch" THEN <<>> ELSE queue \o good
  BY DEF DecodeAll
<1>2. TextOf(<<>>) = <<>>
  <2>1. <<>> \in Seq(Char) OBVIOUS
  <2> QED BY <2>1, DecodeEncode, EncodeEmpty, Zenon DEF TextOf
<1>3. DOMAIN frames = {1} /\ frames[1] = <<>> OBVIOUS
<1> HIDE DEF frames
<1>4. texts = [i \in {1} |-> <<>>] BY <1>2, <1>3
<1>5. bad = {1} BY <1>4 DEF Decodes
<1> HIDE DEF texts, bad
<1>6. least = 1 BY <1>5
<1>7. good = <<>>
  <2>1. good = SubSeq(texts, 1, 0) BY <1>5, <1>6
  <2>2. texts \in Seq({<<>>})
    <3>1. 1 .. 1 = {1} OBVIOUS
    <3>2. [i \in 1 .. 1 |-> <<>>] \in Seq({<<>>}) OBVIOUS
    <3> QED BY <3>1, <3>2, <1>4, Zenon
  <2>3. SubSeq(texts, 1, 0) \in Seq({<<>>}) /\ Len(SubSeq(texts, 1, 0)) = 0 BY <2>2
  <2> QED BY <2>1, <2>3, EmptySeq
<1>8. queue \o <<>> = queue BY ConcatEmptySeq
<1> QED BY <1>1, <1>5, <1>7, <1>8

LEMMA FinishKeeps ==
  ASSUME StreamInv, Finish
  PROVE  StreamInv'
<1>1. TypesOK /\ Good(delivered) /\ status = "open" /\ wire = <<>> /\ ended = TRUE
      /\ DecodeAll(LastFrame, "closed")
      /\ UNCHANGED <<sender, receiver, sent, ended, wire, lost, carry, buffer, firstChunk,
                     consumed>>
  BY DEF StreamInv, Finish, TypesOK
<1>2. sent \in Seq(Text) /\ delivered \in Seq(Text) /\ queue \in Seq(Text)
  BY <1>1, SentIsText DEF TypesOK
<1>3. CASE LastFrame = <<<<>>>> /\ sender = "afterEach" /\ receiver # "pekko"
  <2>1. status' = "failed" /\ queue' = IF receiver = "fetch" THEN <<>> ELSE queue
    BY <1>1, <1>2, <1>3, EmptyFrameFails
  <2>2. Good(delivered')
    <3>1. CASE receiver = "fetch"
      <4>1. delivered' = consumed BY <3>1, <2>1, <1>1, ConcatEmptySeq DEF delivered, TypesOK
      <4> QED BY <4>1, <1>1, GoodPart DEF delivered, TypesOK
    <3>2. CASE receiver # "fetch" BY <3>2, <2>1, <1>1 DEF delivered
    <3> QED BY <3>1, <3>2
  <2>3. TypesOK' BY <2>1, <1>1 DEF TypesOK
  <2>4. Good(delivered)' BY <2>2, <1>1 DEF Good
  <2>5. Excused' /\ (receiver' = "fetch" => queue' = <<>>) BY <2>1, <1>1, <1>3 DEF Excused
  <2>6. status' # "open" /\ status' # "closed" BY <2>1
  <2> QED BY <2>3, <2>4, <2>5, <2>6, Zenon DEF StreamInv
<1>4. ASSUME NEW vals \in Seq(Text), LastFrame = FramesOf(receiver, vals),
             Follows(delivered, vals, sent), delivered \o vals = sent
      PROVE  StreamInv'
  <2>1. DecodeAll(FramesOf(receiver, vals), "closed") BY <1>1, <1>4, Zenon
  <2>2. Decoded(vals, "closed") BY <2>1, <1>2, DecodesAll
  <2>3. Takes(vals, "closed") BY <2>2, <1>1, <1>4, DecodedTakes
  <2>4. TypesOK'
    <3>1. status' \in {"open", "closed", "failed"} /\ queue' \in Seq(Text)
      BY <2>3, Zenon DEF Takes
    <3> QED BY <3>1, <1>1 DEF TypesOK
  <2>5. Good(delivered)' BY <2>3, <1>1 DEF Takes, Good
  <2>6. status' # "open" BY <2>3 DEF Takes
  <2>7. (status = "closed" => ended /\ delivered = sent)'
    BY <2>3, <1>1, <1>4 DEF Takes
  <2>8. (status = "failed" => Excused /\ (receiver = "fetch" => queue = <<>>))'
    BY <2>3, <1>1, Zenon DEF Takes, Excused
  <2> QED BY <2>4, <2>5, <2>6, <2>7, <2>8 DEF StreamInv
<1> QED BY <1>1, <1>3, <1>4, LastFrames

LEMMA LoseKeeps ==
  ASSUME StreamInv, Lose
  PROVE  StreamInv'
<1>1. TypesOK /\ Good(delivered) BY DEF StreamInv
<1>2. PICK kept \in 0 .. Len(queue) :
        /\ lost' = TRUE /\ wire' = <<>> /\ status' = "failed"
        /\ receiver = "fetch" => kept = 0
        /\ queue' = SubSeq(queue, 1, kept)
        /\ UNCHANGED <<sender, receiver, sent, ended, carry, buffer, firstChunk, consumed>>
  BY DEF Lose
<1>3. consumed \in Seq(Text) /\ queue \in Seq(Text) BY <1>1 DEF TypesOK
<1>4. <<>> \in Seq(Unit) OBVIOUS
<1>5. PICK a, b \in Seq(Text) : queue' = a /\ queue = a \o b
  <2>1. CutAt(Text, queue, kept) BY <1>3, CutInTwo
  <2> QED BY <2>1, <1>2, Zenon DEF CutAt
<1>6. Good(delivered')
  <2>1. PICK s \in Seq(Text) : s = consumed \o a BY <1>3, ConcatProperties, Zenon
  <2>2. delivered = s \o b BY <1>3, <1>5, <2>1, ConcatAssociative DEF delivered
  <2>3. delivered' = s BY <1>2, <1>5, <2>1 DEF delivered
  <2> QED BY <2>2, <2>3, <1>1, GoodPart
<1>7. Good(delivered)' BY <1>2, <1>6 DEF Good
<1>8. Excused' /\ (receiver' = "fetch" => queue' = <<>>) BY <1>2 DEF Excused
<1>9. TypesOK' BY <1>1, <1>2, <1>4, <1>5 DEF TypesOK
<1>10. status' # "open" /\ status' # "closed" BY <1>2
<1> QED BY <1>7, <1>8, <1>9, <1>10, Zenon DEF StreamInv

\* What was delivered is the same, only less of it waits.
LEMMA ConsumeSame ==
  ASSUME consumed \in Seq(Text), queue \in Seq(Text), Consume
  PROVE  /\ delivered' = delivered /\ consumed' \in Seq(Text) /\ queue' \in Seq(Text)
         /\ Len(consumed') = Len(consumed) + 1
<1> DEFINE h == Head(queue)
           t == Tail(queue)
<1>1. consumed' = Append(consumed, h) /\ queue' = t BY DEF Consume
<1>2. h \in Text /\ t \in Seq(Text) /\ queue = <<h>> \o t
  BY HeadTailProperties DEF Consume
<1> HIDE DEF h, t
<1>3. Append(consumed, h) = consumed \o <<h>> /\ <<h>> \in Seq(Text) BY <1>2
<1>4. (consumed \o <<h>>) \o t = consumed \o (<<h>> \o t)
  BY <1>2, <1>3, ConcatAssociative
<1>5. delivered' = delivered BY <1>1, <1>2, <1>3, <1>4, Zenon DEF delivered
<1> QED BY <1>1, <1>2, <1>5

LEMMA ConsumeKeeps ==
  ASSUME StreamInv, Consume
  PROVE  StreamInv'
<1>1. TypesOK /\ Good(delivered) BY DEF StreamInv
<1>2. consumed \in Seq(Text) /\ queue \in Seq(Text) BY <1>1 DEF TypesOK
<1>3. delivered' = delivered /\ consumed' \in Seq(Text) /\ queue' \in Seq(Text)
  BY <1>2, ConsumeSame
<1>4. queue # <<>>
      /\ UNCHANGED <<sender, receiver, sent, ended, wire, lost, carry, buffer, firstChunk,
                     status>>
  BY DEF Consume
<1>5. TypesOK' BY <1>1, <1>3, <1>4 DEF TypesOK
<1>6. Good(delivered)' BY <1>1, <1>3, <1>4 DEF Good
<1>7. (status = "open" => Flowing)' BY <1>3, <1>4, Zenon DEF StreamInv, Flowing
<1>8. (status = "closed" => ended /\ delivered = sent)' BY <1>3, <1>4 DEF StreamInv
<1>9. (status = "failed" => Excused /\ (receiver = "fetch" => queue = <<>>))'
  <2>1. SUFFICES ASSUME status = "failed"
                 PROVE  Excused' /\ (receiver' = "fetch" => queue' = <<>>)
    BY <1>4
  <2>2. Excused /\ receiver # "fetch" BY <2>1, <1>4 DEF StreamInv
  <2>3. Rejection(receiver, sent, consumed, delivered) =>
          Rejection(receiver, sent, consumed', delivered)
    BY <2>2 DEF Rejection
  <2> QED BY <2>2, <2>3, <1>3, <1>4, Zenon DEF Excused
<1> QED BY <1>5, <1>6, <1>7, <1>8, <1>9 DEF StreamInv

LEMMA StreamStays ==
  ASSUME StreamInv, UNCHANGED vars
  PROVE  StreamInv'
<1>1. UNCHANGED <<sender, receiver, sent, ended, wire, lost, carry, buffer, firstChunk,
                  queue, status, consumed>>
  BY DEF vars
<1>2. delivered' = delivered BY <1>1 DEF delivered
<1>3. TypesOK' BY <1>1 DEF StreamInv, TypesOK
<1>4. Good(delivered)' BY <1>1, <1>2 DEF StreamInv, Good
<1>5. (status = "open" => Flowing)' BY <1>1, <1>2, Zenon DEF StreamInv, Flowing
<1>6. (status = "closed" => ended /\ delivered = sent)' BY <1>1, <1>2 DEF StreamInv
<1>7. (status = "failed" => Excused /\ (receiver = "fetch" => queue = <<>>))'
  BY <1>1, <1>2, Zenon DEF StreamInv, Excused
<1> QED BY <1>3, <1>4, <1>5, <1>6, <1>7 DEF StreamInv

LEMMA StreamKeeps ==
  ASSUME StreamInv, FetchIsAscii, [Next]_vars
  PROVE  StreamInv'
<1>1. ASSUME NEW v \in Values[receiver], Send(v) PROVE StreamInv' BY <1>1, SendKeeps
<1>2. CASE End BY <1>2, EndKeeps
<1>3. CASE ReceiveSome BY <1>3, ReceiveKeeps, Zenon DEF ReceiveSome
<1>4. CASE Finish BY <1>4, FinishKeeps
<1>5. CASE Lose BY <1>5, LoseKeeps
<1>6. CASE Consume BY <1>6, ConsumeKeeps
<1>7. CASE UNCHANGED vars BY <1>7, StreamStays
<1> QED BY <1>1, <1>2, <1>3, <1>4, <1>5, <1>6, <1>7, Zenon DEF Next

\* The invariant holds of every behaviour.
LEMMA StreamInvHolds ==
  ASSUME FetchIsAscii
  PROVE  Spec => []StreamInv
<1>1. Init => StreamInv BY StreamStarts
<1>2. StreamInv /\ [Next]_vars => StreamInv' BY StreamKeeps
<1> QED BY <1>1, <1>2, PTL DEF Spec

(***************************************************************************)
(* However the transport cuts the bytes, wherever it fails and whenever    *)
(* the consumer takes its values, those that come out of                   *)
(* `newLineDelimiterFraming` are the first of those sent, each once and in *)
(* order. The fetch client has to be sent ASCII, for it decodes the bytes  *)
(* of each chunk on their own.                                             *)
(***************************************************************************)
THEOREM FramingKeepsValues ==
  ASSUME FetchIsAscii
  PROVE  Spec => []PrefixDelivered
<1>1. StreamInv => PrefixDelivered
  <2>1. HAVE StreamInv
  <2>2. sent \in Seq(Text) /\ delivered \in Seq(Text) BY <2>1, SentIsText DEF StreamInv
  <2>3. Starts(delivered, sent) BY <2>1 DEF StreamInv, Good
  <2> QED BY <2>2, <2>3, StartsIsPrefix DEF PrefixDelivered
<1> QED BY <1>1, StreamInvHolds, PTL

(***************************************************************************)
(* A stream that is open and has nothing under way has delivered every     *)
(* value, but for the last one of a sender that separates them: its        *)
(* new-line has still to come.                                             *)
(***************************************************************************)
THEOREM OnlyLastWaits ==
  ASSUME FetchIsAscii
  PROVE  Spec => []BoundedLag
<1>1. StreamInv => BoundedLag
  <2>1. SUFFICES ASSUME StreamInv, wire = <<>>, status = "open"
                 PROVE  Len(delivered) >= Len(sent) - (IF sender = "between" THEN 1 ELSE 0)
    BY DEF BoundedLag
  <2>2. TypesOK /\ Good(delivered) /\ Flowing BY <2>1 DEF StreamInv
  <2>3. sent \in Seq(Text) /\ delivered \in Seq(Text) BY <2>2, SentIsText
  <2>4. FlowOf(sender, receiver, sent, delivered, buffer, carry \o <<>>)
    BY <2>1, <2>2, Zenon DEF Flowing
  <2>5. delivered = Complete(sender, sent)
    BY <2>2, <2>3, <2>4, FlowEnds DEF TypesOK, Good
  <2>6. Len(sent) \in Nat /\ Len(delivered) \in Nat BY <2>3
  <2>7. CASE sender = "afterEach"
    <3>1. delivered = sent BY <2>5, <2>7 DEF Complete
    <3> QED BY <3>1, <2>6, <2>7
  <2>8. CASE sender = "between"
    <3>1. Len(sent) <= Len(delivered) + 1 BY <2>3, <2>5, <2>8, CompleteIs
    <3> QED BY <3>1, <2>6, <2>8
  <2> QED BY <2>2, <2>7, <2>8 DEF TypesOK, Senders
<1> QED BY <1>1, StreamInvHolds, PTL

(***************************************************************************)
(* Between interpreters that agree on what follows the last new-line, a    *)
(* stream fails only for a lost connection or a value that the codec       *)
(* rejects: nothing of framing, cutting or decoding fails by itself.       *)
(***************************************************************************)
THEOREM FailuresHaveReasons ==
  ASSUME FetchIsAscii, NoTrailingNewLine
  PROVE  Spec => []NoSpuriousFailure
<1>1. StreamInv => NoSpuriousFailure
  <2>1. SUFFICES ASSUME StreamInv, status = "failed", ~lost
                 PROVE  \E i \in DOMAIN sent : sent[i] \in Undecodable
    BY DEF NoSpuriousFailure
  <2>2. TypesOK /\ Excused BY <2>1 DEF StreamInv
  <2>3. sent \in Seq(Text) /\ delivered \in Seq(Text) BY <2>2, SentIsText
  <2>4. Rejection(receiver, sent, consumed, delivered)
    BY <2>1, <2>2 DEF Excused, TypesOK, NoTrailingNewLine
  <2>5. Len(sent) \in Nat /\ Len(delivered) \in Nat /\ DOMAIN sent = 1 .. Len(sent) BY <2>3
  <2> QED BY <2>4, <2>5 DEF Rejection
<1> QED BY <1>1, StreamInvHolds, PTL

(***************************************************************************)
(* A receiver that is not the fetch client fails right after the last      *)
(* value before the one that its codec rejects, however far its consumer   *)
(* is behind.                                                              *)
(***************************************************************************)
THEOREM FailureComesInOrder ==
  ASSUME FetchIsAscii, NoTrailingNewLine
  PROVE  Spec => []FailureKeepsValues
<1>1. StreamInv => FailureKeepsValues
  <2>1. SUFFICES ASSUME StreamInv, status = "failed", ~lost, receiver # "fetch"
                 PROVE  Len(delivered) < Len(sent) /\ sent[Len(delivered) + 1] \in Undecodable
    BY DEF FailureKeepsValues
  <2>2. TypesOK /\ Excused BY <2>1 DEF StreamInv
  <2>3. Rejection(receiver, sent, consumed, delivered)
    BY <2>1, <2>2 DEF Excused, TypesOK, NoTrailingNewLine
  <2> QED BY <2>1, <2>3 DEF Rejection
<1> QED BY <1>1, StreamInvHolds, PTL

(***************************************************************************)
(* The abstract stream.                                                    *)
(***************************************************************************)

\* What the consumer sees.
Seen == IF queue = <<>> THEN status ELSE "open"

RejectedAt(n) == n <= Len(sent) /\ sent[n] \in Undecodable

\* The consumer that has taken every value sees why the stream has ended.
EndsForAReason ==
  queue = <<>> =>
    /\ status = "closed" => ended /\ Len(consumed) = Len(sent)
    /\ status = "failed" =>
         \/ lost
         \/ RejectedAt(Len(consumed) + 1)
         \/ receiver = "fetch" /\ \E n \in Len(consumed) + 1 .. Len(sent) : RejectedAt(n)

LEMMA EndsHaveReasons ==
  ASSUME StreamInv, NoTrailingNewLine
  PROVE  EndsForAReason
<1>1. SUFFICES ASSUME queue = <<>>
               PROVE  /\ status = "closed" => ended /\ Len(consumed) = Len(sent)
                      /\ status = "failed" =>
                           \/ lost
                           \/ RejectedAt(Len(consumed) + 1)
                           \/ receiver = "fetch"
                              /\ \E n \in Len(consumed) + 1 .. Len(sent) : RejectedAt(n)
  BY Zenon DEF EndsForAReason
<1>2. TypesOK BY DEF StreamInv
<1>3. sent \in Seq(Text) /\ consumed \in Seq(Text) BY <1>2, SentIsText DEF TypesOK
<1>4. delivered = consumed BY <1>1, <1>3, ConcatEmptySeq DEF delivered
<1>5. status = "closed" => ended /\ Len(consumed) = Len(sent) BY <1>4 DEF StreamInv
<1>6. ASSUME status = "failed", ~lost
      PROVE  \/ RejectedAt(Len(consumed) + 1)
             \/ receiver = "fetch" /\ \E n \in Len(consumed) + 1 .. Len(sent) : RejectedAt(n)
  <2>1. Excused BY <1>6 DEF StreamInv
  <2>2. Rejection(receiver, sent, consumed, consumed)
    BY <2>1, <1>2, <1>4, <1>6 DEF Excused, TypesOK, NoTrailingNewLine
  <2>3. Len(sent) \in Nat /\ Len(consumed) \in Nat BY <1>3
  <2> QED BY <2>2, <2>3 DEF Rejection, RejectedAt
<1> QED BY <1>5, <1>6, Zenon

LEMMA SendRefines ==
  ASSUME StreamInv, NEW v \in Values[receiver], Send(v)
  PROVE  Abstract!SendValue
<1>1. v \in UNION Range(Values)
  <2>1. receiver \in DOMAIN Values BY FramedStreamAssumption DEF StreamInv, TypesOK
  <2> QED BY <2>1 DEF Range
<1>2. ~ended /\ sent' = Append(sent, v)
      /\ UNCHANGED <<receiver, ended, lost, queue, status, consumed>>
  BY DEF Send, receiving
<1> QED BY <1>1, <1>2 DEF Abstract!SendValue

LEMMA EndRefines ==
  ASSUME End
  PROVE  Abstract!EndValues
<1>1. ended' = TRUE /\ UNCHANGED <<receiver, sent, lost, queue, status, consumed>>
  BY DEF End, receiving
<1> QED BY <1>1 DEF Abstract!EndValues

LEMMA LoseRefines ==
  ASSUME Lose
  PROVE  Abstract!LoseConnection
<1>1. /\ lost' = TRUE /\ status = "open" /\ status' = "failed"
      /\ UNCHANGED <<receiver, sent, ended, consumed>>
  BY DEF Lose
<1>2. Seen = "open" /\ Seen' \in {"open", "failed"} BY <1>1 DEF Seen
<1> QED BY <1>1, <1>2 DEF Abstract!LoseConnection, Seen

\* Only the end of the stream is seen of a receiver that decodes: to receive, to finish.
LEMMA DecodeRefines ==
  ASSUME StreamInv, EndsForAReason', status = "open", ~lost,
         status' \in {"open", "closed", "failed"},
         UNCHANGED <<receiver, sent, ended, lost, consumed>>
  PROVE  [Abstract!SNext]_(Abstract!streamVars)
<1>1. Seen = "open" BY DEF Seen
<1>2. CASE Seen' = "open" BY <1>1, <1>2 DEF Abstract!streamVars, Seen
<1>3. CASE Seen' = "closed"
  <2>1. queue' = <<>> /\ status' = "closed" BY <1>3 DEF Seen
  <2>2. ended /\ Len(consumed) = Len(sent) BY <2>1 DEF EndsForAReason
  <2>3. Abstract!Close BY <1>1, <1>3, <2>2 DEF Abstract!Close, Seen
  <2> QED BY <2>3 DEF Abstract!SNext
<1>4. CASE Seen' = "failed"
  <2>1. queue' = <<>> /\ status' = "failed" BY <1>4 DEF Seen
  <2>2. \/ RejectedAt(Len(consumed) + 1)
        \/ receiver = "fetch" /\ \E n \in Len(consumed) + 1 .. Len(sent) : RejectedAt(n)
    BY <2>1 DEF EndsForAReason, RejectedAt
  <2>3. Abstract!Fail
    BY <1>1, <1>4, <2>2 DEF Abstract!Fail, Abstract!Rejected, RejectedAt, Seen
  <2> QED BY <2>3 DEF Abstract!SNext
<1> QED BY <1>2, <1>3, <1>4 DEF Seen

LEMMA ConsumeRefines ==
  ASSUME StreamInv, StreamInv', EndsForAReason', Consume
  PROVE  Abstract!Deliver
<1> DEFINE n == Len(consumed)
<1>1. TypesOK /\ Good(delivered) BY DEF StreamInv
<1>2. consumed \in Seq(Text) /\ queue \in Seq(Text) /\ sent \in Seq(Text)
  BY <1>1, SentIsText DEF TypesOK
<1>3. Len(consumed') = n + 1 BY <1>2, ConsumeSame
<1>4. /\ queue # <<>> /\ consumed' = Append(consumed, Head(queue))
      /\ UNCHANGED <<receiver, sent, ended, lost, status>>
  BY DEF Consume
<1>5. n < Len(sent) /\ Head(queue) = sent[n + 1] /\ sent[n + 1] \notin Undecodable
  <2>1. Len(queue) \in Nat \ {0} /\ n \in Nat BY <1>2, <1>4, EmptySeq
  <2>2. Len(delivered) = n + Len(queue) /\ delivered[n + 1] = queue[1]
    <3>1. 1 \in 1 .. Len(queue) BY <2>1
    <3> QED BY <3>1, <1>2, ConcatIs DEF delivered
  <2>3. n + 1 \in 1 .. Len(delivered) BY <2>1, <2>2
  <2>4. Len(delivered) <= Len(sent) /\ delivered[n + 1] = sent[n + 1]
        /\ delivered[n + 1] \notin Undecodable
    BY <2>3, <1>1 DEF Good, Starts
  <2>5. Head(queue) = queue[1] BY <1>2, <1>4
  <2>6. n < Len(sent)
    <3>1. Len(sent) \in Nat BY <1>2
    <3>2. n + Len(queue) <= Len(sent) BY <2>2, <2>4, Zenon
    <3> HIDE DEF n
    <3> QED BY <3>1, <3>2, <2>1
  <2> QED BY <2>2, <2>4, <2>5, <2>6, Zenon
<1>6. Seen = "open" BY <1>4 DEF Seen
<1>7. Seen' = IF queue' = <<>> THEN status ELSE "open" BY <1>4 DEF Seen
<1>8. status \in {"open", "closed", "failed"} BY <1>1 DEF TypesOK
<1>9. Seen' = "closed" => ended /\ Len(consumed') = Len(sent)
  BY <1>4, <1>7 DEF EndsForAReason
<1>10. Seen' = "failed" => lost \/ RejectedAt(Len(consumed') + 1)
  <2>1. SUFFICES ASSUME Seen' = "failed" PROVE lost \/ RejectedAt(Len(consumed') + 1)
    OBVIOUS
  <2>2. queue' = <<>> /\ status = "failed" BY <2>1, <1>7
  <2>3. receiver # "fetch" BY <2>2, <1>4 DEF StreamInv
  <2> QED BY <2>2, <2>3, <1>4 DEF EndsForAReason, RejectedAt
<1>11. Seen' \in {"open", "closed", "failed"} BY <1>7, <1>8
<1> QED BY <1>3, <1>4, <1>5, <1>6, <1>9, <1>10, <1>11
        DEF Abstract!Deliver, Abstract!Rejected, RejectedAt, Seen

LEMMA NextRefines ==
  ASSUME StreamInv, StreamInv', EndsForAReason', [Next]_vars
  PROVE  [Abstract!SNext]_(Abstract!streamVars)
<1>1. TypesOK /\ status' \in {"open", "closed", "failed"} BY DEF StreamInv, TypesOK
<1>2. status = "open" => ~lost BY DEF StreamInv, Flowing
<1>3. ASSUME NEW v \in Values[receiver], Send(v) PROVE Abstract!SNext
  BY <1>3, SendRefines, Zenon DEF Abstract!SNext
<1>4. CASE End BY <1>4, EndRefines, Zenon DEF Abstract!SNext
<1>5. CASE ReceiveSome
  <2>1. status = "open" /\ UNCHANGED <<receiver, sent, ended, lost, consumed>>
    BY <1>5 DEF ReceiveSome, Receive
  <2> QED BY <2>1, <1>1, <1>2, DecodeRefines
<1>6. CASE Finish
  <2>1. status = "open" /\ UNCHANGED <<receiver, sent, ended, lost, consumed>>
    BY <1>6 DEF Finish
  <2> QED BY <2>1, <1>1, <1>2, DecodeRefines
<1>7. CASE Lose BY <1>7, LoseRefines, Zenon DEF Abstract!SNext
<1>8. CASE Consume BY <1>8, ConsumeRefines, Zenon DEF Abstract!SNext
<1>9. CASE UNCHANGED vars
  <2>1. UNCHANGED <<receiver, sent, ended, lost, queue, status, consumed>> BY <1>9 DEF vars
  <2> QED BY <2>1 DEF Abstract!streamVars
<1> QED BY <1>3, <1>4, <1>5, <1>6, <1>7, <1>8, <1>9, Zenon DEF Next

(***************************************************************************)
(* Framing, cutting, decoding and queueing included, an entity is the      *)
(* abstract stream of the values sent: its consumer gets them one by one,  *)
(* sees the end only after the last, and a failure only for a reason, and  *)
(* in its place unless the receiver is the fetch client.                   *)
(***************************************************************************)
THEOREM StreamsOfValues ==
  ASSUME FetchIsAscii, NoTrailingNewLine
  PROVE  Spec => ImplementsChunkStream
<1>1. Init => Abstract!SInit
  <2>1. HAVE Init
  <2>2. Seen = "open" BY <2>1 DEF Init, Seen
  <2> QED BY <2>1, <2>2 DEF Init, Abstract!SInit, Seen
<1>2. StreamInv => EndsForAReason BY EndsHaveReasons
<1>3. StreamInv /\ StreamInv' /\ EndsForAReason' /\ [Next]_vars =>
        [Abstract!SNext]_(Abstract!streamVars)
  BY NextRefines
<1>4. Spec => []StreamInv BY StreamInvHolds
<1> QED BY <1>1, <1>2, <1>3, <1>4, PTL DEF Spec, ImplementsChunkStream, Abstract!SSpec
=============================================================================
