------------------------------ MODULE UrlProofs ------------------------------
(***************************************************************************)
(* Proofs about the path and the query string of a URL (UrlExchange): for  *)
(* any description of a URL, any value, and texts of any length.           *)
(***************************************************************************)
EXTENDS UrlExchange, FoldingProofs

(***************************************************************************)
(* Characters.                                                             *)
(***************************************************************************)
Wire == Characters \cup Escapes

LEMMA CharactersAre ==
  /\ Text = Seq(Characters) /\ OnWire = Seq(Wire)
  /\ Characters \subseteq Wire /\ Text \subseteq OnWire
<1>1. Text = Seq(Characters) /\ OnWire = Seq(Wire)
  BY DEF Text, OnWire, Wire
<1>2. Characters \subseteq Wire
  BY DEF Wire
<1> QED BY <1>1, <1>2, SeqMonotonic

LEMMA Decodes ==
  /\ \A c \in Wire : Unescape(c) \in Characters /\ FormDecode(c) \in Characters
  /\ \A c \in Wire : Unescape(c) = FormDecode(c) <=> c # "+"
  /\ \A c \in Characters : FormEncode(c) \in Wire /\ FormDecode(FormEncode(c)) = c
  BY DEF Wire, Characters, Escapes, Unescape, FormDecode, FormEncode

LEMMA SegmentChars ==
  ASSUME NEW client, NEW c \in Characters
  PROVE  /\ SegmentChar(client, c) \in Wire
         /\ Unescape(SegmentChar(client, c)) = c
         /\ FormDecode(SegmentChar(client, c)) = c <=> client = "fetch" \/ c # "+"
  BY DEF Wire, Characters, Escapes, SegmentChar, Unescape, FormDecode

LEMMA QueryChars ==
  ASSUME NEW client, NEW c \in Characters
  PROVE  QueryChar(client, c) \in Wire /\ FormDecode(QueryChar(client, c)) = c
  BY DEF Wire, Characters, Escapes, QueryChar, Unescape, FormDecode

(***************************************************************************)
(* Texts, which are decoded character by character.                        *)
(***************************************************************************)
LEMMA DecodedText ==
  ASSUME NEW t \in OnWire
  PROVE  /\ FormDecoded(t) \in Text /\ Unescaped(t) \in Text
         /\ FormDecoded(t) = <<>> <=> t = <<>>
         /\ Unescaped(t) = <<>> <=> t = <<>>
         /\ Unescaped(t) = FormDecoded(t) <=> ~Contains(t, "+")
<1>1. t \in Seq(Wire) /\ Text = Seq(Characters)
  BY CharactersAre
<1>2. DOMAIN t = 1 .. Len(t) /\ Len(t) \in Nat /\ \A i \in 1 .. Len(t) : t[i] \in Wire
  BY <1>1
<1>3. /\ [i \in 1 .. Len(t) |-> FormDecode(t[i])] \in Seq(Characters)
      /\ [i \in 1 .. Len(t) |-> Unescape(t[i])] \in Seq(Characters)
  BY <1>2, Decodes
<1>4. /\ FormDecoded(t) = [i \in 1 .. Len(t) |-> FormDecode(t[i])]
      /\ Unescaped(t) = [i \in 1 .. Len(t) |-> Unescape(t[i])]
  BY <1>2 DEF FormDecoded, Unescaped
<1>5. /\ [i \in 1 .. Len(t) |-> FormDecode(t[i])] = <<>> <=> t = <<>>
      /\ [i \in 1 .. Len(t) |-> Unescape(t[i])] = <<>> <=> t = <<>>
  BY <1>1, <1>2
<1>6. [i \in 1 .. Len(t) |-> Unescape(t[i])] = [i \in 1 .. Len(t) |-> FormDecode(t[i])]
        <=> \A i \in 1 .. Len(t) : t[i] # "+"
  BY <1>2, Decodes
<1> QED BY <1>1, <1>3, <1>4, <1>5, <1>6 DEF Contains

LEMMA EncodedText ==
  ASSUME NEW t \in Text
  PROVE  /\ FormEncoded(t) \in OnWire
         /\ FormDecoded(FormEncoded(t)) = t
<1>1. t \in Seq(Characters) /\ OnWire = Seq(Wire)
  BY CharactersAre
<1>2. /\ DOMAIN t = 1 .. Len(t) /\ Len(t) \in Nat /\ t = [i \in 1 .. Len(t) |-> t[i]]
      /\ \A i \in 1 .. Len(t) : t[i] \in Characters
  BY <1>1
<1> DEFINE u == [i \in 1 .. Len(t) |-> FormEncode(t[i])]
<1>3. u \in Seq(Wire) /\ DOMAIN u = 1 .. Len(t)
  BY <1>2, Decodes
<1>4. [i \in 1 .. Len(t) |-> FormDecode(u[i])] = t
  BY <1>2, Decodes
<1> QED BY <1>1, <1>2, <1>3, <1>4 DEF FormDecoded, FormEncoded

LEMMA SegmentText ==
  ASSUME NEW client, NEW t \in Text
  PROVE  /\ InSegment(client, t) \in OnWire
         /\ InSegment(client, t) = <<>> <=> t = <<>>
         /\ Unescaped(InSegment(client, t)) = t
         /\ FormDecoded(InSegment(client, t)) = t <=> client = "fetch" \/ ~Contains(t, "+")
<1> DEFINE u == InSegment(client, t)
<1>1. t \in Seq(Characters) /\ OnWire = Seq(Wire)
  BY CharactersAre
<1>2. /\ DOMAIN t = 1 .. Len(t) /\ Len(t) \in Nat /\ t = [i \in 1 .. Len(t) |-> t[i]]
      /\ \A i \in 1 .. Len(t) : t[i] \in Characters
  BY <1>1
<1>3. u = [i \in 1 .. Len(t) |-> SegmentChar(client, t[i])]
  BY <1>2 DEF InSegment
<1> HIDE DEF u
<1>4. \A i \in 1 .. Len(t) :
        /\ SegmentChar(client, t[i]) \in Wire
        /\ Unescape(SegmentChar(client, t[i])) = t[i]
        /\ FormDecode(SegmentChar(client, t[i])) = t[i] <=> client = "fetch" \/ t[i] # "+"
  BY <1>2, SegmentChars
<1>5. /\ u \in Seq(Wire) /\ DOMAIN u = 1 .. Len(t) /\ Len(u) = Len(t)
      /\ \A i \in 1 .. Len(t) : u[i] = SegmentChar(client, t[i])
  <2> DEFINE v == [i \in 1 .. Len(t) |-> SegmentChar(client, t[i])]
  <2>1. v \in Seq(Wire)
    BY <1>2, <1>4
  <2>2. DOMAIN v = 1 .. Len(t) /\ \A i \in 1 .. Len(t) : v[i] = SegmentChar(client, t[i])
    OBVIOUS
  <2>3. u = v
    BY <1>3
  <2> HIDE DEF v
  <2>4. Len(v) = Len(t)
    BY <1>2, <2>1, <2>2
  <2> QED BY <2>1, <2>2, <2>3, <2>4
<1>6. [i \in 1 .. Len(t) |-> Unescape(u[i])] = t
  BY <1>2, <1>4, <1>5
<1>7. [i \in 1 .. Len(t) |-> FormDecode(u[i])] = t
        <=> \A i \in 1 .. Len(t) : client = "fetch" \/ t[i] # "+"
  BY <1>2, <1>4, <1>5
<1>8. u = <<>> <=> t = <<>>
  BY <1>1, <1>5
<1> QED BY <1>1, <1>5, <1>6, <1>7, <1>8 DEF u, Unescaped, FormDecoded, Contains

LEMMA RemainingChars ==
  ASSUME NEW client, NEW c \in Wire
  PROVE  /\ RemainingChar(client, c) \in Wire
         /\ Unescape(RemainingChar(client, c)) = Unescape(c)
         /\ FormDecode(RemainingChar(client, c)) = FormDecode(c)
              <=> ~(client \in {"pekko", "sttp"} /\ c = "%2B")
  BY DEF Wire, Characters, Escapes, RemainingChar, Unescape, FormDecode

LEMMA RemainingText ==
  ASSUME NEW client, NEW t \in OnWire, NEW u, u = InRemaining(client, t)
  PROVE  /\ u \in OnWire
         /\ u = <<>> <=> t = <<>>
         /\ Unescaped(u) = Unescaped(t)
         /\ FormDecoded(u) = FormDecoded(t)
              <=> ~(client \in {"pekko", "sttp"} /\ Contains(t, "%2B"))
<1>1. t \in Seq(Wire) /\ OnWire = Seq(Wire)
  BY CharactersAre
<1>2. DOMAIN t = 1 .. Len(t) /\ Len(t) \in Nat /\ \A i \in 1 .. Len(t) : t[i] \in Wire
  BY <1>1
<1>3. \A i \in 1 .. Len(t) :
        /\ RemainingChar(client, t[i]) \in Wire
        /\ Unescape(RemainingChar(client, t[i])) = Unescape(t[i])
        /\ FormDecode(RemainingChar(client, t[i])) = FormDecode(t[i])
             <=> ~(client \in {"pekko", "sttp"} /\ t[i] = "%2B")
  BY <1>2, RemainingChars
<1>4. u = [i \in 1 .. Len(t) |-> RemainingChar(client, t[i])]
  BY <1>2 DEF InRemaining
<1>5. u \in Seq(Wire) /\ DOMAIN u = 1 .. Len(t) /\ Len(u) = Len(t)
  <2>1. [i \in 1 .. Len(t) |-> RemainingChar(client, t[i])] \in Seq(Wire)
    BY <1>2, <1>3
  <2> QED BY <1>2, <1>4, <2>1
<1>6. u = <<>> <=> t = <<>>
  BY <1>1, <1>5
<1>7. /\ Unescaped(u) = [i \in 1 .. Len(t) |-> Unescape(u[i])]
      /\ Unescaped(t) = [i \in 1 .. Len(t) |-> Unescape(t[i])]
      /\ FormDecoded(u) = [i \in 1 .. Len(t) |-> FormDecode(u[i])]
      /\ FormDecoded(t) = [i \in 1 .. Len(t) |-> FormDecode(t[i])]
  BY <1>2, <1>5 DEF Unescaped, FormDecoded
<1>8. \A i \in 1 .. Len(t) :
        /\ Unescape(u[i]) = Unescape(t[i])
        /\ FormDecode(u[i]) = FormDecode(t[i]) <=> ~(client \in {"pekko", "sttp"} /\ t[i] = "%2B")
  BY <1>3, <1>4
<1>9. Unescaped(u) = Unescaped(t)
  BY <1>7, <1>8
<1>10. FormDecoded(u) = FormDecoded(t) <=> \A i \in 1 .. Len(t) : FormDecode(u[i]) = FormDecode(t[i])
  BY <1>7
<1> QED BY <1>1, <1>2, <1>5, <1>6, <1>8, <1>9, <1>10 DEF Contains

LEMMA QueryText ==
  ASSUME NEW client, NEW t \in Text
  PROVE  InQuery(client, t) \in OnWire /\ FormDecoded(InQuery(client, t)) = t
<1> DEFINE u == InQuery(client, t)
<1>1. t \in Seq(Characters) /\ OnWire = Seq(Wire)
  BY CharactersAre
<1>2. /\ DOMAIN t = 1 .. Len(t) /\ Len(t) \in Nat /\ t = [i \in 1 .. Len(t) |-> t[i]]
      /\ \A i \in 1 .. Len(t) : t[i] \in Characters
  BY <1>1
<1>3. u = [i \in 1 .. Len(t) |-> QueryChar(client, t[i])]
  BY <1>2 DEF InQuery
<1> HIDE DEF u
<1>4. \A i \in 1 .. Len(t) :
        /\ QueryChar(client, t[i]) \in Wire
        /\ FormDecode(QueryChar(client, t[i])) = t[i]
  BY <1>2, QueryChars
<1>5. /\ u \in Seq(Wire) /\ DOMAIN u = 1 .. Len(t)
      /\ \A i \in 1 .. Len(t) : u[i] = QueryChar(client, t[i])
  <2>1. [i \in 1 .. Len(t) |-> QueryChar(client, t[i])] \in Seq(Wire)
    BY <1>2, <1>4
  <2> QED BY <1>2, <1>3, <2>1
<1>6. [i \in 1 .. Len(t) |-> FormDecode(u[i])] = t
  BY <1>2, <1>4, <1>5
<1> QED BY <1>1, <1>5, <1>6 DEF u, FormDecoded

\* A described URL and a value of it.
Described(url, value) ==
  /\ url \in [path : Seq(Parts) \ {<<>>}, query : Seq(Params)]
  /\ value \in [path : Seq(Text \cup Seq(OnWire)), query : Seq(Seq(Text))]
  /\ PathValue(url, value) /\ QueryValue(url, value)

(***************************************************************************)
(* The query string.                                                       *)
(***************************************************************************)
Pairs == STRING \X OnWire

Collect(name) ==
  [values \in Seq(Text) |-> [pair \in Pairs |->
     IF pair[1] = name THEN Append(values, FormDecoded(pair[2])) ELSE values]]

LEMMA CollectType ==
  ASSUME NEW name, NEW values \in Seq(Text), NEW pair \in Pairs
  PROVE  /\ Collect(name)[values][pair]
              = IF pair[1] = name THEN Append(values, FormDecoded(pair[2])) ELSE values
         /\ Collect(name)[values][pair] \in Seq(Text)
<1>1. pair[2] \in OnWire
  BY DEF Pairs
<1>2. FormDecoded(pair[2]) \in Text
  BY <1>1, DecodedText
<1>3. Collect(name)[values][pair]
        = IF pair[1] = name THEN Append(values, FormDecoded(pair[2])) ELSE values
  BY DEF Collect
<1> QED BY <1>2, <1>3

LEMMA ParamType ==
  ASSUME NEW client, NEW param \in Params, NEW texts \in Seq(Text)
  PROVE  EncodeParam(client, param, texts) \in Seq(Pairs)
<1> DEFINE pair(i) == <<param.name, InQuery(client, texts[i])>>
<1>1. DOMAIN texts = 1 .. Len(texts) /\ Len(texts) \in Nat
      /\ \A i \in 1 .. Len(texts) : texts[i] \in Text
  OBVIOUS
<1>2. \A i \in 1 .. Len(texts) : InQuery(client, texts[i]) \in OnWire
  BY <1>1, QueryText
<1>3. param.name \in STRING
  BY DEF Params
<1>4. \A i \in 1 .. Len(texts) : pair(i) \in Pairs
  BY <1>2, <1>3 DEF Pairs
<1>5. EncodeParam(client, param, texts) = [i \in 1 .. Len(texts) |-> pair(i)]
  BY <1>1 DEF EncodeParam
<1> HIDE DEF pair
<1>6. [i \in 1 .. Len(texts) |-> pair(i)] \in Seq(Pairs)
  BY <1>1, <1>4
<1> QED BY <1>5, <1>6

\* The pairs of a parameter, collected by its name and by another.
CollectsParam(client, name, param, values, texts) ==
  Folded(Collect(name), values, EncodeParam(client, param, texts))
    = IF param.name = name THEN values \o texts ELSE values

LEMMA ParamValues ==
  \A client, name : \A param \in Params : \A values, texts \in Seq(Text) :
    CollectsParam(client, name, param, values, texts)
<1> TAKE client, name
<1> TAKE param \in Params
<1> SUFFICES ASSUME NEW values \in Seq(Text)
             PROVE  \A texts \in Seq(Text) :
                      Folded(Collect(name), values, EncodeParam(client, param, texts))
                        = IF param.name = name THEN values \o texts ELSE values
  BY DEF CollectsParam
<1> DEFINE E(texts) == EncodeParam(client, param, texts)
           G == {texts \in Seq(Text) :
                   Folded(Collect(name), values, E(texts))
                     = IF param.name = name THEN values \o texts ELSE values}
<1>1. <<>> \in G
  <2>1. E(<<>>) = <<>>
    BY DEF EncodeParam
  <2>2. values \o <<>> = values
    OBVIOUS
  <2> HIDE DEF E
  <2> QED BY <2>1, <2>2, FoldedEmpty
<1>2. ASSUME NEW texts \in Seq(Text), NEW t \in Text, texts \in G PROVE Append(texts, t) \in G
  <2>0. values \o Append(texts, t) = Append(values \o texts, t)
    OBVIOUS
  <2> DEFINE w == InQuery(client, t)
             pair == <<param.name, w>>
             reached == IF param.name = name THEN values \o texts ELSE values
  <2>1. E(Append(texts, t)) = Append(E(texts), pair)
    <3> DEFINE longer == Append(texts, t)
    <3>1. /\ longer \in Seq(Text) /\ DOMAIN longer = 1 .. Len(texts) + 1
          /\ longer[Len(texts) + 1] = t /\ \A i \in 1 .. Len(texts) : longer[i] = texts[i]
      OBVIOUS
    <3>2. DOMAIN texts = 1 .. Len(texts) /\ Len(texts) \in Nat
      OBVIOUS
    <3> HIDE DEF longer, pair
    <3>3. E(longer) \in Seq(Pairs) /\ E(texts) \in Seq(Pairs)
      BY <3>1, ParamType
    <3>4. /\ Len(E(longer)) = Len(texts) + 1 /\ Len(E(texts)) = Len(texts)
          /\ E(longer)[Len(texts) + 1] = pair
          /\ \A i \in 1 .. Len(texts) : E(longer)[i] = E(texts)[i]
      BY <3>1, <3>2, <3>3 DEF EncodeParam, pair
    <3> HIDE DEF E
    <3>5. pair \in Pairs
      BY <3>2, <3>3, <3>4
    <3>6. E(longer) = Append(E(texts), pair)
      BY <3>2, <3>3, <3>4, <3>5
    <3> QED BY <3>6 DEF longer
  <2>2. w \in OnWire /\ FormDecoded(w) = t
    BY QueryText
  <2>3. pair \in Pairs /\ pair[1] = param.name /\ pair[2] = w
    BY <2>2 DEF Params, Pairs
  <2>4. E(texts) \in Seq(Pairs)
    BY ParamType
  <2>5. Folded(Collect(name), values, E(texts)) = reached
    BY <1>2
  <2>6. reached \in Seq(Text)
    OBVIOUS
  <2> HIDE DEF E, reached, w, pair
  <2>7. Folded(Collect(name), values, Append(E(texts), pair)) = Collect(name)[reached][pair]
    BY <2>3, <2>4, <2>5, FoldedAppend
  <2>8. Collect(name)[reached][pair]
          = IF param.name = name THEN Append(reached, t) ELSE reached
    BY <2>2, <2>3, <2>6, CollectType
  <2>9. IF param.name = name
        THEN Append(reached, t) = values \o Append(texts, t) ELSE reached = values
    BY <2>0 DEF reached
  <2>10. Append(texts, t) \in Seq(Text)
    OBVIOUS
  <2> QED BY <2>1, <2>7, <2>8, <2>9, <2>10
<1> HIDE DEF G
<1>3. \A texts \in Seq(Text) : texts \in G
  BY <1>1, <1>2, EverySequence
<1> QED BY <1>3 DEF G

\* The texts of a parameter are the values of its name in the whole query string.
LEMMA QueryValues ==
  ASSUME NEW client, NEW url, NEW value, Described(url, value)
  PROVE  \A i \in DOMAIN url.query :
           ValuesOf(url.query[i].name, EncodeQuery(client, url, value)) = value.query[i]
<1> DEFINE params == url.query
           texts == value.query
           n == Len(params)
<1>0. EncodeQuery(client, url, value)
        = Joined(Pairs, [i \in DOMAIN params |-> EncodeParam(client, params[i], texts[i])])
  BY DEF EncodeQuery, Pairs
<1> params \in Seq(Params) /\ texts \in Seq(Seq(Text))
  BY DEF Described
<1> DOMAIN params = 1 .. n /\ n \in Nat /\ DOMAIN texts = 1 .. n
  BY DEF Described, QueryValue
<1> Len(params) = n /\ Len(texts) = n
  OBVIOUS
<1> \A i, j \in 1 .. n : params[i].name = params[j].name => i = j
  BY DEF Described, QueryValue
<1> HIDE DEF params, texts, n
<1> SUFFICES \A j \in 1 .. n :
               ValuesOf(params[j].name,
                        Joined(Pairs, [i \in 1 .. n |-> EncodeParam(client, params[i], texts[i])]))
                 = texts[j]
  BY <1>0 DEF params, texts
<1> TAKE j \in 1 .. n
<1> DEFINE name == params[j].name
           E(i) == EncodeParam(client, params[i], texts[i])
           upTo(k) == [i \in 1 .. k |-> E(i)]
           G == {k \in Nat : k <= n => Folded(Collect(name), <<>>, Joined(Pairs, upTo(k)))
                                         = IF j <= k THEN texts[j] ELSE <<>>}
<1>1. \A i \in 1 .. n : params[i] \in Params /\ texts[i] \in Seq(Text)
  OBVIOUS
<1>2. \A i \in 1 .. n : E(i) \in Seq(Pairs)
  BY <1>1, ParamType
<1>3. ASSUME NEW i \in 1 .. n, NEW values \in Seq(Text)
      PROVE  Folded(Collect(name), values, E(i)) = IF i = j THEN values \o texts[i] ELSE values
  <2>1. Folded(Collect(name), values, E(i))
          = IF params[i].name = name THEN values \o texts[i] ELSE values
    <3>1. params[i] \in Params /\ texts[i] \in Seq(Text)
      BY <1>1
    <3>2. CollectsParam(client, name, params[i], values, texts[i])
      BY <3>1, ParamValues, Zenon
    <3> QED BY <3>2 DEF CollectsParam, E
  <2>2. params[i].name = name <=> i = j
    OBVIOUS
  <2> QED BY <2>1, <2>2
<1> HIDE DEF E
<1>4. 0 \in G
  <2>1. upTo(0) = <<>>
    OBVIOUS
  <2> QED BY <2>1, JoinedEmpty, FoldedEmpty
<1>5. ASSUME NEW k \in Nat, k \in G PROVE k + 1 \in G
  <2> SUFFICES ASSUME k + 1 <= n
               PROVE  Folded(Collect(name), <<>>, Joined(Pairs, upTo(k + 1)))
                        = IF j <= k + 1 THEN texts[j] ELSE <<>>
    OBVIOUS
  <2> DEFINE reached == IF j <= k THEN texts[j] ELSE <<>>
  <2>1. upTo(k) \in Seq(Seq(Pairs)) /\ E(k + 1) \in Seq(Pairs)
    BY <1>2
  <2>2. upTo(k + 1) = Append(upTo(k), E(k + 1))
    OBVIOUS
  <2>3. reached \in Seq(Text)
    BY <1>1
  <2>4. Folded(Collect(name), <<>>, Joined(Pairs, upTo(k))) = reached
    BY <1>5
  <2> HIDE DEF upTo, reached
  <2>5. Joined(Pairs, upTo(k + 1)) = Joined(Pairs, upTo(k)) \o E(k + 1)
    <3>1. PICK front \in Seq(Seq(Pairs)), last \in Seq(Pairs) : front = upTo(k) /\ last = E(k + 1)
      BY <2>1
    <3>2. Joined(Pairs, Append(front, last)) = Joined(Pairs, front) \o last
      BY ONLY front \in Seq(Seq(Pairs)), last \in Seq(Pairs), JoinedAppend
    <3> QED BY <2>2, <3>1, <3>2, Zenon
  <2>6. Joined(Pairs, upTo(k)) \in Seq(Pairs)
    BY <2>1, JoinedType
  <2>7. Folded(Collect(name), <<>>, Joined(Pairs, upTo(k)) \o E(k + 1))
          = Folded(Collect(name), reached, E(k + 1))
    BY <2>1, <2>4, <2>6, FoldedConcat
  <2>8. Folded(Collect(name), reached, E(k + 1))
          = IF k + 1 = j THEN reached \o texts[k + 1] ELSE reached
    BY <1>3, <2>3
  <2>9. IF k + 1 = j THEN reached \o texts[k + 1] = texts[j]
        ELSE reached = IF j <= k + 1 THEN texts[j] ELSE <<>>
    <3>1. CASE k + 1 = j
      <4>1. reached = <<>> /\ texts[k + 1] = texts[j] /\ texts[j] \in Seq(Text)
        BY <3>1, <1>1 DEF reached
      <4>2. <<>> \o texts[j] = texts[j]
        BY <4>1
      <4> QED BY <3>1, <4>1, <4>2
    <3>2. CASE k + 1 # j
      BY <3>2 DEF reached
    <3> QED BY <3>1, <3>2
  <2>10. k + 1 = j => j <= k + 1
    OBVIOUS
  <2> QED BY <2>5, <2>7, <2>8, <2>9, <2>10, Zenon
<1> HIDE DEF G
<1>6. n \in G
  BY <1>4, <1>5, EveryNatural
<1>7. Folded(Collect(name), <<>>, Joined(Pairs, upTo(n))) = texts[j]
  BY <1>6 DEF G
<1> QED BY <1>7 DEF ValuesOf, Collect, Pairs, E

(***************************************************************************)
(* The first and the last element of a sequence that is not like another.  *)
(***************************************************************************)
LEMMA Least ==
  ASSUME NEW S \in SUBSET Nat, S # {}
  PROVE  Min(S) \in S /\ \A i \in S : Min(S) <= i
<1> DEFINE R == OpToRel(<, Nat)
<1>1. IsWellFoundedOn(R, Nat)
  BY NatLessThanWellFounded
<1>2. \A y, x \in Nat : y < x => <<y, x>> \in R
  BY DEF OpToRel
<1> HIDE DEF R
<1>3. PICK x \in S : \A y \in S : ~ (<<y, x>> \in R)
  BY <1>1, WFMin, Zenon
<1>4. \A y \in S : x <= y
  <2> TAKE y \in S
  <2>1. x \in Nat /\ y \in Nat
    OBVIOUS
  <2>2. ~ (y < x)
    BY <2>1, <1>2, <1>3, Zenon
  <2> QED BY <2>1, <2>2
<1>5. \E i \in S : \A j \in S : i <= j
  BY <1>4
<1> QED BY <1>5, Zenon DEF Min

LEMMA Greatest ==
  ASSUME NEW n \in Nat, NEW S \in SUBSET (1 .. n), S # {}
  PROVE  Max(S) \in S /\ \A i \in S : Max(S) >= i
<1> DEFINE T == {n - i : i \in S}
<1>0. \A i \in S : i \in 1 .. n /\ n - i \in Nat
  OBVIOUS
<1>1. T \in SUBSET Nat /\ T # {}
  BY <1>0
<1>2. \A i \in S : n - i \in T
  OBVIOUS
<1>3. \A t \in T : n - t \in S
  OBVIOUS
<1> HIDE DEF T
<1>4. Min(T) \in T /\ \A t \in T : Min(T) <= t
  BY <1>1, Least
<1>5. n - Min(T) \in S /\ Min(T) \in Nat
  BY <1>1, <1>3, <1>4
<1>6. \A i \in S : Min(T) <= n - i
  BY <1>2, <1>4
<1>7. \A i \in S : n - Min(T) >= i
  BY <1>5, <1>6
<1>8. \E x \in S : \A i \in S : x >= i
  BY <1>5, <1>7, Zenon
<1> QED BY <1>8, Zenon DEF Max

\* The indexes of the first and the last element other than x, 0 if there is none.
FirstIndex(s, x) ==
  LET I == {i \in 1 .. Len(s) : s[i] # x} IN IF I # {} THEN Min(I) ELSE 0

LastIndex(s, x) ==
  LET I == {i \in 1 .. Len(s) : s[i] # x} IN IF I # {} THEN Max(I) ELSE 0

LEMMA FirstOther ==
  ASSUME NEW s, Len(s) \in Nat, NEW x, NEW first, first = FirstIndex(s, x)
  PROVE  \/ first = 0 /\ \A i \in 1 .. Len(s) : s[i] = x
         \/ first \in 1 .. Len(s) /\ s[first] # x /\ \A i \in 1 .. first - 1 : s[i] = x
<1> DEFINE I == {i \in 1 .. Len(s) : s[i] # x}
<1>1. first = IF I # {} THEN Min(I) ELSE 0
  BY DEF FirstIndex
<1>2. CASE I = {}
  BY <1>1, <1>2
<1>3. CASE I # {}
  <2>1. I \in SUBSET Nat
    OBVIOUS
  <2>2. Min(I) \in I /\ \A i \in I : Min(I) <= i
    BY <1>3, <2>1, Least
  <2>3. first \in I /\ \A i \in I : first <= i
    BY <1>1, <1>3, <2>2
  <2>4. first \in 1 .. Len(s) /\ s[first] # x
    BY <2>3
  <2>5. ASSUME NEW i \in 1 .. first - 1 PROVE s[i] = x
    <3>1. i \in 1 .. Len(s) /\ ~ (first <= i)
      BY <2>4
    <3>2. i \notin I
      <4> HIDE DEF I
      <4> QED BY <3>1, <2>3, Zenon
    <3> QED BY <3>1, <3>2
  <2> QED BY <2>4, <2>5
<1> QED BY <1>2, <1>3

LEMMA LastOther ==
  ASSUME NEW s, Len(s) \in Nat, NEW x, NEW last, last = LastIndex(s, x)
  PROVE  \/ last = 0 /\ \A i \in 1 .. Len(s) : s[i] = x
         \/ last \in 1 .. Len(s) /\ s[last] # x /\ \A i \in last + 1 .. Len(s) : s[i] = x
<1> DEFINE I == {i \in 1 .. Len(s) : s[i] # x}
<1>1. last = IF I # {} THEN Max(I) ELSE 0
  BY DEF LastIndex
<1>2. CASE I = {}
  BY <1>1, <1>2
<1>3. CASE I # {}
  <2>1. I \in SUBSET (1 .. Len(s))
    OBVIOUS
  <2>2. Max(I) \in I /\ \A i \in I : Max(I) >= i
    BY <1>3, <2>1, Greatest
  <2>3. last \in I /\ \A i \in I : last >= i
    BY <1>1, <1>3, <2>2
  <2>4. last \in 1 .. Len(s) /\ s[last] # x
    BY <2>3
  <2>5. ASSUME NEW i \in last + 1 .. Len(s) PROVE s[i] = x
    <3>1. i \in 1 .. Len(s) /\ ~ (last >= i)
      BY <2>4
    <3>2. i \notin I
      <4> HIDE DEF I
      <4> QED BY <3>1, <2>3, Zenon
    <3> QED BY <3>1, <3>2
  <2> QED BY <2>4, <2>5
<1> QED BY <1>2, <1>3

\* What the texts of a parameter mean.
Meant(param, texts) ==
  IF param.kind = "default" /\ texts = <<>> THEN <<param.default>> ELSE texts

LEMMA QueryDecoded ==
  ASSUME NEW client, NEW url, NEW value, Described(url, value)
  PROVE  \A i \in DOMAIN url.query :
           /\ ~MissingParam(url.query[i], EncodeQuery(client, url, value))
           /\ Meant(url.query[i], DecodeParam(url.query[i], EncodeQuery(client, url, value)))
                = Meant(url.query[i], value.query[i])
<1> DEFINE params == url.query
           texts == value.query
           q == EncodeQuery(client, url, value)
           n == Len(params)
<1>1. /\ params \in Seq(Params) /\ texts \in Seq(Seq(Text))
      /\ DOMAIN params = 1 .. n /\ n \in Nat /\ DOMAIN texts = 1 .. n /\ Len(texts) = n
      /\ Len(params) = n
  BY DEF Described, QueryValue
<1>2. /\ \A i \in 1 .. n : params[i].kind = "required" => Len(texts[i]) = 1
      /\ \A i \in 1 .. n : params[i].kind \in {"optional", "default"} => Len(texts[i]) <= 1
      /\ \A i, j \in 1 .. n : params[i].name = params[j].name => i = j
  BY <1>1 DEF Described, QueryValue
<1> HIDE DEF q, params, texts, n
<1>4. \A i \in 1 .. n : ValuesOf(params[i].name, q) = texts[i]
  BY <1>1, QueryValues DEF params, q, texts
<1>5. ASSUME NEW i \in 1 .. n
      PROVE  ~MissingParam(params[i], q) /\ Meant(params[i], DecodeParam(params[i], q))
                                               = Meant(params[i], texts[i])
  <2> DEFINE kind == params[i].kind
             few == texts[i]
  <2>0. params[i] \in Params /\ few \in Seq(Text)
    BY <1>1
  <2>1. kind \in {"required", "optional", "default", "repeated"}
    BY <2>0 DEF Params
  <2>2. few \in Seq(Text) /\ (kind # "repeated" => Len(few) <= 1)
                          /\ (kind = "required" => Len(few) = 1)
    <3>1. /\ kind = "required" => Len(few) = 1
          /\ kind \in {"optional", "default"} => Len(few) <= 1
      BY <1>2
    <3> HIDE DEF kind, few
    <3>2. Len(few) = 1 => Len(few) <= 1
      OBVIOUS
    <3> QED BY <2>0, <2>1, <3>1, <3>2, Zenon
  <2>3. Len(few) <= 1 => FirstOf(few) = few
    BY <2>2 DEF FirstOf
  <2>4. kind = "required" => few # <<>>
    <3> HIDE DEF few
    <3> QED BY <2>2
  <2>5. ValuesOf(params[i].name, q) = few
    BY <1>4
  <2>6. ~MissingParam(params[i], q)
    BY <2>4, <2>5 DEF MissingParam
  <2>7. DecodeParam(params[i], q) = CASE kind = "repeated" -> few
                                      [] kind \in {"required", "optional"} -> FirstOf(few)
                                      [] kind = "default" ->
                                           IF few = <<>> THEN <<params[i].default>> ELSE FirstOf(few)
    BY <2>5 DEF DecodeParam
  <2> HIDE DEF few
  <2>8. DecodeParam(params[i], q)
          = IF kind = "default" /\ few = <<>> THEN <<params[i].default>> ELSE few
    BY <2>1, <2>2, <2>3, <2>7
  <2>9. <<params[i].default>> # <<>>
    OBVIOUS
  <2> HIDE DEF kind
  <2>10. Meant(params[i], DecodeParam(params[i], q)) = Meant(params[i], few)
    BY <2>8, <2>9 DEF Meant, kind
  <2> QED BY <2>6, <2>10 DEF few
<1> QED BY <1>1, <1>5 DEF q, params, texts, n

(***************************************************************************)
(* A static segment without slashes is one segment of the path.            *)
(***************************************************************************)
LEMMA Unsplit ==
  \A text \in Seq({"a"}) : text \in Text /\ Split(text) = <<text>> /\ JavaSplit(text) = <<text>>
<1> DEFINE step == [segments \in Seq(Text) |-> [c \in Characters |->
                      IF c = "/" THEN Append(segments, <<>>)
                      ELSE Append(Front(segments), Append(Last(segments), c))]]
           G == {text \in Seq({"a"}) : text \in Text /\ Split(text) = <<text>>}
<1>1. <<>> \in G
  <2>1. Split(<<>>) = <<<<>>>>
    BY FoldedEmpty DEF Split
  <2>2. <<>> \in Text
    BY DEF Text
  <2> QED BY <2>1, <2>2
<1>2. ASSUME NEW text \in Seq({"a"}), NEW c \in {"a"}, text \in G PROVE Append(text, c) \in G
  <2>1. text \in Seq(Characters) /\ c \in Characters /\ c = "a" /\ Text = Seq(Characters)
    BY <1>2 DEF Text, Characters
  <2>2. <<text>> \in Seq(Text)
    BY <2>1
  <2>3. step[<<text>>][c] = Append(Front(<<text>>), Append(Last(<<text>>), c))
    BY <2>1, <2>2
  <2>4. Last(<<text>>) = text /\ Front(<<text>>) = <<>>
    BY <2>2 DEF Last, Front
  <2>5. Append(<<>>, Append(text, c)) = <<Append(text, c)>>
    OBVIOUS
  <2>6. Split(text) = Folded(step, <<<<>>>>, text)
        /\ Split(Append(text, c)) = Folded(step, <<<<>>>>, Append(text, c))
    BY DEF Split
  <2> HIDE DEF step
  <2>7. Folded(step, <<<<>>>>, Append(text, c)) = step[Folded(step, <<<<>>>>, text)][c]
    BY <2>1, FoldedAppend
  <2>8. Split(Append(text, c)) = <<Append(text, c)>>
    BY <1>2, <2>3, <2>4, <2>5, <2>6, <2>7
  <2>9. Append(text, c) \in Seq({"a"}) /\ Append(text, c) \in Text
    BY <2>1
  <2> QED BY <2>8, <2>9
<1> HIDE DEF G
<1>3. \A text \in Seq({"a"}) : text \in G
  BY <1>1, <1>2, EverySequence
<1>4. \A text \in Seq({"a"}) : text \in Text /\ Split(text) = <<text>>
  BY <1>3 DEF G
<1>5. \A text : Len(<<text>>) = 1
  OBVIOUS
<1> QED BY <1>4, <1>5 DEF JavaSplit

(***************************************************************************)
(* The path. A part writes a piece: the segments of the wire.              *)
(***************************************************************************)
Piece(client, part, carried) ==
  CASE part.kind = "static"    -> <<part.text>>
    [] part.kind = "segment"   -> <<InSegment(client, carried)>>
    [] part.kind = "remaining" -> [j \in DOMAIN carried |-> InRemaining(client, carried[j])]

\* The texts that the server decodes when it decodes what the part means.
Wanted(part, carried) ==
  CASE part.kind = "static"    -> <<part.text>>
    [] part.kind = "segment"   -> <<carried>>
    [] part.kind = "remaining" -> [j \in DOMAIN carried |-> FormDecoded(carried[j])]

LEMMA EncodedPart ==
  ASSUME NEW client, NEW part \in Parts, NEW carried,
         part.kind = "static" => part.text \in Seq({"a"})
  PROVE  EncodePart(client, part, carried) = <<Piece(client, part, carried)>>
<1>1. part.kind \in {"static", "segment", "remaining"}
  BY DEF Parts
<1>2. CASE part.kind = "static"
  <2>1. Split(part.text) = <<part.text>> /\ JavaSplit(part.text) = <<part.text>>
    BY <1>2, Unsplit
  <2>2. EncodePart(client, part, carried)
          = [i \in DOMAIN <<part.text>> |-> <<(<<part.text>>)[i]>>]
    BY <1>2, <2>1 DEF EncodePart
  <2>3. [i \in DOMAIN <<part.text>> |-> <<(<<part.text>>)[i]>>] = <<<<part.text>>>>
    OBVIOUS
  <2> QED BY <1>2, <2>2, <2>3 DEF Piece
<1>3. CASE part.kind = "segment"
  BY <1>3 DEF EncodePart, Piece
<1>4. CASE part.kind = "remaining"
  BY <1>4 DEF EncodePart, Piece
<1> QED BY <1>1, <1>2, <1>3, <1>4

LEMMA PlainText ==
  ASSUME NEW t \in Seq({"a"})
  PROVE  t \in Text /\ t \in OnWire /\ Unescaped(t) = t /\ FormDecoded(t) = t
<1>1. t \in Text /\ t \in OnWire
  BY Unsplit, CharactersAre
<1>2. DOMAIN t = 1 .. Len(t) /\ t = [i \in 1 .. Len(t) |-> t[i]]
      /\ \A i \in 1 .. Len(t) : t[i] = "a"
  OBVIOUS
<1>3. Unescape("a") = "a" /\ FormDecode("a") = "a"
  BY DEF Unescape, FormDecode, Characters
<1> QED BY <1>1, <1>2, <1>3 DEF Unescaped, FormDecoded

\* What a part of the path can carry.
Carries(part, carried) ==
  /\ part \in Parts
  /\ part.kind = "static" => part.text \in Seq({"a"})
  /\ part.kind = "segment" => carried \in Text
  /\ part.kind = "remaining" => carried \in Seq(Seq({"a", "+"} \cup Escapes)) \ {<<>>}

TextOf(part, carried) ==
  CASE part.kind = "static"    -> <<part.text>>
    [] part.kind = "segment"   -> <<carried>>
    [] part.kind = "remaining" -> carried

\* Whether the http4s server mistakes a "+" of a segment of a part.
FormMistakes(client, part, carried, j) ==
  \/ part.kind = "segment" /\ Contains(carried, "+") /\ client # "fetch"
  \/ part.kind = "remaining" /\ client \in {"pekko", "sttp"} /\ Contains(carried[j], "%2B")

\* A piece, its texts, and what is wanted of it, segment by segment.
LEMMA PieceIs ==
  ASSUME NEW client, NEW part, NEW carried, Carries(part, carried),
         NEW p, p = Piece(client, part, carried),
         NEW t, t = TextOf(part, carried),
         NEW w, w = Wanted(part, carried)
  PROVE  /\ p \in Seq(OnWire) /\ t \in Seq(OnWire) /\ w \in Seq(Text)
         /\ Len(t) = Len(p) /\ Len(w) = Len(p) /\ Len(p) >= 1
         /\ part.kind # "remaining" => Len(p) = 1
         /\ \A j \in 1 .. Len(p) :
              /\ p[j] = <<>> <=> t[j] = <<>>
              /\ Unescaped(p[j]) = w[j] <=> ~(part.kind = "remaining" /\ Contains(carried[j], "+"))
              /\ FormDecoded(p[j]) = w[j] <=> ~FormMistakes(client, part, carried, j)
<1>1. part.kind \in {"static", "segment", "remaining"}
  BY DEF Carries, Parts
<1>2. CASE part.kind = "static"
  <2>1. p = <<part.text>> /\ t = <<part.text>> /\ w = <<part.text>>
    BY <1>2 DEF Piece, TextOf, Wanted
  <2>2. part.text \in Seq({"a"})
    BY <1>2 DEF Carries
  <2>3. /\ part.text \in Text /\ part.text \in OnWire
        /\ Unescaped(part.text) = part.text /\ FormDecoded(part.text) = part.text
    BY <2>2, PlainText
  <2> QED BY <1>2, <2>1, <2>3 DEF FormMistakes
<1>3. CASE part.kind = "segment"
  <2> DEFINE u == InSegment(client, carried)
  <2>1. p = <<u>> /\ t = <<carried>> /\ w = <<carried>>
    BY <1>3 DEF Piece, TextOf, Wanted
  <2>2. carried \in Text /\ carried \in OnWire
    BY <1>3, CharactersAre DEF Carries
  <2>3. /\ u \in OnWire
        /\ u = <<>> <=> carried = <<>>
        /\ Unescaped(u) = carried
        /\ FormDecoded(u) = carried <=> client = "fetch" \/ ~Contains(carried, "+")
    BY <2>2, SegmentText
  <2> HIDE DEF u
  <2> QED BY <1>3, <2>1, <2>2, <2>3 DEF FormMistakes
<1>4. CASE part.kind = "remaining"
  <2>1. carried \in Seq(Seq({"a", "+"} \cup Escapes)) /\ carried # <<>>
    BY <1>4 DEF Carries
  <2>2. /\ p = [j \in DOMAIN carried |-> InRemaining(client, carried[j])]
        /\ t = carried /\ w = [j \in DOMAIN carried |-> FormDecoded(carried[j])]
    BY <1>4 DEF Piece, TextOf, Wanted
  <2>3. carried \in Seq(OnWire)
    <3>1. {"a", "+"} \cup Escapes \subseteq Wire
      BY DEF Wire, Characters
    <3>2. Seq({"a", "+"} \cup Escapes) \subseteq OnWire
      BY <3>1, CharactersAre, SeqMonotonic
    <3> QED BY <2>1, <3>2
  <2>4. DOMAIN carried = 1 .. Len(carried) /\ Len(carried) \in Nat /\ Len(carried) >= 1
        /\ \A j \in 1 .. Len(carried) : carried[j] \in OnWire
    BY <2>1, <2>3
  <2>5. \A j \in 1 .. Len(carried) :
          /\ FormDecoded(carried[j]) \in Text
          /\ Unescaped(carried[j]) = FormDecoded(carried[j]) <=> ~Contains(carried[j], "+")
    BY <2>4, DecodedText
  <2>6. w \in Seq(Text) /\ Len(w) = Len(carried)
        /\ \A j \in 1 .. Len(carried) : w[j] = FormDecoded(carried[j])
    <3>1. [j \in 1 .. Len(carried) |-> FormDecoded(carried[j])] \in Seq(Text)
      BY <2>4, <2>5
    <3> QED BY <2>2, <2>4, <3>1
  <2>7. \A j \in 1 .. Len(carried) :
          /\ p[j] \in OnWire
          /\ p[j] = <<>> <=> carried[j] = <<>>
          /\ Unescaped(p[j]) = Unescaped(carried[j])
          /\ FormDecoded(p[j]) = FormDecoded(carried[j])
               <=> ~(client \in {"pekko", "sttp"} /\ Contains(carried[j], "%2B"))
    <3> TAKE j \in 1 .. Len(carried)
    <3>1. p[j] = InRemaining(client, carried[j]) /\ carried[j] \in OnWire
      BY <2>2, <2>4
    <3> QED BY <3>1, RemainingText
  <2>8. p \in Seq(OnWire) /\ Len(p) = Len(carried)
    <3>1. DOMAIN p = 1 .. Len(carried) /\ p = [j \in 1 .. Len(carried) |-> p[j]]
      BY <2>2, <2>4
    <3>2. [j \in 1 .. Len(carried) |-> p[j]] \in Seq(OnWire)
      BY <2>4, <2>7
    <3> QED BY <2>4, <3>1, <3>2
  <2>9. \A j \in 1 .. Len(carried) :
          FormMistakes(client, part, carried, j)
            <=> client \in {"pekko", "sttp"} /\ Contains(carried[j], "%2B")
    BY <1>4 DEF FormMistakes
  <2> QED BY <1>4, <2>2, <2>3, <2>4, <2>5, <2>6, <2>7, <2>8, <2>9
<1> QED BY <1>1, <1>2, <1>3, <1>4

Pieces(client, url, value) ==
  [i \in DOMAIN url.path |-> Piece(client, url.path[i], value.path[i])]

\* The same, whatever the static segments.
Fits(part, carried) ==
  /\ part \in Parts
  /\ part.kind = "static" => part.text \in Seq({"a", "/"})
  /\ part.kind = "segment" => carried \in Text
  /\ part.kind = "remaining" => carried \in Seq(Seq({"a", "+"} \cup Escapes)) \ {<<>>}

LEMMA AnyParts ==
  ASSUME NEW url, NEW value, Described(url, value), NEW n, n = Len(url.path)
  PROVE  /\ n \in Nat \ {0} /\ DOMAIN url.path = 1 .. n
         /\ url.path[1] = Static(<<>>)
         /\ DOMAIN value.path = 1 .. n /\ Len(value.path) = n
         /\ \A i \in 1 .. n : Fits(url.path[i], value.path[i])
         /\ \A i \in 1 .. n - 1 : url.path[i].kind # "remaining"
         /\ \A i \in 1 .. n : url.path[i].kind = "static" => value.path[i] = <<>>
<1>1. url.path \in Seq(Parts) \ {<<>>} /\ value.path \in Seq(Text \cup Seq(OnWire))
  BY DEF Described
<1>2. n \in Nat \ {0} /\ DOMAIN url.path = 1 .. n /\ \A i \in 1 .. n : url.path[i] \in Parts
  BY <1>1
<1>3. /\ url.path[1] = Static(<<>>)
      /\ DOMAIN value.path = DOMAIN url.path
      /\ \A i \in 1 .. n :
           /\ url.path[i].kind = "static" =>
                url.path[i].text \in Seq({"a", "/"}) /\ value.path[i] = <<>>
           /\ url.path[i].kind = "segment" => value.path[i] \in Text
           /\ url.path[i].kind = "remaining" =>
                i = n /\ value.path[i] \in Seq(Seq({"a", "+"} \cup Escapes)) \ {<<>>}
  BY <1>2 DEF Described, PathValue
<1>4. Len(value.path) = n
  BY <1>1, <1>2, <1>3
<1>5. \A i \in 1 .. n : Fits(url.path[i], value.path[i])
  BY <1>2, <1>3 DEF Fits
<1>6. \A i \in 1 .. n - 1 : url.path[i].kind # "remaining"
  BY <1>2, <1>3
<1> QED BY <1>2, <1>3, <1>4, <1>5, <1>6

LEMMA PartsAre ==
  ASSUME NEW url, NEW value, Described(url, value), ~SlashInStaticSegment(url),
         NEW n, n = Len(url.path)
  PROVE  /\ n \in Nat \ {0} /\ DOMAIN url.path = 1 .. n
         /\ url.path[1] = Static(<<>>)
         /\ DOMAIN value.path = 1 .. n /\ Len(value.path) = n
         /\ \A i \in 1 .. n : Carries(url.path[i], value.path[i])
         /\ \A i \in 1 .. n - 1 : url.path[i].kind # "remaining"
         /\ \A i \in 1 .. n : url.path[i].kind = "static" => value.path[i] = <<>>
<1>1. url.path \in Seq(Parts) \ {<<>>} /\ value.path \in Seq(Text \cup Seq(OnWire))
  BY DEF Described
<1>2. n \in Nat \ {0} /\ DOMAIN url.path = 1 .. n /\ \A i \in 1 .. n : url.path[i] \in Parts
  BY <1>1
<1>3. /\ url.path[1] = Static(<<>>)
      /\ DOMAIN value.path = DOMAIN url.path
      /\ \A i \in 1 .. n :
           /\ url.path[i].kind = "static" =>
                url.path[i].text \in Seq({"a", "/"}) /\ value.path[i] = <<>>
           /\ url.path[i].kind = "segment" => value.path[i] \in Text
           /\ url.path[i].kind = "remaining" =>
                i = n /\ value.path[i] \in Seq(Seq({"a", "+"} \cup Escapes)) \ {<<>>}
  BY <1>2 DEF Described, PathValue
<1>4. Len(value.path) = n
  BY <1>1, <1>2, <1>3
<1>5. ASSUME NEW i \in 1 .. n, url.path[i].kind = "static"
      PROVE  url.path[i].text \in Seq({"a"})
  <2> DEFINE t == url.path[i].text
  <2>1. t \in Seq({"a", "/"})
    BY <1>3, <1>5
  <2>2. \A j \in 1 .. Len(t) : t[j] # "/"
    BY <1>2, <1>5 DEF SlashInStaticSegment, Contains
  <2> HIDE DEF t
  <2>3. t = [j \in 1 .. Len(t) |-> t[j]] /\ Len(t) \in Nat
        /\ \A j \in 1 .. Len(t) : t[j] \in {"a"}
    BY <2>1, <2>2
  <2>4. [j \in 1 .. Len(t) |-> t[j]] \in Seq({"a"})
    BY <2>3
  <2>5. t \in Seq({"a"})
    BY <2>3, <2>4
  <2> QED BY <2>5 DEF t
<1>6. \A i \in 1 .. n : Carries(url.path[i], value.path[i])
  BY <1>2, <1>3, <1>5 DEF Carries
<1>7. \A i \in 1 .. n - 1 : url.path[i].kind # "remaining"
  BY <1>2, <1>3
<1> QED BY <1>2, <1>3, <1>4, <1>6, <1>7

\* A piece for each part, with one segment each but for the last one: the segments of the
\* wire are those of the pieces.
OnePiecePerPart(n, pieces, onWire) ==
  /\ pieces \in Seq(Seq(OnWire)) /\ Len(pieces) = n
  /\ pieces[1] = <<<<>>>>
  /\ \A i \in 1 .. n - 1 : Len(pieces[i]) = 1
  /\ Len(pieces[n]) >= 1
  /\ onWire \in Seq(OnWire) /\ onWire = Joined(OnWire, pieces)
  /\ Len(onWire) = n - 1 + Len(pieces[n])
  /\ \A i \in 1 .. n - 1 : onWire[i] = pieces[i][1]
  /\ \A j \in 1 .. Len(pieces[n]) : onWire[n - 1 + j] = pieces[n][j]
  /\ onWire[1] = <<>>

\* The texts are empty where the segments of the wire are.
EmptyWhere(n, texts, all, pieces, onWire) ==
  /\ texts \in Seq(Seq(OnWire)) /\ Len(texts) = n
  /\ \A i \in 1 .. n : texts[i] = <<<<>>>> <=> pieces[i] = <<<<>>>>
  /\ all \in Seq(OnWire) /\ Len(all) = Len(onWire)
  /\ \A k \in 1 .. Len(onWire) : onWire[k] = <<>> <=> all[k] = <<>>

\* What is written of a path, from its pieces, and its texts, segment by segment.
LEMMA SegmentsAre ==
  ASSUME NEW client, NEW url, NEW value, Described(url, value), ~SlashInStaticSegment(url),
         NEW n, n = Len(url.path),
         NEW pieces, pieces = Pieces(client, url, value),
         NEW texts, texts = TextsOf(url, value),
         NEW onWire, onWire = Joined(OnWire, pieces),
         NEW all, all = Joined(OnWire, texts)
  PROVE  /\ EncodePath(client, url, value) = RequestPath(client, pieces)
         /\ OnePiecePerPart(n, pieces, onWire)
         /\ EmptyWhere(n, texts, all, pieces, onWire)
<1>1. /\ n \in Nat \ {0} /\ DOMAIN url.path = 1 .. n
      /\ url.path[1] = Static(<<>>)
      /\ \A i \in 1 .. n : Carries(url.path[i], value.path[i])
      /\ \A i \in 1 .. n - 1 : url.path[i].kind # "remaining"
  BY PartsAre
<1>2. pieces = [i \in 1 .. n |-> Piece(client, url.path[i], value.path[i])]
  BY <1>1 DEF Pieces
<1>3. texts = [i \in 1 .. n |-> TextOf(url.path[i], value.path[i])]
  BY <1>1 DEF TextsOf, TextOf
<1>4. \A i \in 1 .. n :
        /\ pieces[i] \in Seq(OnWire) /\ texts[i] \in Seq(OnWire)
        /\ Len(texts[i]) = Len(pieces[i]) /\ Len(pieces[i]) >= 1
        /\ url.path[i].kind # "remaining" => Len(pieces[i]) = 1
        /\ \A j \in 1 .. Len(pieces[i]) : pieces[i][j] = <<>> <=> texts[i][j] = <<>>
  BY <1>1, <1>2, <1>3, PieceIs
<1>5. pieces \in Seq(Seq(OnWire)) /\ texts \in Seq(Seq(OnWire)) /\ Len(pieces) = n /\ Len(texts) = n
  <2>1. /\ \A i \in 1 .. n : Piece(client, url.path[i], value.path[i]) \in Seq(OnWire)
        /\ \A i \in 1 .. n : TextOf(url.path[i], value.path[i]) \in Seq(OnWire)
    BY <1>2, <1>3, <1>4
  <2>2. /\ [i \in 1 .. n |-> Piece(client, url.path[i], value.path[i])] \in Seq(Seq(OnWire))
        /\ [i \in 1 .. n |-> TextOf(url.path[i], value.path[i])] \in Seq(Seq(OnWire))
    BY <1>1, <2>1
  <2>3. DOMAIN pieces = 1 .. n /\ DOMAIN texts = 1 .. n
    BY <1>2, <1>3
  <2>4. pieces \in Seq(Seq(OnWire)) /\ texts \in Seq(Seq(OnWire))
    BY <1>2, <1>3, <2>2, Zenon
  <2> QED BY <1>1, <2>3, <2>4
<1>6. pieces[1] = <<<<>>>>
  BY <1>1, <1>2 DEF Static, Piece
<1>7. EncodePath(client, url, value) = RequestPath(client, pieces)
  <2>1. \A i \in 1 .. n : EncodePart(client, url.path[i], value.path[i]) = <<pieces[i]>>
    BY <1>1, <1>2, EncodedPart DEF Carries
  <2>2. [i \in DOMAIN url.path |-> EncodePart(client, url.path[i], value.path[i])]
          = [i \in 1 .. Len(pieces) |-> <<pieces[i]>>]
    BY <1>1, <1>5, <2>1
  <2>3. Joined(Seq(OnWire), [i \in 1 .. Len(pieces) |-> <<pieces[i]>>]) = pieces
    BY <1>5, JoinedSingles
  <2> QED BY <2>2, <2>3 DEF EncodePath, EncodedPieces
<1>8. \A i \in 1 .. n - 1 : Len(pieces[i]) = 1 /\ Len(texts[i]) = 1
  BY <1>1, <1>4
<1>9. /\ onWire \in Seq(OnWire)
      /\ Len(onWire) = n - 1 + Len(pieces[n])
      /\ \A i \in 1 .. n - 1 : onWire[i] = pieces[i][1]
      /\ \A j \in 1 .. Len(pieces[n]) : onWire[n - 1 + j] = pieces[n][j]
  <2>1. /\ n \in Nat \ {0} /\ pieces \in Seq(Seq(OnWire)) /\ LastSpreads(pieces, n)
    BY <1>1, <1>5, <1>8 DEF LastSpreads
  <2>2. Joined(OnWire, pieces) \in Seq(OnWire) /\ SpreadOf(Joined(OnWire, pieces), pieces, n)
    BY <2>1, JoinedSpread, Zenon
  <2>3. onWire = Joined(OnWire, pieces)
    OBVIOUS
  <2> QED BY <2>2, <2>3, ZenonT(30) DEF SpreadOf
<1>10. /\ all \in Seq(OnWire)
       /\ Len(all) = n - 1 + Len(texts[n])
       /\ \A i \in 1 .. n - 1 : all[i] = texts[i][1]
       /\ \A j \in 1 .. Len(texts[n]) : all[n - 1 + j] = texts[n][j]
  <2>1. /\ n \in Nat \ {0} /\ texts \in Seq(Seq(OnWire)) /\ LastSpreads(texts, n)
    BY <1>1, <1>5, <1>8 DEF LastSpreads
  <2>2. Joined(OnWire, texts) \in Seq(OnWire) /\ SpreadOf(Joined(OnWire, texts), texts, n)
    BY <2>1, JoinedSpread, Zenon
  <2>3. all = Joined(OnWire, texts)
    OBVIOUS
  <2> QED BY <2>2, <2>3, ZenonT(30) DEF SpreadOf
<1>11. Len(pieces[n]) \in Nat /\ Len(texts[n]) = Len(pieces[n]) /\ Len(pieces[n]) >= 1
  BY <1>1, <1>4
<1>12. \A i \in 1 .. n : texts[i] = <<<<>>>> <=> pieces[i] = <<<<>>>>
  <2> TAKE i \in 1 .. n
  <2>1. \A s \in Seq(OnWire) : s = <<<<>>>> <=> Len(s) = 1 /\ s[1] = <<>>
    OBVIOUS
  <2>2. /\ pieces[i] \in Seq(OnWire) /\ texts[i] \in Seq(OnWire)
        /\ Len(texts[i]) = Len(pieces[i])
        /\ Len(pieces[i]) = 1 => (pieces[i][1] = <<>> <=> texts[i][1] = <<>>)
    BY <1>4
  <2> QED BY <2>1, <2>2
<1>13. ASSUME NEW k \in 1 .. Len(onWire) PROVE onWire[k] = <<>> <=> all[k] = <<>>
  <2>1. CASE k <= n - 1
    <3>1. k \in 1 .. n - 1 /\ k \in 1 .. n
      BY <2>1, <1>1
    <3>2. onWire[k] = pieces[k][1] /\ all[k] = texts[k][1] /\ Len(pieces[k]) = 1
      BY <3>1, <1>8, <1>9, <1>10
    <3> QED BY <3>1, <3>2, <1>4
  <2>2. CASE k >= n
    <3>1. PICK j \in 1 .. Len(pieces[n]) : k = n - 1 + j
      <4>1. k - (n - 1) \in 1 .. Len(pieces[n]) /\ k = n - 1 + (k - (n - 1))
        <5> DEFINE m == Len(pieces[n])
        <5>1. k \in 1 .. n - 1 + m /\ k >= n /\ n \in Nat /\ m \in Nat
          BY <2>2, <1>1, <1>9, <1>11
        <5> HIDE DEF m
        <5>2. k - (n - 1) \in 1 .. m /\ k = n - 1 + (k - (n - 1))
          BY ONLY <5>1
        <5> QED BY <5>2 DEF m
      <4> QED BY <4>1
    <3>2. onWire[k] = pieces[n][j] /\ all[k] = texts[n][j]
      BY <3>1, <1>9, <1>10, <1>11
    <3>3. \A i \in 1 .. Len(pieces[n]) : pieces[n][i] = <<>> <=> texts[n][i] = <<>>
      <4>1. n \in 1 .. n
        BY ONLY <1>1
      <4> QED BY <4>1, <1>4, Zenon
    <3> QED BY <3>2, <3>3, Zenon
  <2> QED BY <2>1, <2>2, <1>1, <1>9, <1>11
<1>14. onWire[1] = <<>>
  <2>1. CASE n = 1
    <3>1. onWire[n - 1 + 1] = pieces[n][1]
      BY <1>9, <1>11
    <3>2. pieces[n][1] = <<>>
      BY <2>1, <1>6
    <3> QED BY ONLY <2>1, <3>1, <3>2
  <2>2. CASE n > 1
    BY <2>2, <1>1, <1>6, <1>9
  <2>3. n = 1 \/ n > 1
    BY ONLY <1>1
  <2> QED BY <2>1, <2>2, <2>3, Zenon
<1>15. Len(all) = Len(onWire)
  BY <1>9, <1>10, <1>11
<1> HIDE DEF Piece
<1>16. OnePiecePerPart(n, pieces, onWire)
  BY <1>5, <1>6, <1>7, <1>8, <1>9, <1>10, <1>11, <1>12, <1>13, <1>14, <1>15, Zenon
     DEF OnePiecePerPart
<1>17. EmptyWhere(n, texts, all, pieces, onWire)
  BY <1>5, <1>6, <1>7, <1>8, <1>9, <1>10, <1>11, <1>12, <1>13, <1>14, <1>15, Zenon
     DEF EmptyWhere
<1> QED BY <1>5, <1>6, <1>7, <1>8, <1>9, <1>10, <1>11, <1>12, <1>13, <1>14, <1>15, <1>16, <1>17,
           Zenon

(***************************************************************************)
(* The path that the client writes.                                        *)
(***************************************************************************)
LEMMA Rooted ==
  ASSUME NEW s \in Seq(OnWire)
  PROVE  /\ <<<<>>>> \o s \in Seq(OnWire) /\ Len(<<<<>>>> \o s) = 1 + Len(s)
         /\ (<<<<>>>> \o s)[1] = <<>>
         /\ \A i \in 1 .. Len(s) : (<<<<>>>> \o s)[1 + i] = s[i]
<1>1. <<>> \in OnWire
  BY DEF OnWire
<1>2. <<<<>>>> \in Seq(OnWire) /\ Len(<<<<>>>>) = 1 /\ (<<<<>>>>)[1] = <<>>
  BY <1>1
<1> DEFINE root == <<<<>>>>
<1> HIDE DEF root
<1>3. root \in Seq(OnWire) /\ Len(root) = 1 /\ root[1] = <<>>
  BY <1>2 DEF root
<1>4. /\ root \o s \in Seq(OnWire) /\ Len(root \o s) = 1 + Len(s)
      /\ (root \o s)[1] = <<>> /\ \A i \in 1 .. Len(s) : (root \o s)[1 + i] = s[i]
  <2>1. /\ root \o s \in Seq(OnWire) /\ Len(root \o s) = Len(root) + Len(s)
        /\ \A i \in 1 .. Len(root) : (root \o s)[i] = root[i]
        /\ \A i \in 1 .. Len(s) : (root \o s)[Len(root) + i] = s[i]
    <3>1. root \in Seq(OnWire)
      BY <1>3
    <3> QED BY <3>1
  <2> QED BY <1>3, <2>1
<1> QED BY <1>4 DEF root

\* Without the pieces before the one of an index.
LEMMA JoinedFrom ==
  ASSUME NEW n \in Nat \ {0}, NEW pieces \in Seq(Seq(OnWire)), Len(pieces) = n,
         \A i \in 1 .. n - 1 : Len(pieces[i]) = 1, NEW first \in 1 .. n
  PROVE  /\ SubSeq(pieces, first, Len(pieces)) \in Seq(Seq(OnWire))
         /\ Joined(OnWire, SubSeq(pieces, first, Len(pieces))) \in Seq(OnWire)
         /\ Len(Joined(OnWire, SubSeq(pieces, first, Len(pieces)))) = n - first + Len(pieces[n])
<1> DEFINE rest == SubSeq(pieces, first, Len(pieces))
           k == n - first + 1
<1>1. \A i \in first .. n : pieces[i] \in Seq(OnWire)
  OBVIOUS
<1>2. /\ rest \in Seq(Seq(OnWire)) /\ Len(rest) = k
      /\ \A i \in 1 .. k : rest[i] = pieces[first + i - 1]
  BY <1>1, SubSeqProperties
<1>3. k \in Nat \ {0} /\ first + k - 1 = n
  OBVIOUS
<1>4. \A i \in 1 .. k - 1 : first + i - 1 \in 1 .. n - 1 /\ i \in 1 .. k
  OBVIOUS
<1> HIDE DEF rest, k
<1>5. \A i \in 1 .. k - 1 : Len(rest[i]) = 1
  BY <1>2, <1>4
<1>6. Joined(OnWire, rest) \in Seq(OnWire)
      /\ Len(Joined(OnWire, rest)) = k - 1 + Len(rest[k])
  <2>1. LastSpreads(rest, k)
    BY <1>2, <1>5 DEF LastSpreads
  <2>2. Joined(OnWire, rest) \in Seq(OnWire) /\ SpreadOf(Joined(OnWire, rest), rest, k)
    BY <1>2, <1>3, <2>1, JoinedSpread, Zenon
  <2> QED BY <2>2, Zenon DEF SpreadOf
<1>7. rest[k] = pieces[n]
  <2>1. k \in 1 .. k
    BY <1>3
  <2> QED BY <1>2, <1>3, <2>1
<1>8. k - 1 = n - first
  BY DEF k
<1>9. Len(Joined(OnWire, rest)) = n - first + Len(pieces[n])
  BY <1>6, <1>7, <1>8, Zenon
<1> QED BY <1>2, <1>6, <1>9 DEF rest

\* The http4s client leaves out the empty segments at the start, and what Pekko takes for a
\* host is not in the path.
DropsStart(client, n, pieces) == client = "http4s" /\ n > 1 /\ pieces[2] = <<<<>>>>

Skips(client, n, pieces, onWire) ==
  \/ DropsStart(client, n, pieces)
  \/ client = "pekko" /\ Len(onWire) > 2 /\ onWire[2] = <<>>

\* The path of the request is that of the wire, but for what a client skips.
Requested(client, n, pieces, onWire, path) ==
  /\ path \in Seq(OnWire) /\ Len(path) >= 2 /\ path[1] = <<>>
  /\ Len(onWire) = 1 => path = <<<<>>, <<>>>>
  /\ Len(onWire) > 1 /\ ~Skips(client, n, pieces, onWire) => path = onWire
  /\ Skips(client, n, pieces, onWire) => path = <<<<>>, <<>>>> \/ Len(path) < Len(onWire)

LEMMA RequestPathIs ==
  ASSUME NEW client, NEW n \in Nat \ {0}, NEW pieces, NEW onWire,
         OnePiecePerPart(n, pieces, onWire), NEW path, path = RequestPath(client, pieces)
  PROVE  Requested(client, n, pieces, onWire, path)
<1>0. /\ pieces \in Seq(Seq(OnWire)) /\ Len(pieces) = n
      /\ pieces[1] = <<<<>>>>
      /\ \A i \in 1 .. n - 1 : Len(pieces[i]) = 1
      /\ Len(pieces[n]) >= 1
      /\ onWire \in Seq(OnWire) /\ onWire = Joined(OnWire, pieces)
      /\ Len(onWire) = n - 1 + Len(pieces[n])
      /\ onWire[1] = <<>>
  BY DEF OnePiecePerPart
<1> USE <1>0
<1> DEFINE written == IF client = "http4s"
                      THEN <<<<>>>> \o Joined(OnWire, DropLeadingEmpties(pieces)) ELSE onWire
           drops == client = "http4s" /\ n > 1 /\ pieces[2] = <<<<>>>>
           skips == Skips(client, n, pieces, onWire)
           sent == IF client = "pekko" /\ StartsWithAuthority(written)
                   THEN <<<<>>>> \o SubSeq(written, 4, Len(written)) ELSE written
<1>1. path = IF sent = <<<<>>>> THEN <<<<>>, <<>>>> ELSE sent
  BY DEF RequestPath, WrittenPath
<1>2. /\ written \in Seq(OnWire) /\ Len(written) >= 1 /\ written[1] = <<>>
      /\ ~drops => written = onWire
      /\ drops => written = <<<<>>>> \/ Len(written) < Len(onWire)
  <2>1. CASE client # "http4s"
    <3>1. Len(onWire) >= 1
      <4>1. Len(pieces[n]) \in Nat
        OBVIOUS
      <4> QED BY <4>1
    <3> QED BY <2>1, <3>1
  <2>2. CASE client = "http4s"
    <3> DEFINE first == FirstIndex(pieces, <<<<>>>>)
    <3>1. \/ first = 0 /\ \A i \in 1 .. Len(pieces) : pieces[i] = <<<<>>>>
          \/ first \in 1 .. Len(pieces) /\ pieces[first] # <<<<>>>>
             /\ \A i \in 1 .. first - 1 : pieces[i] = <<<<>>>>
      <4>1. Len(pieces) \in Nat
        OBVIOUS
      <4>2. PICK x : x = <<<<>>>>
        OBVIOUS
      <4>3. first = FirstIndex(pieces, x)
        BY <4>2
      <4> HIDE DEF first
      <4>4. \/ first = 0 /\ \A i \in 1 .. Len(pieces) : pieces[i] = x
            \/ first \in 1 .. Len(pieces) /\ pieces[first] # x
               /\ \A i \in 1 .. first - 1 : pieces[i] = x
        BY ONLY <4>1, <4>3, FirstOther
      <4> QED BY <4>2, <4>4
    <3>2. DropLeadingEmpties(pieces)
            = IF first = 0 THEN <<>> ELSE SubSeq(pieces, first, Len(pieces))
      BY DEF DropLeadingEmpties, SelectInSeq, FirstIndex
    <3> HIDE DEF first
    <3>3. CASE first = 0
      <4>1. written = <<<<>>>> \o <<>>
        BY <2>2, <3>2, <3>3, JoinedEmpty
      <4>2. <<<<>>>> \o <<>> = <<<<>>>>
        OBVIOUS
      <4>3. written = <<<<>>>>
        BY <4>1, <4>2
      <4>4. n = 1 => onWire = <<<<>>>>
        <5>1. \A s \in Seq(OnWire) : Len(s) = 1 /\ s[1] = <<>> => s = <<<<>>>>
          OBVIOUS
        <5>2. n = 1 => Len(onWire) = 1
          <6>1. \A i \in 1 .. n : pieces[i] = <<<<>>>>
            BY <3>1, <3>3
          <6>2. pieces[n] = <<<<>>>>
            BY <6>1
          <6> QED BY <6>2
        <5> QED BY <5>1, <5>2
      <4>5. n > 1 => pieces[2] = <<<<>>>>
        BY <3>1, <3>3
      <4>6. <<>> \in OnWire
        BY DEF OnWire
      <4> HIDE DEF written
      <4> QED BY <2>2, <4>3, <4>4, <4>5, <4>6
    <3>4. CASE first # 0
      <4>1. first \in 2 .. n /\ pieces[first] # <<<<>>>>
            /\ \A i \in 1 .. first - 1 : pieces[i] = <<<<>>>>
        <5>1. /\ first \in 1 .. n /\ pieces[first] # <<<<>>>>
              /\ \A i \in 1 .. first - 1 : pieces[i] = <<<<>>>>
          BY <1>0, <3>1, <3>4, Zenon
        <5>2. first # 1
          BY <1>0, <5>1, Zenon
        <5>3. \A k \in 1 .. n : k # 1 => k \in 2 .. n
          BY ONLY n \in Nat \ {0}
        <5> QED BY <5>1, <5>2, <5>3, Zenon
      <4> DEFINE rest == SubSeq(pieces, first, Len(pieces))
                 joined == Joined(OnWire, rest)
                 last == Len(pieces[n])
      <4>2. /\ rest \in Seq(Seq(OnWire)) /\ joined \in Seq(OnWire)
            /\ Len(joined) = n - first + last
        <5>1. first \in 1 .. n
          BY <4>1
        <5> QED BY <5>1, JoinedFrom
      <4>3. written = <<<<>>>> \o joined
        BY <2>2, <3>2, <3>4
      <4>4. CASE first = 2
        <5>1. pieces = <<pieces[1]>> \o rest
          <6>1. 1 \in 1 .. Len(pieces) /\ Len(pieces) \in 1 .. Len(pieces) /\ first = 1 + 1
            BY <4>4
          <6>2. SubSeq(pieces, 1, Len(pieces)) = pieces
            BY SubSeqFull
          <6>3. SubSeq(pieces, 1, Len(pieces))
                  = <<pieces[1]>> \o SubSeq(pieces, 1 + 1, Len(pieces))
            BY <6>1, SubSeqRecursiveFirst
          <6> QED BY <6>1, <6>2, <6>3
        <5>2. <<pieces[1]>> \in Seq(Seq(OnWire))
          OBVIOUS
        <5>3. Joined(OnWire, <<pieces[1]>>) = <<<<>>>>
          <6>1. <<>> \in Seq(Seq(OnWire)) /\ <<<<>>>> \in Seq(OnWire)
                /\ <<pieces[1]>> = Append(<<>>, <<<<>>>>)
            BY DEF OnWire
          <6>2. <<>> \o <<<<>>>> = <<<<>>>>
            OBVIOUS
          <6>3. Joined(OnWire, Append(<<>>, <<<<>>>>)) = Joined(OnWire, <<>>) \o <<<<>>>>
            BY <6>1, JoinedAppend
          <6> QED BY <6>1, <6>2, <6>3, JoinedEmpty
        <5>4. Joined(OnWire, <<pieces[1]>> \o rest)
                = Joined(OnWire, <<pieces[1]>>) \o Joined(OnWire, rest)
          BY <4>2, <5>2, JoinedConcat
        <5>5. written = onWire
          BY <4>3, <5>1, <5>3, <5>4
        <5>6. ~drops
          BY <4>1, <4>4
        <5>7. Len(onWire) >= 1
          <6>1. last \in Nat
            OBVIOUS
          <6> QED BY <6>1
        <5> QED BY <5>5, <5>6, <5>7
      <4>5. CASE first # 2
        <5>1. pieces[2] = <<<<>>>> /\ n > 1
          BY <4>1, <4>5
        <5> HIDE DEF rest, joined
        <5>2. /\ <<<<>>>> \o joined \in Seq(OnWire) /\ Len(<<<<>>>> \o joined) = 1 + Len(joined)
              /\ (<<<<>>>> \o joined)[1] = <<>>
          BY <4>2, Rooted
        <5>3. written \in Seq(OnWire) /\ Len(written) = 1 + Len(joined) /\ written[1] = <<>>
          BY <4>3, <5>2
        <5>4. 1 + Len(joined) >= 1 /\ 1 + Len(joined) < Len(onWire)
          <6>1. last \in Nat
            OBVIOUS
          <6>2. Len(joined) = n - first + last /\ Len(onWire) = n - 1 + last
            BY <4>2
          <6> HIDE DEF last
          <6>3. first \in 3 .. n
            BY <4>1, <4>5
          <6> QED BY <6>1, <6>2, <6>3, <4>2
        <5> HIDE DEF written
        <5> QED BY <2>2, <5>1, <5>3, <5>4
      <4> QED BY <4>4, <4>5
    <3> QED BY <3>3, <3>4
  <2> QED BY <2>1, <2>2
<1>3. \A s \in Seq(OnWire) : Len(s) \in Nat /\ (Len(s) = 1 /\ s[1] = <<>> => s = <<<<>>>>)
  OBVIOUS
<1>4. <<<<>>, <<>>>> \in Seq(OnWire) /\ Len(<<<<>>, <<>>>>) = 2 /\ (<<<<>>, <<>>>>)[1] = <<>>
  BY DEF OnWire
<1>5. skips => Len(onWire) > 1
  <2>1. Len(pieces[n]) \in Nat
    OBVIOUS
  <2> QED BY <2>1 DEF Skips, DropsStart
<1> HIDE DEF written
<1>6. /\ sent \in Seq(OnWire) /\ Len(sent) >= 1 /\ sent[1] = <<>>
      /\ ~skips => sent = onWire
      /\ skips => sent = <<<<>>>> \/ Len(sent) < Len(onWire)
  <2>1. CASE client = "pekko" /\ StartsWithAuthority(written)
    <3>1. written = onWire /\ ~drops /\ Len(onWire) > 2 /\ skips
      BY <1>2, <2>1 DEF StartsWithAuthority, Skips
    <3>2. PICK rest : rest = SubSeq(onWire, 4, Len(onWire))
      OBVIOUS
    <3>3. rest \in Seq(OnWire) /\ Len(rest) = IF 4 <= Len(onWire) THEN Len(onWire) - 3 ELSE 0
      <4>1. \A i \in 4 .. Len(onWire) : onWire[i] \in OnWire
        BY <1>3
      <4>2. /\ SubSeq(onWire, 4, Len(onWire)) \in Seq(OnWire)
            /\ Len(SubSeq(onWire, 4, Len(onWire)))
                 = IF 4 <= Len(onWire) THEN Len(onWire) - 4 + 1 ELSE 0
        BY <1>3, <4>1, SubSeqProperties
      <4> QED BY <1>3, <3>2, <4>2
    <3>4. sent = <<<<>>>> \o rest
      BY <2>1, <3>1, <3>2
    <3>5. sent \in Seq(OnWire) /\ Len(sent) = 1 + Len(rest) /\ sent[1] = <<>>
      BY <3>3, <3>4, Rooted
    <3>6. \A l, m \in Nat : l > 2 /\ m = (IF 4 <= l THEN l - 3 ELSE 0) => 1 <= 1 + m /\ 1 + m < l
      OBVIOUS
    <3>7. Len(rest) \in Nat /\ Len(onWire) \in Nat
      BY <1>3, <3>3
    <3> QED BY <3>1, <3>3, <3>5, <3>6, <3>7
  <2>2. CASE ~(client = "pekko" /\ StartsWithAuthority(written))
    <3>1. sent = written
      BY <2>2
    <3>2. skips <=> drops
      BY <1>2, <2>2 DEF Skips, DropsStart, StartsWithAuthority
    <3> QED BY <1>2, <3>1, <3>2
  <2> QED BY <2>1, <2>2
<1> HIDE DEF sent
<1>7. CASE sent = <<<<>>>>
  <2>1. Len(sent) = 1 /\ path = <<<<>>, <<>>>>
    BY <1>1, <1>7
  <2>2. ~skips => Len(onWire) = 1
    BY <1>6, <2>1
  <2> QED BY <1>4, <1>5, <2>1, <2>2 DEF Requested
<1>8. CASE sent # <<<<>>>>
  <2>1. path = sent
    BY <1>1, <1>8
  <2>2. Len(sent) >= 2
    <3>1. Len(sent) \in Nat /\ Len(sent) >= 1 /\ Len(sent) # 1
      BY <1>6, <1>3, <1>8
    <3>2. \A m \in Nat : m >= 1 /\ m # 1 => m >= 2
      OBVIOUS
    <3> QED BY <3>1, <3>2
  <2>3. Len(onWire) # 1
    BY <1>6, <1>5, <2>2
  <2> QED BY <1>6, <1>5, <1>8, <2>1, <2>2, <2>3 DEF Requested
<1> QED BY <1>7, <1>8

(***************************************************************************)
(* The segments that the server decodes.                                   *)
(***************************************************************************)
Root == <<<<>>, <<>>>>

LEMMA IsRoot ==
  /\ Root \in Seq(OnWire)
  /\ \A s \in Seq(OnWire) : s = Root <=> Len(s) = 2 /\ s[1] = <<>> /\ s[2] = <<>>
<1> DEFINE r == Root
<1>1. <<>> \in OnWire
  BY DEF OnWire
<1>2. r \in Seq(OnWire) /\ Len(r) = 2 /\ r[1] = <<>> /\ r[2] = <<>>
  BY <1>1 DEF Root
<1> HIDE DEF r
<1>3. ASSUME NEW s \in Seq(OnWire), Len(s) = 2, s[1] = <<>>, s[2] = <<>> PROVE s = r
  <2>1. \A i \in 1 .. 2 : s[i] = r[i]
    BY <1>2, <1>3
  <2> QED BY <1>2, <1>3, <2>1, SeqEqual
<1>4. \A s : s = r => Len(s) = 2 /\ s[1] = <<>> /\ s[2] = <<>>
  BY <1>2
<1> QED BY <1>2, <1>3, <1>4 DEF r

LEMMA RootTwice == <<<<>>>> \o <<<<>>>> = Root
<1> DEFINE root == <<<<>>>>
           two == <<<<>>>> \o root
<1>1. <<>> \in OnWire
  BY DEF OnWire
<1>2. root \in Seq(OnWire) /\ Len(root) = 1 /\ root[1] = <<>>
  BY <1>1
<1> HIDE DEF root
<1>3. /\ two \in Seq(OnWire) /\ Len(two) = 1 + Len(root) /\ two[1] = <<>>
      /\ \A i \in 1 .. Len(root) : two[1 + i] = root[i]
  BY <1>2, Rooted
<1> HIDE DEF two
<1>4. Len(two) = 2 /\ two[2] = <<>>
  BY <1>2, <1>3
<1>5. two = Root
  BY <1>3, <1>4, IsRoot
<1> QED BY <1>5 DEF two, root

\* A path with an empty segment that the server does not keep.
LosesEmpty(server, path) ==
  \E i \in 2 .. Len(path) - 1 :
    path[i] = <<>> /\ (server = "pekko" \/ (i + 1 = Len(path) /\ path[i + 1] = <<>>))

Decoded(server, text) == IF server = "http4s" THEN FormDecoded(text) ELSE Unescaped(text)

LEMMA Http4sSegmentsAre ==
  ASSUME NEW path \in Seq(OnWire), NEW m \in Nat, Len(path) = m, m >= 2, path[1] = <<>>
  PROVE  LET segments == Http4sSegments(path) IN
         /\ segments \in Seq(Text)
         /\ path = Root => Len(segments) = 1 /\ segments[1] = <<>>
         /\ path # Root /\ LosesEmpty("http4s", path) => Len(segments) < m
         /\ path # Root /\ ~LosesEmpty("http4s", path) =>
              Len(segments) = m /\ \A k \in 1 .. m : segments[k] = FormDecoded(path[k])
<1> DEFINE last == LastIndex(path, <<>>)
           front == SubSeq(path, 1, last)
           slash == IF path[m] = <<>> THEN <<<<>>>> ELSE <<>>
           kept == front \o slash
           D == Http4sSegments(path)
<1>1. \/ last = 0 /\ \A i \in 1 .. m : path[i] = <<>>
      \/ last \in 1 .. m /\ path[last] # <<>> /\ \A i \in last + 1 .. m : path[i] = <<>>
  <2>1. PICK x : x = <<>>
    OBVIOUS
  <2>2. last = LastIndex(path, x) /\ Len(path) \in Nat
    BY <2>1
  <2> HIDE DEF last
  <2>3. \/ last = 0 /\ \A i \in 1 .. Len(path) : path[i] = x
        \/ last \in 1 .. Len(path) /\ path[last] # x
           /\ \A i \in last + 1 .. Len(path) : path[i] = x
    BY ONLY <2>2, LastOther
  <2> QED BY <2>1, <2>3
<1>2. D = [i \in DOMAIN kept |-> FormDecoded(kept[i])]
  <2>1. EndsWithSlash(path) <=> path[m] = <<>>
    BY DEF EndsWithSlash, Last
  <2>2. DropTrailingEmpties(path) = front
    BY DEF DropTrailingEmpties, SelectLastInSeq, LastIndex
  <2>3. (IF EndsWithSlash(path) THEN <<<<>>>> ELSE <<>>) = slash
    BY <2>1
  <2>4. kept = DropTrailingEmpties(path) \o (IF EndsWithSlash(path) THEN <<<<>>>> ELSE <<>>)
    BY <2>2, <2>3
  <2> HIDE DEF kept
  <2> QED BY <2>4 DEF Http4sSegments
<1> HIDE DEF last, D
<1>3. last \in 0 .. m
  BY <1>1
<1>4. front \in Seq(OnWire) /\ Len(front) = last /\ \A i \in 1 .. last : front[i] = path[i]
  <2>1. \A i \in 1 .. last : path[i] \in OnWire
    BY <1>3
  <2> QED BY <1>3, <2>1, SubSeqProperties
<1>5. /\ slash \in Seq(OnWire) /\ Len(slash) = IF path[m] = <<>> THEN 1 ELSE 0
      /\ path[m] = <<>> => slash[1] = <<>>
  <2>1. <<>> \in OnWire
    BY DEF OnWire
  <2>2. CASE path[m] = <<>>
    BY <2>1, <2>2
  <2>3. CASE path[m] # <<>>
    BY <2>3
  <2> QED BY <2>2, <2>3
<1> HIDE DEF front, slash
<1>6. /\ kept \in Seq(OnWire) /\ Len(kept) = last + Len(slash)
      /\ \A i \in 1 .. last : kept[i] = path[i]
      /\ path[m] = <<>> => kept[last + 1] = <<>>
  <2>1. /\ kept \in Seq(OnWire) /\ Len(kept) = Len(front) + Len(slash)
        /\ \A i \in 1 .. Len(front) : kept[i] = front[i]
        /\ \A i \in 1 .. Len(slash) : kept[Len(front) + i] = slash[i]
    <3>1. front \in Seq(OnWire) /\ slash \in Seq(OnWire)
      BY <1>4, <1>5
    <3> QED BY <3>1
  <2> QED BY <1>3, <1>4, <1>5, <2>1
<1> HIDE DEF kept
<1>7. /\ DOMAIN kept = 1 .. Len(kept) /\ Len(kept) \in Nat
      /\ \A i \in 1 .. Len(kept) : kept[i] \in OnWire
  BY <1>6
<1>8. D \in Seq(Text) /\ Len(D) = Len(kept) /\ \A i \in 1 .. Len(kept) : D[i] = FormDecoded(kept[i])
  <2>1. \A i \in 1 .. Len(kept) : FormDecoded(kept[i]) \in Text
    BY <1>7, DecodedText
  <2>2. [i \in 1 .. Len(kept) |-> FormDecoded(kept[i])] \in Seq(Text)
    BY <1>7, <2>1
  <2> QED BY <1>2, <1>7, <2>2
<1>9. CASE path[m] # <<>>
  <2>1. last = m /\ Len(kept) = m
    BY <1>1, <1>5, <1>6, <1>9
  <2>2. ~LosesEmpty("http4s", path) /\ path # Root
    BY <1>9 DEF LosesEmpty, Root
  <2> QED BY <1>6, <1>8, <2>1, <2>2 DEF D
<1>10. CASE path[m] = <<>>
  <2>1. Len(kept) = last + 1 /\ last < m
    BY <1>1, <1>3, <1>5, <1>6, <1>10
  <2>2. CASE last = m - 1
    <3>1. m >= 3 /\ path[m - 1] # <<>>
      BY <1>1, <2>2
    <3>2. ~LosesEmpty("http4s", path) /\ path # Root
      BY <3>1 DEF LosesEmpty, Root
    <3>3. \A k \in 1 .. m : kept[k] = path[k]
      BY <1>6, <1>10, <2>2
    <3> QED BY <1>8, <2>1, <2>2, <3>2, <3>3 DEF D
  <2>3. CASE last < m - 1 /\ m >= 3
    <3>1. path[m - 1] = <<>> /\ m - 1 \in 2 .. m - 1 /\ m - 1 + 1 = m
      BY <1>1, <1>3, <2>3
    <3>2. LosesEmpty("http4s", path) /\ path # Root
      <4>1. LosesEmpty("http4s", path)
        BY <1>10, <3>1 DEF LosesEmpty
      <4>2. path # Root
        <5>1. Len(path) # 2
          BY <2>3
        <5>2. path = Root => Len(path) = 2
          BY IsRoot
        <5> QED BY <5>1, <5>2
      <4> QED BY <4>1, <4>2
    <3>3. Len(D) < m
      BY <1>3, <1>8, <2>1, <2>3
    <3> QED BY <1>8, <3>2, <3>3 DEF D
  <2>4. CASE last < m - 1 /\ m = 2
    <3>1. last = 0 /\ Len(kept) = 1 /\ kept[1] = <<>>
      BY <1>3, <1>6, <1>10, <2>1, <2>4
    <3>2. path = Root
      BY <1>10, <2>4 DEF Root
    <3>3. <<>> \in OnWire /\ FormDecoded(<<>>) = <<>>
      BY DecodedText DEF OnWire
    <3> QED BY <1>8, <3>1, <3>2, <3>3 DEF D
  <2> QED BY <1>3, <2>1, <2>2, <2>3, <2>4
<1> QED BY <1>9, <1>10

LEMMA PekkoSegmentsAre ==
  ASSUME NEW path \in Seq(OnWire), NEW m \in Nat, Len(path) = m, m >= 2, path[1] = <<>>
  PROVE  LET segments == PekkoSegments(path) IN
         /\ segments \in Seq(Text)
         /\ path = Root => Len(segments) = 1 /\ segments[1] = <<>>
         /\ path # Root /\ LosesEmpty("pekko", path) => Len(segments) < m
         /\ path # Root /\ ~LosesEmpty("pekko", path) =>
              Len(segments) = m /\ \A k \in 1 .. m : segments[k] = Unescaped(path[k])
<1> DEFINE ends == path[m] = <<>>
           inner == IF ends THEN Front(Tail(path)) ELSE Tail(path)
           matched == IF inner = <<<<>>>> THEN <<>> ELSE inner
           slash == IF ends /\ path # Root THEN <<<<>>>> ELSE <<>>
           decoded == [i \in DOMAIN matched |-> Unescaped(matched[i])]
           D == PekkoSegments(path)
           l == IF ends THEN m - 2 ELSE m - 1
           empty == \E i \in DOMAIN matched : matched[i] = <<>>
<1>1. EndsWithSlash(path) <=> ends
  BY DEF EndsWithSlash, Last
<1>2. D = IF empty THEN <<>> ELSE <<<<>>>> \o decoded \o slash
  BY <1>1 DEF PekkoSegments, Root
<1>3. /\ inner \in Seq(OnWire) /\ Len(inner) = l
      /\ \A i \in 1 .. l : inner[i] = path[i + 1]
  <2>1. /\ Tail(path) \in Seq(OnWire) /\ Len(Tail(path)) = m - 1
        /\ \A i \in 1 .. m - 1 : Tail(path)[i] = path[i + 1]
    <3>1. path # <<>>
      OBVIOUS
    <3> QED BY <3>1, HeadTailProperties
  <2> DEFINE tail == Tail(path)
  <2> HIDE DEF tail
  <2>2. \A i \in 1 .. m - 2 : tail[i] \in OnWire
    BY <2>1 DEF tail
  <2>3. /\ SubSeq(tail, 1, m - 2) \in Seq(OnWire) /\ Len(SubSeq(tail, 1, m - 2)) = m - 2
        /\ \A i \in 1 .. m - 2 : SubSeq(tail, 1, m - 2)[i] = tail[i]
    BY <2>2, SubSeqProperties
  <2>4. Front(tail) = SubSeq(tail, 1, m - 2)
    <3>1. Len(tail) - 1 = m - 2
      BY <2>1 DEF tail
    <3> QED BY <3>1 DEF Front
  <2>5. CASE ends
    <3>1. inner = SubSeq(tail, 1, m - 2) /\ l = m - 2
      BY <2>4, <2>5 DEF tail
    <3>2. \A i \in 1 .. m - 2 : tail[i] = path[i + 1]
      BY <2>1 DEF tail
    <3> HIDE DEF inner, l
    <3> QED BY <2>3, <3>1, <3>2
  <2>6. CASE ~ends
    <3>1. inner = tail /\ l = m - 1
      BY <2>6 DEF tail
    <3> HIDE DEF inner, l
    <3> QED BY <2>1, <3>1 DEF tail
  <2> QED BY <2>5, <2>6
<1>4. l \in Nat /\ (ends => l = m - 2) /\ (~ends => l = m - 1)
  OBVIOUS
<1>5. /\ <<>> \in OnWire /\ <<>> \in Text /\ Unescaped(<<>>) = <<>>
      /\ \A s \in Seq(OnWire) : s = <<<<>>>> <=> Len(s) = 1 /\ s[1] = <<>>
  <2>1. <<>> \in OnWire
    BY DEF OnWire
  <2>2. Unescaped(<<>>) = <<>> /\ Unescaped(<<>>) \in Text
    BY <2>1, DecodedText
  <2> QED BY <2>1, <2>2
<1>6. path = Root <=> m = 2 /\ ends
  BY IsRoot
<1> HIDE DEF inner, l, D, ends
<1>7. CASE path = Root
  <2>1. l = 0 /\ inner = <<>>
    BY <1>3, <1>4, <1>6, <1>7
  <2>2. matched = <<>> /\ slash = <<>>
    BY <2>1, <1>7
  <2> HIDE DEF matched, slash
  <2>3. ~empty /\ decoded = <<>>
    BY <2>2
  <2>4. <<<<>>>> \o <<>> \o <<>> = <<<<>>>>
    OBVIOUS
  <2>5. D = <<<<>>>>
    BY <1>2, <2>2, <2>3, <2>4
  <2> QED BY <1>5, <1>7, <2>5 DEF D
<1>8. CASE path # Root /\ inner = <<<<>>>>
  <2>1. l = 1 /\ path[2] = <<>>
    BY <1>3, <1>5, <1>8
  <2>2. ends /\ m = 3
    BY <1>4, <1>6, <2>1 DEF ends
  <2>3. LosesEmpty("pekko", path)
    BY <2>1, <2>2 DEF LosesEmpty
  <2>4. matched = <<>> /\ slash = <<<<>>>>
    BY <1>8, <2>2
  <2> HIDE DEF matched, slash
  <2>5. ~empty /\ decoded = <<>>
    BY <2>4
  <2>6. <<<<>>>> \o <<>> \o <<<<>>>> = Root
    <3>1. <<<<>>>> \o <<>> = <<<<>>>>
      OBVIOUS
    <3> QED BY <3>1, RootTwice
  <2>7. D = Root
    BY <1>2, <2>4, <2>5, <2>6
  <2>8. Root \in Seq(Text) /\ Len(Root) = 2
    BY <1>5 DEF Root
  <2> QED BY <1>8, <2>2, <2>3, <2>7, <2>8 DEF D
<1>9. CASE path # Root /\ inner # <<<<>>>>
  <2>1. matched = inner
    BY <1>9
  <2> HIDE DEF matched
  <2>2. DOMAIN matched = 1 .. l
    BY <1>3, <1>4, <2>1
  <2>3. empty <=> LosesEmpty("pekko", path)
    <3>1. ASSUME empty PROVE LosesEmpty("pekko", path)
      <4>1. PICK i \in 1 .. l : path[i + 1] = <<>>
        BY <1>3, <2>1, <2>2, <3>1
      <4>2. i + 1 \in 2 .. m - 1
        BY <1>4, <4>1 DEF ends
      <4> QED BY <4>1, <4>2 DEF LosesEmpty
    <3>2. ASSUME LosesEmpty("pekko", path) PROVE empty
      <4>1. PICK i \in 2 .. m - 1 : path[i] = <<>>
        BY <3>2 DEF LosesEmpty
      <4>2. i - 1 \in 1 .. l /\ i - 1 + 1 = i
        BY <1>4
      <4>3. matched[i - 1] = <<>>
        BY <1>3, <2>1, <4>1, <4>2
      <4> QED BY <2>2, <4>2, <4>3
    <3> QED BY <3>1, <3>2
  <2>4. CASE empty
    <3>1. D = <<>>
      BY <1>2, <2>4
    <3> QED BY <1>9, <2>3, <2>4, <3>1 DEF D
  <2>5. CASE ~empty
    <3>1. /\ decoded \in Seq(Text) /\ Len(decoded) = l
          /\ \A i \in 1 .. l : decoded[i] = Unescaped(path[i + 1])
      <4>1. \A i \in 1 .. l : matched[i] = path[i + 1] /\ Unescaped(path[i + 1]) \in Text
        <5>1. \A i \in 1 .. l : inner[i] \in OnWire
          BY <1>3, <1>4
        <5> QED BY <1>3, <2>1, <5>1, DecodedText
      <4>2. decoded = [i \in 1 .. l |-> Unescaped(path[i + 1])]
        BY <2>2, <4>1
      <4>3. [i \in 1 .. l |-> Unescaped(path[i + 1])] \in Seq(Text)
        <5>1. \A i \in 1 .. l : Unescaped(path[i + 1]) \in Text
          BY <4>1
        <5> QED BY ONLY <1>4, <5>1
      <4> QED BY <1>4, <4>2, <4>3
    <3>2. /\ slash \in Seq(Text) /\ Len(slash) = (IF ends THEN 1 ELSE 0)
          /\ ends => slash[1] = <<>>
      <4>1. CASE ends
        BY <1>5, <1>9, <4>1
      <4>2. CASE ~ends
        BY <4>2
      <4> QED BY <4>1, <4>2
    <3> DEFINE root == <<<<>>>>
    <3>3. root \in Seq(Text) /\ Len(root) = 1 /\ root[1] = <<>>
      BY <1>5
    <3>4. D = root \o decoded \o slash
      BY <1>2, <2>5
    <3> HIDE DEF root, decoded, slash
    <3> DEFINE front == root \o decoded
    <3>5. /\ front \in Seq(Text) /\ Len(front) = 1 + l /\ front[1] = <<>>
          /\ \A i \in 1 .. l : front[1 + i] = decoded[i]
      <4>1. /\ front \in Seq(Text) /\ Len(front) = Len(root) + Len(decoded)
            /\ \A i \in 1 .. Len(root) : front[i] = root[i]
            /\ \A i \in 1 .. Len(decoded) : front[Len(root) + i] = decoded[i]
        <5>1. root \in Seq(Text) /\ decoded \in Seq(Text)
          BY <3>1, <3>3
        <5> QED BY <5>1
      <4> QED BY <3>1, <3>3, <4>1
    <3> HIDE DEF front
    <3>6. /\ D \in Seq(Text) /\ Len(D) = Len(front) + Len(slash)
          /\ \A i \in 1 .. Len(front) : D[i] = front[i]
          /\ \A i \in 1 .. Len(slash) : D[Len(front) + i] = slash[i]
      <4>1. front \in Seq(Text) /\ slash \in Seq(Text) /\ D = front \o slash
        BY <3>2, <3>4, <3>5 DEF front
      <4> QED BY <4>1
    <3>7. Len(D) = m
      BY <1>4, <3>2, <3>5, <3>6
    <3>8. ASSUME NEW k \in 1 .. m PROVE D[k] = Unescaped(path[k])
      <4>1. CASE k = 1
        BY <4>1, <1>4, <1>5, <3>5, <3>6
      <4>2. CASE k \in 2 .. 1 + l
        <5>1. k - 1 \in 1 .. l /\ 1 + (k - 1) = k /\ (k - 1) + 1 = k /\ k \in 1 .. Len(front)
          BY <4>2, <1>4, <3>5
        <5>2. D[k] = decoded[k - 1]
          BY <5>1, <3>5, <3>6
        <5> QED BY <5>1, <5>2, <3>1
      <4>3. CASE k = m /\ ends
        <5>1. m = Len(front) + 1 /\ 1 \in 1 .. Len(slash)
          BY <4>3, <1>4, <3>2, <3>5
        <5>2. D[k] = <<>>
          BY <4>3, <5>1, <3>2, <3>6
        <5>3. path[k] = <<>>
          BY <4>3 DEF ends
        <5> QED BY <5>2, <5>3, <1>5
      <4> QED BY <4>1, <4>2, <4>3, <1>4
    <3> QED BY <1>9, <2>3, <2>5, <3>6, <3>7, <3>8 DEF D
  <2> QED BY <2>4, <2>5
<1> QED BY <1>7, <1>8, <1>9

(***************************************************************************)
(* What the parts decode.                                                  *)
(***************************************************************************)
\* What a part carries of the segments that are left.
Taken(part, rest) ==
  CASE part.kind = "static"    -> <<>>
    [] part.kind = "segment"   -> Head(rest)
    [] part.kind = "remaining" -> [i \in DOMAIN rest |-> FormEncoded(rest[i])]

LEMMA TakenType ==
  ASSUME NEW part \in Parts, NEW rest \in Seq(Text), rest # <<>>
  PROVE  Taken(part, rest) \in Text \cup Seq(OnWire)
<1>1. part.kind \in {"static", "segment", "remaining"}
  BY DEF Parts
<1>2. CASE part.kind = "static"
  BY <1>2 DEF Taken, Text
<1>3. CASE part.kind = "segment"
  BY <1>3 DEF Taken
<1>4. CASE part.kind = "remaining"
  <2>1. DOMAIN rest = 1 .. Len(rest) /\ Len(rest) \in Nat
        /\ \A i \in 1 .. Len(rest) : rest[i] \in Text
    OBVIOUS
  <2>2. \A i \in 1 .. Len(rest) : FormEncoded(rest[i]) \in OnWire
    BY <2>1, EncodedText
  <2>3. [i \in 1 .. Len(rest) |-> FormEncoded(rest[i])] \in Seq(OnWire)
    BY <2>1, <2>2
  <2> QED BY <1>4, <2>1, <2>3 DEF Taken
<1> QED BY <1>1, <1>2, <1>3, <1>4

LEMMA DecodePartIs ==
  ASSUME NEW part \in Parts, NEW d \in Decoding, NEW e, e = DecodePart(part, d)
  PROVE  /\ e \in Decoding
         /\ e.matched <=> d.matched /\ d.rest # <<>>
                           /\ (part.kind = "static" => Head(d.rest) = part.text)
         /\ e.matched => /\ e.carried = Append(d.carried, Taken(part, d.rest))
                         /\ e.rest = IF part.kind = "remaining" THEN <<>> ELSE Tail(d.rest)
<1> DEFINE stops == ~d.matched \/ d.rest = <<>>
                    \/ (part.kind = "static" /\ Head(d.rest) # part.text)
<1>1. d.matched \in BOOLEAN /\ d.carried \in Seq(Text \cup Seq(OnWire)) /\ d.rest \in Seq(Text)
  BY DEF Decoding
<1>2. CASE stops
  <2>1. e = [d EXCEPT !.matched = FALSE]
    BY <1>2 DEF DecodePart
  <2>2. e \in Decoding /\ ~e.matched
    BY <2>1 DEF Decoding
  <2> QED BY <1>2, <2>2
<1>3. CASE ~stops
  <2>1. e = [matched |-> TRUE, carried |-> Append(d.carried, Taken(part, d.rest)),
             rest |-> IF part.kind = "remaining" THEN <<>> ELSE Tail(d.rest)]
    BY <1>3 DEF DecodePart, Taken
  <2>2. Append(d.carried, Taken(part, d.rest)) \in Seq(Text \cup Seq(OnWire))
    <3>1. Taken(part, d.rest) \in Text \cup Seq(OnWire)
      BY <1>1, <1>3, TakenType
    <3> QED BY <1>1, <3>1
  <2>3. Tail(d.rest) \in Seq(Text) /\ <<>> \in Seq(Text)
    BY <1>1, <1>3
  <2>4. e \in Decoding
    BY <2>1, <2>2, <2>3 DEF Decoding
  <2> QED BY <1>3, <2>1, <2>4
<1> QED BY <1>2, <1>3

\* The decoding of the first k parts.
Step == [d \in Decoding |-> [part \in Parts |-> DecodePart(part, d)]]
Start(segments) == [matched |-> TRUE, carried |-> <<>>, rest |-> segments]
Run(parts, segments, k) == Folded(Step, Start(segments), SubSeq(parts, 1, k))

LEMMA RunIs ==
  ASSUME NEW parts \in Seq(Parts), NEW segments \in Seq(Text)
  PROVE  /\ Run(parts, segments, 0) = Start(segments)
         /\ \A k \in 0 .. Len(parts) : Run(parts, segments, k) \in Decoding
         /\ \A k \in 0 .. Len(parts) - 1 :
              Run(parts, segments, k + 1) = DecodePart(parts[k + 1], Run(parts, segments, k))
         /\ DecodeParts(parts, segments) = Run(parts, segments, Len(parts))
<1>1. Start(segments) \in Decoding
  BY DEF Start, Decoding
<1>2. \A d \in Decoding : \A part \in Parts :
        Step[d][part] = DecodePart(part, d) /\ Step[d][part] \in Decoding
  BY DecodePartIs DEF Step
<1>3. \A s \in Seq(Parts) : Folded(Step, Start(segments), s) \in Decoding
  BY <1>1, <1>2, FoldedIn
<1>4. \A k \in 0 .. Len(parts) : SubSeq(parts, 1, k) \in Seq(Parts)
  OBVIOUS
<1>5. \A k \in 0 .. Len(parts) : Run(parts, segments, k) \in Decoding
  BY <1>3, <1>4 DEF Run
<1>6. ASSUME NEW k \in 0 .. Len(parts) - 1
      PROVE  Run(parts, segments, k + 1) = DecodePart(parts[k + 1], Run(parts, segments, k))
  <2>1. /\ k \in 0 .. Len(parts) /\ k + 1 \in 1 .. Len(parts) /\ parts[k + 1] \in Parts
        /\ SubSeq(parts, 1, k + 1) = Append(SubSeq(parts, 1, k), parts[k + 1])
    OBVIOUS
  <2>2. Folded(Step, Start(segments), Append(SubSeq(parts, 1, k), parts[k + 1]))
          = Step[Folded(Step, Start(segments), SubSeq(parts, 1, k))][parts[k + 1]]
    <3>1. PICK s \in Seq(Parts), c \in Parts : s = SubSeq(parts, 1, k) /\ c = parts[k + 1]
      BY <1>4, <2>1
    <3>2. Folded(Step, Start(segments), Append(s, c)) = Step[Folded(Step, Start(segments), s)][c]
      BY FoldedAppend
    <3> QED BY <3>1, <3>2
  <2> QED BY <1>2, <1>5, <2>1, <2>2 DEF Run
<1>7. Run(parts, segments, 0) = Start(segments)
  <2>1. SubSeq(parts, 1, 0) = <<>>
    OBVIOUS
  <2> QED BY <2>1, FoldedEmpty DEF Run
<1>8. DecodeParts(parts, segments) = Run(parts, segments, Len(parts))
  <2>1. SubSeq(parts, 1, Len(parts)) = parts
    BY SubSeqFull
  <2> QED BY <2>1 DEF Run, DecodeParts, Step, Start
<1> QED BY <1>5, <1>6, <1>7, <1>8

\* Before the remaining segments, a part decodes the segment in its place.
LEMMA RunBefore ==
  ASSUME NEW parts \in Seq(Parts), NEW segments \in Seq(Text), NEW m \in 0 .. Len(parts),
         \A i \in 1 .. m : parts[i].kind # "remaining"
  PROVE  LET d == Run(parts, segments, m) IN
         /\ d.matched <=> m <= Len(segments)
                          /\ \A i \in 1 .. m : parts[i].kind = "static" => segments[i] = parts[i].text
         /\ d.matched =>
              /\ Len(d.carried) = m
              /\ \A i \in 1 .. m : d.carried[i] = IF parts[i].kind = "static" THEN <<>> ELSE segments[i]
              /\ Len(d.rest) = Len(segments) - m
              /\ \A j \in 1 .. Len(segments) - m : d.rest[j] = segments[m + j]
<1> DEFINE R(k) == Run(parts, segments, k)
           Matches(k) == /\ k <= Len(segments)
                         /\ \A i \in 1 .. k : parts[i].kind = "static" => segments[i] = parts[i].text
           Has(k) == /\ Len(R(k).carried) = k
                     /\ \A i \in 1 .. k :
                          R(k).carried[i] = IF parts[i].kind = "static" THEN <<>> ELSE segments[i]
                     /\ Len(R(k).rest) = Len(segments) - k
                     /\ \A j \in 1 .. Len(segments) - k : R(k).rest[j] = segments[k + j]
           Good(k) == k <= m => (R(k).matched <=> Matches(k)) /\ (R(k).matched => Has(k))
           G == {k \in Nat : Good(k)}
<1>1. Len(segments) \in Nat /\ Len(parts) \in Nat /\ m \in Nat /\ m <= Len(parts)
  OBVIOUS
<1>2. 0 \in G
  <2>1. R(0) = Start(segments)
    BY RunIs
  <2>2. R(0).matched = TRUE /\ R(0).carried = <<>> /\ R(0).rest = segments
    BY <2>1 DEF Start
  <2> HIDE DEF R
  <2>3. Matches(0)
    BY <1>1
  <2>4. Has(0)
    BY <1>1, <2>2
  <2> QED BY <2>2, <2>3, <2>4
<1>3. ASSUME NEW k \in Nat, k \in G PROVE k + 1 \in G
  <2>0. Good(k)
    BY <1>3
  <2> SUFFICES Good(k + 1)
    <3> HIDE DEF Good
    <3> QED OBVIOUS
  <2> SUFFICES ASSUME k + 1 <= m
               PROVE  (R(k + 1).matched <=> Matches(k + 1)) /\ (R(k + 1).matched => Has(k + 1))
    OBVIOUS
  <2> DEFINE d == R(k)
             e == R(k + 1)
             part == parts[k + 1]
  <2>1. /\ k \in 0 .. Len(parts) - 1 /\ k + 1 \in 1 .. m /\ k \in 0 .. Len(parts)
        /\ part \in Parts /\ part.kind # "remaining"
    BY <1>1
  <2>2. e = DecodePart(part, d) /\ d \in Decoding
    BY <2>1, RunIs
  <2>3. (d.matched <=> Matches(k)) /\ (d.matched => Has(k))
    <3>1. k <= m
      BY <1>1
    <3> QED BY <2>0, <3>1, Zenon
  <2>4. part.kind \in {"static", "segment"}
    BY <2>1 DEF Parts
  <2> HIDE DEF R, part
  <2>5. /\ e.matched <=> d.matched /\ d.rest # <<>>
                           /\ (part.kind = "static" => Head(d.rest) = part.text)
        /\ e.matched => /\ e.carried = Append(d.carried, Taken(part, d.rest))
                        /\ e.rest = Tail(d.rest)
    <3>1. PICK p \in Parts, c \in Decoding, f \in {e} : p = part /\ c = d /\ f = e
      BY <2>1, <2>2
    <3>2. f = DecodePart(p, c) /\ p.kind # "remaining"
      BY <3>1, <2>1, <2>2
    <3>3. /\ f.matched <=> c.matched /\ c.rest # <<>>
                           /\ (p.kind = "static" => Head(c.rest) = p.text)
          /\ f.matched => /\ f.carried = Append(c.carried, Taken(p, c.rest))
                          /\ f.rest = Tail(c.rest)
      BY <3>2, DecodePartIs
    <3> QED BY <3>1, <3>3
  <2>6. d.carried \in Seq(Text \cup Seq(OnWire)) /\ d.rest \in Seq(Text)
    BY <2>2 DEF Decoding
  <2> DEFINE rest == d.rest
             carried == d.carried
  <2>7. Matches(k) => Len(rest) = Len(segments) - k /\ Len(carried) = k
                      /\ (\A i \in 1 .. k :
                            carried[i] = IF parts[i].kind = "static" THEN <<>> ELSE segments[i])
                      /\ \A j \in 1 .. Len(segments) - k : rest[j] = segments[k + j]
    BY <2>3
  <2>8. rest \in Seq(Text) /\ carried \in Seq(Text \cup Seq(OnWire))
    BY <2>6
  <2>9. e.matched <=> Matches(k) /\ rest # <<>> /\ (part.kind = "static" => Head(rest) = part.text)
    BY <2>3, <2>5
  <2>10. e.matched => e.carried = Append(carried, Taken(part, rest)) /\ e.rest = Tail(rest)
    BY <2>5
  <2> HIDE DEF d, e, rest, carried
  <2>11. Matches(k + 1) <=> /\ Matches(k) /\ k + 1 <= Len(segments)
                            /\ (part.kind = "static" => segments[k + 1] = part.text)
    BY <1>1 DEF part
  <2> HIDE DEF Matches
  <2>12. Matches(k) => (rest # <<>> <=> k + 1 <= Len(segments))
    <3>1. rest # <<>> <=> Len(rest) >= 1
      BY <2>8
    <3>2. \A l \in Nat : l - k >= 1 <=> k + 1 <= l
      OBVIOUS
    <3> QED BY <1>1, <2>7, <3>1, <3>2
  <2>13. Matches(k) /\ rest # <<>> => Head(rest) = segments[k + 1]
    <3>1. rest # <<>> => Head(rest) = rest[1] /\ Len(rest) >= 1
      BY <2>8
    <3>2. Matches(k) /\ rest # <<>> => 1 \in 1 .. Len(segments) - k
      BY <1>1, <2>7, <3>1
    <3> QED BY <2>7, <3>1, <3>2
  <2>14. e.matched <=> Matches(k + 1)
    BY <2>9, <2>11, <2>12, <2>13
  <2>15. ASSUME e.matched PROVE Has(k + 1)
    <3>1. /\ Matches(k) /\ rest # <<>> /\ e.carried = Append(carried, Taken(part, rest))
          /\ e.rest = Tail(rest) /\ Head(rest) = segments[k + 1]
      BY <2>9, <2>10, <2>13, <2>15
    <3>2. Taken(part, rest) = IF part.kind = "static" THEN <<>> ELSE segments[k + 1]
      BY <2>4, <3>1 DEF Taken
    <3>3. Taken(part, rest) \in Text \cup Seq(OnWire)
      BY <2>1, <2>8, <3>1, TakenType
    <3>4. /\ Len(e.carried) = k + 1 /\ e.carried[k + 1] = Taken(part, rest)
          /\ \A i \in 1 .. k : e.carried[i] = carried[i]
      <4> DEFINE T == Text \cup Seq(OnWire)
      <4>1. carried \in Seq(T) /\ Taken(part, rest) \in T /\ Len(carried) = k
        BY <2>7, <2>8, <3>1, <3>3
      <4> HIDE DEF T
      <4>2. \A s \in Seq(T) : \A x \in T :
              /\ Len(Append(s, x)) = Len(s) + 1 /\ Append(s, x)[Len(s) + 1] = x
              /\ \A i \in 1 .. Len(s) : Append(s, x)[i] = s[i]
        OBVIOUS
      <4> QED BY <3>1, <4>1, <4>2
    <3>5. /\ Len(e.rest) = Len(rest) - 1 /\ \A j \in 1 .. Len(rest) - 1 : e.rest[j] = rest[j + 1]
      BY <2>8, <3>1
    <3>6. \A i \in 1 .. k + 1 :
            e.carried[i] = IF parts[i].kind = "static" THEN <<>> ELSE segments[i]
      BY <2>7, <3>1, <3>2, <3>4 DEF part
    <3>7. /\ Len(e.rest) = Len(segments) - (k + 1)
          /\ \A j \in 1 .. Len(segments) - (k + 1) : e.rest[j] = segments[k + 1 + j]
      <4>1. Len(rest) = Len(segments) - k
            /\ \A j \in 1 .. Len(segments) - k : rest[j] = segments[k + j]
        BY <2>7, <3>1
      <4>2. \A j \in 1 .. Len(segments) - (k + 1) :
              j + 1 \in 1 .. Len(segments) - k /\ k + (j + 1) = k + 1 + j /\ j \in 1 .. Len(rest) - 1
        BY <1>1, <4>1
      <4> QED BY <1>1, <3>5, <4>1, <4>2
    <3> QED BY <3>4, <3>6, <3>7 DEF e
  <2> QED BY <2>14, <2>15 DEF e
<1> HIDE DEF G
<1>4. m \in G
  BY <1>1, <1>2, <1>3, EveryNatural
<1> HIDE DEF Good
<1>5. Good(m)
  BY <1>4 DEF G
<1> QED BY <1>1, <1>5 DEF Good

\* What a part means that carries this.
MeantPart(part, carried) ==
  IF part.kind = "remaining" THEN [j \in DOMAIN carried |-> FormDecoded(carried[j])] ELSE carried

\* The decoded segments are the wanted ones.
Arrived(url, value, segments) ==
  LET n == Len(url.path)
      last == Wanted(url.path[n], value.path[n])
  IN  /\ Len(segments) = n - 1 + Len(last)
      /\ \A i \in 1 .. n - 1 : segments[i] = Wanted(url.path[i], value.path[i])[1]
      /\ \A j \in 1 .. Len(last) : segments[n - 1 + j] = last[j]

LEMMA TakenMeans ==
  ASSUME NEW part, part.kind = "remaining", NEW rest \in Seq(Text)
  PROVE  MeantPart(part, Taken(part, rest)) = rest
<1>1. DOMAIN rest = 1 .. Len(rest) /\ Len(rest) \in Nat /\ rest = [i \in 1 .. Len(rest) |-> rest[i]]
      /\ \A i \in 1 .. Len(rest) : rest[i] \in Text
  OBVIOUS
<1>2. \A i \in 1 .. Len(rest) : FormDecoded(FormEncoded(rest[i])) = rest[i]
  BY <1>1, EncodedText
<1>3. Taken(part, rest) = [i \in 1 .. Len(rest) |-> FormEncoded(rest[i])]
  BY <1>1 DEF Taken
<1>4. MeantPart(part, Taken(part, rest))
        = [i \in 1 .. Len(rest) |-> FormDecoded(FormEncoded(rest[i]))]
  BY <1>3 DEF MeantPart
<1> QED BY <1>1, <1>2, <1>4

LEMMA PathDecoded ==
  ASSUME NEW url, NEW value, Described(url, value),
         NEW segments \in Seq(Text)
  PROVE  LET e == DecodeParts(url.path, segments) IN
         (/\ e.matched /\ e.rest = <<>>
          /\ \A i \in DOMAIN url.path :
               MeantPart(url.path[i], e.carried[i]) = MeantPart(url.path[i], value.path[i]))
         <=> Arrived(url, value, segments)
<1> DEFINE parts == url.path
           carried == value.path
           n == Len(parts)
           W(i) == Wanted(parts[i], carried[i])
           e == Run(parts, segments, n)
           l == Len(segments)
           Right == /\ e.matched /\ e.rest = <<>>
                    /\ \A i \in 1 .. n : MeantPart(parts[i], e.carried[i]) = MeantPart(parts[i], carried[i])
<1>1. /\ n \in Nat \ {0} /\ DOMAIN parts = 1 .. n /\ parts \in Seq(Parts) /\ Len(parts) = n
      /\ \A i \in 1 .. n : Fits(parts[i], carried[i])
      /\ \A i \in 1 .. n - 1 : parts[i].kind # "remaining"
      /\ \A i \in 1 .. n : parts[i].kind = "static" => carried[i] = <<>>
  <2>1. PICK k : k = Len(url.path)
    OBVIOUS
  <2>2. /\ k \in Nat \ {0} /\ DOMAIN url.path = 1 .. k
        /\ \A i \in 1 .. k : Fits(url.path[i], value.path[i])
        /\ \A i \in 1 .. k - 1 : url.path[i].kind # "remaining"
        /\ \A i \in 1 .. k : url.path[i].kind = "static" => value.path[i] = <<>>
    BY <2>1, AnyParts
  <2>3. url.path \in Seq(Parts)
    BY DEF Described
  <2> QED BY <2>1, <2>2, <2>3
<1>2. l \in Nat
  OBVIOUS
<1>3. Arrived(url, value, segments) <=>
        /\ l = n - 1 + Len(W(n))
        /\ \A i \in 1 .. n - 1 : segments[i] = W(i)[1]
        /\ \A j \in 1 .. Len(W(n)) : segments[n - 1 + j] = W(n)[j]
  BY DEF Arrived
<1>4. DecodeParts(parts, segments) = e
  BY <1>1, RunIs
<1> HIDE DEF parts, carried, n, l, e
<1>5. \A i \in 1 .. n : parts[i].kind \in {"static", "segment", "remaining"} /\ parts[i] \in Parts
  BY <1>1 DEF Fits, Parts
<1>6. \A i \in 1 .. n : /\ parts[i].kind = "static" => W(i) = <<parts[i].text>>
                        /\ parts[i].kind = "segment" => W(i) = <<carried[i]>>
  BY DEF Wanted
<1>7. CASE parts[n].kind # "remaining"
  <2>1. \A i \in 1 .. n : parts[i].kind # "remaining"
    BY <1>1, <1>7
  <2>2. /\ e.matched <=> n <= l /\ \A i \in 1 .. n :
                                     parts[i].kind = "static" => segments[i] = parts[i].text
        /\ e.matched =>
             /\ \A i \in 1 .. n : e.carried[i] = IF parts[i].kind = "static" THEN <<>> ELSE segments[i]
             /\ Len(e.rest) = l - n
    <3>1. n \in 0 .. Len(parts)
      BY <1>1
    <3> QED BY <1>1, <2>1, <3>1, RunBefore DEF e, l
  <2>3. e \in Decoding
    <3>1. n \in 0 .. Len(parts)
      BY <1>1
    <3> QED BY <1>1, <3>1, RunIs DEF e
  <2>4. e.rest \in Seq(Text)
    BY <2>3 DEF Decoding
  <2>5. e.matched => (e.rest = <<>> <=> l = n)
    <3>1. e.rest = <<>> <=> Len(e.rest) = 0
      BY <2>4
    <3>2. \A k \in Nat : l - k = 0 <=> l = k
      BY <1>2
    <3> QED BY <1>1, <2>2, <3>1, <3>2
  <2>6. \A i \in 1 .. n :
          /\ Len(W(i)) = 1
          /\ parts[i].kind = "static" => W(i)[1] = parts[i].text
          /\ parts[i].kind # "static" => W(i)[1] = carried[i]
    BY <1>5, <1>6, <2>1
  <2> HIDE DEF W
  <2>7. \A i \in 1 .. n : /\ MeantPart(parts[i], e.carried[i]) = e.carried[i]
                          /\ MeantPart(parts[i], carried[i]) = carried[i]
    BY <2>1 DEF MeantPart
  <2>8. Right <=> l = n /\ \A i \in 1 .. n : segments[i] = W(i)[1]
    <3>1. ASSUME Right PROVE l = n /\ \A i \in 1 .. n : segments[i] = W(i)[1]
      BY <2>2, <2>5, <2>6, <2>7, <3>1
    <3>2. ASSUME l = n, \A i \in 1 .. n : segments[i] = W(i)[1] PROVE Right
      <4>1. e.matched
        BY <1>1, <2>2, <2>6, <3>2
      <4> QED BY <1>1, <2>2, <2>5, <2>6, <2>7, <3>2, <4>1
    <3> QED BY <3>1, <3>2
  <2>9. Arrived(url, value, segments) <=> l = n /\ \A i \in 1 .. n : segments[i] = W(i)[1]
    <3>1. Len(W(n)) = 1 /\ n - 1 + 1 = n
      BY <1>1, <2>6
    <3>2. (\A i \in 1 .. n : segments[i] = W(i)[1])
            <=> (\A i \in 1 .. n - 1 : segments[i] = W(i)[1]) /\ segments[n] = W(n)[1]
      BY <1>1
    <3>3. (\A j \in 1 .. 1 : segments[n - 1 + j] = W(n)[j]) <=> segments[n] = W(n)[1]
      BY <3>1
    <3> QED BY <1>3, <3>1, <3>2, <3>3
  <2> QED BY <1>1, <1>4, <2>8, <2>9 DEF parts, carried
<1>8. CASE parts[n].kind = "remaining"
  <2> DEFINE b == Run(parts, segments, n - 1)
             rest == b.rest
  <2>1. n - 1 \in 0 .. Len(parts) - 1 /\ n - 1 \in 0 .. Len(parts) /\ n - 1 + 1 = n
        /\ n \in 1 .. n
    BY <1>1
  <2>2. /\ b.matched <=> n - 1 <= l
                         /\ \A i \in 1 .. n - 1 :
                              parts[i].kind = "static" => segments[i] = parts[i].text
        /\ b.matched =>
             /\ Len(b.carried) = n - 1
             /\ \A i \in 1 .. n - 1 :
                  b.carried[i] = IF parts[i].kind = "static" THEN <<>> ELSE segments[i]
             /\ Len(b.rest) = l - (n - 1)
             /\ \A j \in 1 .. l - (n - 1) : b.rest[j] = segments[n - 1 + j]
    <3>1. PICK m \in 0 .. Len(parts) : m = n - 1
      BY <1>1, <2>1
    <3>2. \A i \in 1 .. m : parts[i].kind # "remaining"
      BY <1>1, <3>1
    <3>3. LET d == Run(parts, segments, m) IN
          /\ d.matched <=> m <= Len(segments)
                           /\ \A i \in 1 .. m : parts[i].kind = "static" => segments[i] = parts[i].text
          /\ d.matched =>
               /\ Len(d.carried) = m
               /\ \A i \in 1 .. m : d.carried[i] = IF parts[i].kind = "static" THEN <<>> ELSE segments[i]
               /\ Len(d.rest) = Len(segments) - m
               /\ \A j \in 1 .. Len(segments) - m : d.rest[j] = segments[m + j]
      BY <1>1, <3>2, RunBefore
    <3> HIDE DEF b
    <3>4. b = Run(parts, segments, m)
      BY <3>1 DEF b
    <3> QED BY <3>1, <3>3, <3>4 DEF l
  <2>3. b \in Decoding /\ e = DecodePart(parts[n], b)
    BY <1>1, <2>1, RunIs DEF e
  <2>4. /\ e.matched <=> b.matched /\ rest # <<>>
        /\ e.matched => e.carried = Append(b.carried, Taken(parts[n], rest)) /\ e.rest = <<>>
    <3>1. PICK part \in Parts, d \in Decoding, f \in {e} : part = parts[n] /\ d = b /\ f = e
      BY <1>5, <2>1, <2>3
    <3>2. f = DecodePart(part, d) /\ part.kind = "remaining"
      BY <1>8, <2>3, <3>1
    <3>3. /\ f.matched <=> d.matched /\ d.rest # <<>>
          /\ f.matched => f.carried = Append(d.carried, Taken(part, d.rest)) /\ f.rest = <<>>
      BY <3>2, DecodePartIs
    <3> QED BY <3>1, <3>3
  <2>5. rest \in Seq(Text) /\ b.carried \in Seq(Text \cup Seq(OnWire))
    BY <2>3 DEF Decoding
  <2>6. ASSUME e.matched
        PROVE  /\ e.carried[n] = Taken(parts[n], rest)
               /\ \A i \in 1 .. n - 1 : e.carried[i] = b.carried[i]
    <3> DEFINE T == Text \cup Seq(OnWire)
    <3>1. Len(b.carried) = n - 1 /\ e.carried = Append(b.carried, Taken(parts[n], rest)) /\ rest # <<>>
      BY <2>2, <2>4, <2>6
    <3>2. Taken(parts[n], rest) \in T
      BY <1>5, <2>1, <2>5, <3>1, TakenType
    <3>3. b.carried \in Seq(T)
      BY <2>5
    <3> HIDE DEF T
    <3>4. \A s \in Seq(T) : \A x \in T :
            /\ Append(s, x)[Len(s) + 1] = x
            /\ \A i \in 1 .. Len(s) : Append(s, x)[i] = s[i]
      OBVIOUS
    <3> QED BY <2>1, <3>1, <3>2, <3>3, <3>4
  <2>7. MeantPart(parts[n], Taken(parts[n], rest)) = rest
    BY <1>8, <2>5, TakenMeans
  <2>8. MeantPart(parts[n], carried[n]) = W(n)
    BY <1>8 DEF MeantPart, Wanted
  <2>9. W(n) \in Seq(Text) /\ Len(W(n)) >= 1 /\ Len(W(n)) \in Nat
    <3>1. Carries(parts[n], carried[n])
      BY <1>1, <1>8, <2>1 DEF Fits, Carries
    <3>2. Len(W(n)) = Len(Piece("fetch", parts[n], carried[n])) /\ W(n) \in Seq(Text)
          /\ Len(Piece("fetch", parts[n], carried[n])) >= 1
      BY <3>1, PieceIs
    <3> QED BY <3>2
  <2>10. \A i \in 1 .. n - 1 :
           /\ parts[i].kind = "static" => W(i)[1] = parts[i].text
           /\ parts[i].kind # "static" => W(i)[1] = carried[i]
           /\ MeantPart(parts[i], carried[i]) = carried[i]
           /\ MeantPart(parts[i], e.carried[i]) = e.carried[i]
    BY <1>1, <1>5, <1>6 DEF MeantPart
  <2> DEFINE w == W(n)
             before == \A i \in 1 .. n - 1 : segments[i] = W(i)[1]
  <2>11. \A i \in 1 .. n - 1 : parts[i].kind = "static" => carried[i] = <<>>
    BY <1>1
  <2> HIDE DEF W, b, rest, w
  <2>12. \A i \in 1 .. n : i \in 1 .. n - 1 \/ i = n
    BY <1>1
  <2>13. \A i \in 1 .. n - 1 : i \in 1 .. n
    BY <1>1
  <2>14. Right <=> b.matched /\ rest # <<>> /\ rest = w
                   /\ \A i \in 1 .. n - 1 : b.carried[i] = carried[i]
    <3>1. ASSUME Right PROVE /\ b.matched /\ rest # <<>> /\ rest = w
                             /\ \A i \in 1 .. n - 1 : b.carried[i] = carried[i]
      BY <2>1, <2>4, <2>6, <2>7, <2>8, <2>10, <2>13, <3>1 DEF w
    <3>2. ASSUME b.matched, rest # <<>>, rest = w, \A i \in 1 .. n - 1 : b.carried[i] = carried[i]
          PROVE  Right
      <4>1. e.matched /\ e.rest = <<>>
        BY <2>4, <3>2
      <4>2. MeantPart(parts[n], e.carried[n]) = MeantPart(parts[n], carried[n])
        BY <2>6, <2>7, <2>8, <3>2, <4>1 DEF w
      <4>3. \A i \in 1 .. n - 1 : MeantPart(parts[i], e.carried[i]) = MeantPart(parts[i], carried[i])
        BY <2>6, <2>10, <3>2, <4>1
      <4> QED BY <2>12, <4>1, <4>2, <4>3
    <3> QED BY <3>1, <3>2
  <2>15. b.matched => ((\A i \in 1 .. n - 1 : b.carried[i] = carried[i]) <=> before)
    BY <2>2, <2>10, <2>11
  <2>16. before => \A i \in 1 .. n - 1 : parts[i].kind = "static" => segments[i] = parts[i].text
    BY <2>10
  <2> DEFINE after == \A j \in 1 .. Len(w) : segments[n - 1 + j] = w[j]
  <2>17. b.matched /\ rest # <<>> /\ rest = w => l = n - 1 + Len(w) /\ after
    <3>1. ASSUME b.matched, rest = w PROVE l = n - 1 + Len(w) /\ after
      <4>1. Len(w) = l - (n - 1) /\ \A j \in 1 .. l - (n - 1) : w[j] = segments[n - 1 + j]
        BY <2>2, <3>1 DEF rest
      <4>2. l = n - 1 + (l - (n - 1))
        BY <1>1, <1>2
      <4> QED BY <4>1, <4>2
    <3> QED BY <3>1
  <2>18. l = n - 1 + Len(w) /\ after /\ before => b.matched /\ rest # <<>> /\ rest = w
    <3> SUFFICES ASSUME l = n - 1 + Len(w), after, before
                 PROVE  b.matched /\ rest # <<>> /\ rest = w
      OBVIOUS
    <3>1. n - 1 <= l /\ l - (n - 1) = Len(w) /\ Len(w) \in Nat /\ Len(w) >= 1
      BY <1>1, <2>9 DEF w
    <3>2. b.matched
      BY <2>2, <2>16, <3>1
    <3>3. Len(rest) = Len(w) /\ \A j \in 1 .. Len(w) : rest[j] = w[j]
      BY <2>2, <3>1, <3>2 DEF rest
    <3>4. rest = w
      BY <2>5, <2>9, <3>3, SeqEqual DEF w
    <3>5. w # <<>>
      BY <2>9, <3>1 DEF w
    <3> QED BY <3>2, <3>4, <3>5
  <2> HIDE DEF before, after
  <2>19. Right <=> l = n - 1 + Len(w) /\ before /\ after
    BY <2>14, <2>15, <2>17, <2>18
  <2>20. Arrived(url, value, segments) <=> l = n - 1 + Len(w) /\ before /\ after
    BY <1>3 DEF before, after, w
  <2> QED BY <1>1, <1>4, <2>19, <2>20 DEF parts, carried
<1> QED BY <1>7, <1>8

(***************************************************************************)
(* The path, from the client to the server.                                *)
(***************************************************************************)

\* A part whose "+" the server mistakes.
PlusMistakenIn(part, carried) ==
  \/ /\ part.kind = "segment" /\ Contains(carried, "+")
     /\ sender # "fetch" /\ receiver = "http4s"
  \/ /\ part.kind = "remaining" /\ receiver = "pekko"
     /\ \E j \in DOMAIN carried : Contains(carried[j], "+")
  \/ /\ part.kind = "remaining" /\ receiver = "http4s" /\ sender \in {"pekko", "sttp"}
     /\ \E j \in DOMAIN carried : Contains(carried[j], "%2B")

LEMMA PieceArrives ==
  ASSUME NEW part, NEW carried, Carries(part, carried), receiver \in Servers,
         NEW p, p = Piece(sender, part, carried),
         NEW w, w = Wanted(part, carried)
  PROVE  (\A j \in 1 .. Len(p) : Decoded(receiver, p[j]) = w[j])
           <=> ~PlusMistakenIn(part, carried)
<1> DEFINE t == TextOf(part, carried)
<1>1. /\ Len(p) >= 1 /\ Len(p) \in Nat
      /\ part.kind # "remaining" => Len(p) = 1
      /\ \A j \in 1 .. Len(p) :
           /\ Unescaped(p[j]) = w[j] <=> ~(part.kind = "remaining" /\ Contains(carried[j], "+"))
           /\ FormDecoded(p[j]) = w[j] <=> ~FormMistakes(sender, part, carried, j)
  <2>1. PICK text : text = t
    OBVIOUS
  <2>2. /\ p \in Seq(OnWire)
        /\ Len(p) >= 1
        /\ part.kind # "remaining" => Len(p) = 1
        /\ \A j \in 1 .. Len(p) :
             /\ Unescaped(p[j]) = w[j]
                  <=> ~(part.kind = "remaining" /\ Contains(carried[j], "+"))
             /\ FormDecoded(p[j]) = w[j] <=> ~FormMistakes(sender, part, carried, j)
    BY <2>1, PieceIs
  <2>3. Len(p) \in Nat
    BY <2>2
  <2> QED BY <2>2, <2>3
<1>2. part.kind = "remaining" => DOMAIN carried = 1 .. Len(p)
  <2>1. CASE part.kind = "remaining"
    <3>1. p = [j \in DOMAIN carried |-> InRemaining(sender, carried[j])]
      BY <2>1 DEF Piece
    <3>2. DOMAIN carried = 1 .. Len(carried) /\ Len(carried) \in Nat
      BY <2>1 DEF Carries
    <3>3. DOMAIN p = 1 .. Len(carried)
      BY <3>1, <3>2
    <3> QED BY <3>2, <3>3
  <2> QED BY <2>1
<1>3. CASE receiver = "http4s"
  <2>1. \A x : Decoded(receiver, x) = FormDecoded(x)
    BY <1>3 DEF Decoded
  <2>2. 1 \in 1 .. Len(p)
    BY <1>1
  <2>3. part.kind = "remaining" => DOMAIN carried = 1 .. Len(p)
    BY <1>2
  <2>4. PlusMistakenIn(part, carried) <=> \E j \in 1 .. Len(p) : FormMistakes(sender, part, carried, j)
    BY <1>3, <2>2, <2>3 DEF PlusMistakenIn, FormMistakes
  <2> QED BY <1>1, <2>1, <2>4
<1>4. CASE receiver = "pekko"
  <2>1. \A x : Decoded(receiver, x) = Unescaped(x)
    BY <1>4 DEF Decoded
  <2>2. PlusMistakenIn(part, carried)
          <=> part.kind = "remaining" /\ \E j \in DOMAIN carried : Contains(carried[j], "+")
    BY <1>4 DEF PlusMistakenIn
  <2>3. part.kind = "remaining" => DOMAIN carried = 1 .. Len(p)
    BY <1>2
  <2> QED BY <1>1, <2>1, <2>2, <2>3
<1> QED BY <1>3, <1>4 DEF Servers

LEMMA Indices ==
  ASSUME NEW n \in Nat \ {0}, NEW l \in Nat
  PROVE  /\ \A i \in 1 .. n - 1 : i \in 1 .. n /\ i \in 1 .. n - 1 + l
         /\ \A j \in 1 .. l : n - 1 + j \in 1 .. n - 1 + l
         /\ n \in 1 .. n /\ \A i \in 1 .. n : i \in 1 .. n - 1 \/ i = n
  OBVIOUS

NoneLost(onWire, segments) ==
  /\ Len(segments) = Len(onWire)
  /\ \A k \in 1 .. Len(onWire) : segments[k] = Decoded(receiver, onWire[k])

\* When no segment is lost, what arrives is what was wanted if no "+" is mistaken.
LEMMA SegmentsArrive ==
  ASSUME NEW url, NEW value, Described(url, value), ~SlashInStaticSegment(url),
         receiver \in Servers,
         NEW n \in Nat \ {0}, n = Len(url.path),
         NEW pieces, pieces = Pieces(sender, url, value),
         NEW onWire, OnePiecePerPart(n, pieces, onWire),
         NEW D, NoneLost(onWire, D)
  PROVE  Arrived(url, value, D) <=> ~PlusMistaken(url, value)
<1>0. /\ \A i \in 1 .. n - 1 : onWire[i] = pieces[i][1]
      /\ \A j \in 1 .. Len(pieces[n]) : onWire[n - 1 + j] = pieces[n][j]
      /\ \A i \in 1 .. n - 1 : Len(pieces[i]) = 1
      /\ Len(D) = n - 1 + Len(pieces[n]) /\ Len(pieces[n]) \in Nat
      /\ \A k \in 1 .. n - 1 + Len(pieces[n]) : D[k] = Decoded(receiver, onWire[k])
  <2>1. Len(pieces[n]) \in Nat
    <3>1. pieces \in Seq(Seq(OnWire)) /\ Len(pieces) = n /\ n \in 1 .. n
      BY Indices DEF OnePiecePerPart
    <3> QED BY <3>1
  <2> QED BY <2>1, Zenon DEF OnePiecePerPart, NoneLost
<1> USE <1>0
<1> DEFINE part(i) == url.path[i]
           carried(i) == value.path[i]
           w(i) == Wanted(part(i), carried(i))
           Bad(i) == PlusMistakenIn(part(i), carried(i))
           Right(i) == \A j \in 1 .. Len(pieces[i]) : Decoded(receiver, pieces[i][j]) = w(i)[j]
<1>1. DOMAIN url.path = 1 .. n /\ \A i \in 1 .. n : Carries(part(i), carried(i))
  BY PartsAre
<1>2. \A i \in 1 .. n : pieces[i] = Piece(sender, part(i), carried(i))
  BY <1>1 DEF Pieces
<1>3. ASSUME NEW i \in 1 .. n PROVE Right(i) <=> ~Bad(i)
  <2>1. PICK a, b, p, x : a = part(i) /\ b = carried(i) /\ p = pieces[i] /\ x = w(i)
    OBVIOUS
  <2>2. Carries(a, b) /\ p = Piece(sender, a, b) /\ x = Wanted(a, b)
    BY <1>1, <1>2, <2>1
  <2>3. (\A j \in 1 .. Len(p) : Decoded(receiver, p[j]) = x[j]) <=> ~PlusMistakenIn(a, b)
    BY <2>2, PieceArrives
  <2> QED BY <2>1, <2>3
<1>4. Len(w(n)) = Len(pieces[n])
  <2>1. PICK a, b, p, x, t : /\ a = part(n) /\ b = carried(n) /\ p = pieces[n] /\ x = w(n)
                             /\ t = TextOf(a, b)
    OBVIOUS
  <2>2. Carries(a, b) /\ p = Piece(sender, a, b) /\ x = Wanted(a, b)
    BY <1>1, <1>2, <2>1
  <2>3. Len(x) = Len(p)
    BY <2>1, <2>2, PieceIs
  <2> QED BY <2>1, <2>3
<1>5. PlusMistaken(url, value) <=> \E i \in 1 .. n : Bad(i)
  BY <1>1 DEF PlusMistaken, PlusMistakenIn
<1>6. Arrived(url, value, D) <=>
        /\ \A i \in 1 .. n - 1 : D[i] = w(i)[1]
        /\ \A j \in 1 .. Len(pieces[n]) : D[n - 1 + j] = w(n)[j]
  BY <1>4 DEF Arrived
<1> HIDE DEF part, carried, w, Bad
<1>7. \A i \in 1 .. n - 1 : D[i] = w(i)[1] <=> Right(i)
  <2>1. \A i \in 1 .. n - 1 : D[i] = Decoded(receiver, pieces[i][1])
    <3>1. PICK l \in Nat : l = Len(pieces[n])
      OBVIOUS
    <3>2. \A i \in 1 .. n - 1 : i \in 1 .. n - 1 + l
      BY ONLY n \in Nat \ {0}, l \in Nat, Indices
    <3> QED BY ONLY <3>1, <3>2,
                    \A k \in 1 .. n - 1 + Len(pieces[n]) : D[k] = Decoded(receiver, onWire[k]),
                    \A i \in 1 .. n - 1 : onWire[i] = pieces[i][1]
  <2>2. \A i \in 1 .. n - 1 : \A j : j \in 1 .. Len(pieces[i]) <=> j = 1
    <3>1. \A j : j \in 1 .. 1 <=> j = 1
      OBVIOUS
    <3> QED BY <3>1
  <2> QED BY <2>1, <2>2
<1>8. (\A j \in 1 .. Len(pieces[n]) : D[n - 1 + j] = w(n)[j]) <=> Right(n)
  <2>1. \A j \in 1 .. Len(pieces[n]) : D[n - 1 + j] = Decoded(receiver, pieces[n][j])
    <3>1. PICK l \in Nat : l = Len(pieces[n])
      OBVIOUS
    <3>2. \A j \in 1 .. l : n - 1 + j \in 1 .. n - 1 + l
      BY ONLY n \in Nat \ {0}, l \in Nat, Indices
    <3> QED BY ONLY <3>1, <3>2,
                    \A k \in 1 .. n - 1 + Len(pieces[n]) : D[k] = Decoded(receiver, onWire[k]),
                    \A j \in 1 .. Len(pieces[n]) : onWire[n - 1 + j] = pieces[n][j]
  <2> QED BY <2>1
<1> HIDE DEF Right
<1>9. n \in 1 .. n /\ \A i \in 1 .. n : i \in 1 .. n - 1 \/ i = n
  BY Indices
<1>10. \A i \in 1 .. n - 1 : i \in 1 .. n
  BY Indices
<1> QED BY <1>3, <1>5, <1>6, <1>7, <1>8, <1>9, <1>10

\* The segments that a server decodes, whichever it is.
LEMMA PathSegmentsAre ==
  ASSUME NEW server \in Servers,
         NEW path \in Seq(OnWire), NEW m \in Nat, Len(path) = m, m >= 2, path[1] = <<>>,
         NEW segments, segments = PathSegments(server, path)
  PROVE  /\ segments \in Seq(Text)
         /\ path = Root => Len(segments) = 1 /\ segments[1] = <<>>
         /\ path # Root /\ LosesEmpty(server, path) => Len(segments) < m
         /\ path # Root /\ ~LosesEmpty(server, path) =>
              Len(segments) = m /\ \A k \in 1 .. m : segments[k] = Decoded(server, path[k])
         /\ Len(segments) <= m
<1>1. /\ segments \in Seq(Text)
      /\ path = Root => Len(segments) = 1 /\ segments[1] = <<>>
      /\ path # Root /\ LosesEmpty(server, path) => Len(segments) < m
      /\ path # Root /\ ~LosesEmpty(server, path) =>
           Len(segments) = m /\ \A k \in 1 .. m : segments[k] = Decoded(server, path[k])
  <2>1. CASE server = "http4s"
    BY <2>1, Http4sSegmentsAre DEF PathSegments, Decoded
  <2>2. CASE server = "pekko"
    BY <2>2, PekkoSegmentsAre DEF PathSegments, Decoded
  <2> QED BY <2>1, <2>2 DEF Servers
<1>2. Len(segments) \in Nat
  BY <1>1
<1>3. Len(segments) <= m
  BY <1>1, <1>2
<1> QED BY <1>1, <1>3

\* The whole of the path: the value arrives if and only if none of the named cases is met.
LEMMA PathArrives ==
  ASSUME NEW url, NEW value, Described(url, value), ~SlashInStaticSegment(url),
         receiver \in Servers,
         NEW D, D = PathSegments(receiver, EncodePath(sender, url, value))
  PROVE  /\ D \in Seq(Text)
         /\ Arrived(url, value, D) <=> ~(PlusMistaken(url, value) \/ EmptySegmentLost(url, value))
<1>1. PICK n, pieces, texts, onWire, all, path :
        /\ n = Len(url.path)
        /\ pieces = Pieces(sender, url, value)
        /\ texts = TextsOf(url, value)
        /\ onWire = Joined(OnWire, pieces)
        /\ all = Joined(OnWire, texts)
        /\ path = RequestPath(sender, pieces)
  OBVIOUS
<1>2. /\ n \in Nat \ {0} /\ DOMAIN url.path = 1 .. n
      /\ url.path[1] = Static(<<>>)
      /\ \A i \in 1 .. n : Carries(url.path[i], value.path[i])
  BY <1>1, PartsAre
<1>3. /\ EncodePath(sender, url, value) = path
      /\ OnePiecePerPart(n, pieces, onWire)
      /\ EmptyWhere(n, texts, all, pieces, onWire)
  BY <1>1, SegmentsAre
<1> DEFINE skips == Skips(sender, n, pieces, onWire)
<1>4. /\ path \in Seq(OnWire) /\ Len(path) >= 2 /\ path[1] = <<>>
      /\ Len(onWire) = 1 => path = Root
      /\ Len(onWire) > 1 /\ ~skips => path = onWire
      /\ skips => path = Root \/ Len(path) < Len(onWire)
  <2>1. Requested(sender, n, pieces, onWire, path)
    BY <1>1, <1>2, <1>3, RequestPathIs
  <2> QED BY <2>1, Zenon DEF Requested, Root
<1>a. /\ pieces \in Seq(Seq(OnWire)) /\ Len(pieces) = n
      /\ pieces[1] = <<<<>>>>
      /\ \A i \in 1 .. n - 1 : Len(pieces[i]) = 1
      /\ Len(pieces[n]) >= 1
      /\ onWire \in Seq(OnWire) /\ Len(onWire) = n - 1 + Len(pieces[n])
      /\ \A i \in 1 .. n - 1 : onWire[i] = pieces[i][1]
      /\ \A j \in 1 .. Len(pieces[n]) : onWire[n - 1 + j] = pieces[n][j]
      /\ onWire[1] = <<>>
      /\ Len(texts) = n
      /\ \A i \in 1 .. n : texts[i] = <<<<>>>> <=> pieces[i] = <<<<>>>>
      /\ all \in Seq(OnWire) /\ Len(all) = Len(onWire)
      /\ \A k \in 1 .. Len(onWire) : onWire[k] = <<>> <=> all[k] = <<>>
  BY <1>3, Zenon DEF OnePiecePerPart, EmptyWhere
<1>5. PICK m \in Nat, k \in Nat, l \in Nat : m = Len(onWire) /\ k = Len(path) /\ l = Len(pieces[n])
  <2>1. n \in 1 .. n
    BY <1>2, Indices
  <2> QED BY <1>a, <1>4, <2>1
<1>6. m = n - 1 + l /\ l >= 1 /\ k >= 2 /\ Len(all) = m
  BY <1>a, <1>4, <1>5
<1>7. /\ D \in Seq(Text)
      /\ path = Root => Len(D) = 1 /\ D[1] = <<>>
      /\ path # Root /\ LosesEmpty(receiver, path) => Len(D) < k
      /\ path # Root /\ ~LosesEmpty(receiver, path) =>
           Len(D) = k /\ \A i \in 1 .. k : D[i] = Decoded(receiver, path[i])
      /\ Len(D) <= k
  <2>1. k = Len(path) /\ D = PathSegments(receiver, path)
    BY <1>3, <1>5
  <2> QED BY <1>4, <1>6, <2>1, PathSegmentsAre
<1>8. PICK d \in Nat : d = Len(D)
  BY <1>7
<1>9. Arrived(url, value, D) => d = m
  <2>1. PICK a, b, p, w, t : /\ a = url.path[n] /\ b = value.path[n] /\ p = pieces[n]
                             /\ w = Wanted(a, b) /\ t = TextOf(a, b)
    OBVIOUS
  <2>2. n \in 1 .. n
    BY <1>2, Indices
  <2>3. Carries(a, b)
    BY <1>2, <2>1, <2>2
  <2>4. p = Piece(sender, a, b)
    BY <1>1, <1>2, <2>1, <2>2 DEF Pieces
  <2>5. Len(w) = Len(p)
    BY <2>1, <2>3, <2>4, PieceIs
  <2>6. Arrived(url, value, D) => Len(D) = n - 1 + Len(w)
    BY <1>1, <2>1 DEF Arrived
  <2> QED BY <1>5, <1>6, <1>8, <2>1, <2>5, <2>6
<1>10. EmptySegmentLost(url, value) <=> all = Root \/ skips \/ LosesEmpty(receiver, all)
  <2>1. Joined(OnWire, texts) = all /\ TextsOf(url, value) = texts /\ Len(texts) = n
    BY <1>1, <1>a
  <2>2. n > 1 => 2 \in 1 .. n
    BY <1>2
  <2>3. DropsStart(sender, n, pieces)
          <=> sender = "http4s" /\ Len(texts) > 1 /\ texts[2] = <<<<>>>>
    BY <1>a, <2>1, <2>2 DEF DropsStart
  <2>4. Len(onWire) > 2 /\ onWire[2] = <<>> <=> Len(all) > 2 /\ all[2] = <<>>
    <3>1. m > 2 => 2 \in 1 .. m
      OBVIOUS
    <3> QED BY <1>a, <1>5, <1>6, <3>1
  <2>5. skips <=> \/ sender = "http4s" /\ Len(texts) > 1 /\ texts[2] = <<<<>>>>
                  \/ sender = "pekko" /\ Len(all) > 2 /\ all[2] = <<>>
    BY <2>3, <2>4 DEF Skips
  <2> HIDE DEF skips
  <2> QED BY <2>1, <2>5 DEF EmptySegmentLost, LosesEmpty, Root
<1> HIDE DEF skips
<1>11. CASE m = 1
  <2>1. n = 1 /\ d = 1 /\ D[1] = <<>>
    BY <1>2, <1>4, <1>5, <1>6, <1>7, <1>8, <1>11
  <2>2. url.path[n] = Static(<<>>) /\ \A i \in DOMAIN url.path : url.path[i].kind = "static"
    BY <1>2, <2>1 DEF Static
  <2>3. Wanted(url.path[n], value.path[n]) = <<<<>>>>
    BY <2>2 DEF Wanted, Static
  <2>4. Arrived(url, value, D)
    <3>1. Len(<<<<>>>>) = 1 /\ (<<<<>>>>)[1] = <<>>
      OBVIOUS
    <3>2. PICK w : w = <<<<>>>> /\ Len(w) = 1 /\ w[1] = <<>> /\ w = Wanted(url.path[1], value.path[1])
      BY <2>1, <2>3, <3>1
    <3>3. /\ Len(D) = 1 - 1 + Len(w) /\ (\A i \in 1 .. 1 - 1 : FALSE)
          /\ \A j \in 1 .. Len(w) : D[1 - 1 + j] = w[j]
      BY <1>8, <2>1, <3>2
    <3>4. Len(url.path) = 1
      BY <1>1, <2>1
    <3> QED BY <3>2, <3>3, <3>4 DEF Arrived
  <2>5. ~PlusMistaken(url, value)
    BY <2>2 DEF PlusMistaken
  <2>6. ~EmptySegmentLost(url, value)
    <3>1. all # Root
      BY <1>a, <1>6, <1>11, IsRoot
    <3>2. ~skips
      BY <1>5, <1>11, <2>1 DEF skips, Skips, DropsStart
    <3>3. ~LosesEmpty(receiver, all)
      BY <1>6, <1>11 DEF LosesEmpty
    <3> QED BY <1>10, <3>1, <3>2, <3>3
  <2> QED BY <1>7, <2>4, <2>5, <2>6
<1>12. CASE skips
  <2>1. m > 1
    BY <1>2, <1>5, <1>6, <1>12 DEF skips, Skips, DropsStart
  <2>2. d < m
    BY <1>4, <1>5, <1>7, <1>8, <1>12, <2>1
  <2>3. ~Arrived(url, value, D)
    BY <1>9, <2>2
  <2> QED BY <1>7, <1>10, <1>12, <2>3
<1>13. CASE m > 1 /\ ~skips
  <2>1. path = onWire /\ k = m
    BY <1>4, <1>5, <1>13
  <2>2. path = Root <=> all = Root
    <3>1. \A s \in Seq(OnWire) : s = Root <=> Len(s) = 2 /\ s[1] = <<>> /\ s[2] = <<>>
      BY IsRoot
    <3>2. m = 2 => 1 \in 1 .. m /\ 2 \in 1 .. m
      OBVIOUS
    <3> QED BY <1>a, <1>5, <1>6, <2>1, <3>1, <3>2
  <2>3. LosesEmpty(receiver, path) <=> LosesEmpty(receiver, all)
    <3>1. Len(path) = m /\ Len(all) = m
      BY <1>5, <1>6, <2>1
    <3>2. \A i \in 1 .. m : path[i] = <<>> <=> all[i] = <<>>
      BY <1>a, <1>5, <2>1
    <3>3. \A i \in 2 .. m - 1 : i \in 1 .. m /\ i + 1 \in 1 .. m
      OBVIOUS
    <3> QED BY <3>1, <3>2, <3>3 DEF LosesEmpty
  <2>4. CASE path = Root
    <3>1. d < m
      BY <1>7, <1>8, <1>13, <2>4
    <3> QED BY <1>7, <1>9, <1>10, <2>2, <2>4, <3>1
  <2>5. CASE path # Root /\ LosesEmpty(receiver, path)
    <3>1. d < m
      BY <1>7, <1>8, <2>1, <2>5
    <3> QED BY <1>7, <1>9, <1>10, <2>3, <2>5, <3>1
  <2>6. CASE path # Root /\ ~LosesEmpty(receiver, path)
    <3>1. ~EmptySegmentLost(url, value)
      BY <1>10, <1>13, <2>2, <2>3, <2>6
    <3>2. Arrived(url, value, D) <=> ~PlusMistaken(url, value)
      <4>1. NoneLost(onWire, D)
        BY <1>5, <1>7, <2>1, <2>6 DEF NoneLost
      <4> QED BY <1>1, <1>2, <1>3, <4>1, SegmentsArrive
    <3> QED BY <1>7, <3>1, <3>2
  <2> QED BY <2>4, <2>5, <2>6
<1> QED
  <2>1. m = 1 \/ m > 1
    BY <1>2, <1>6
  <2> QED BY <1>11, <1>12, <1>13, <2>1
=============================================================================
