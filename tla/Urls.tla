-------------------------------- MODULE Urls --------------------------------
(***************************************************************************)
(* The URLs of the algebra, as the clients write them and as the servers   *)
(* read them back. A text is a sequence of characters; on the wire some    *)
(* of them are escaped. What the URI classes of the libraries do to a      *)
(* segment, and to the parameters of a query, is external.                 *)
(***************************************************************************)
EXTENDS Integers, Sequences, SequencesExt, Folding

Clients == {"fetch", "http4s", "pekko", "sttp"}
Servers == {"http4s", "pekko"}

Characters == {"a", " ", "+", "/"}
Escapes    == {"%20", "%2B", "%2F"}
Text       == Seq(Characters)
OnWire     == Seq(Characters \cup Escapes)   \* a segment or a value, encoded

(***************************************************************************)
(* A URL is [path, query]: the parts of its path, chained, and the         *)
(* parameters of its query string. A value of that URL is [path, query]    *)
(* too: what each part carries (nothing for a static segment, a text for a *)
(* segment, the encoded segments for the remaining ones), and the texts    *)
(* that each parameter carries (a parameter is required, optional, with a  *)
(* default, or repeated).                                                  *)
(***************************************************************************)
Parts  == [kind : {"static", "segment", "remaining"}, text : Text]
Params == [name : STRING, kind : {"required", "optional", "default", "repeated"},
           default : Text]

Static(text) == [kind |-> "static", text |-> text]
Segment      == [kind |-> "segment", text |-> <<>>]
Remaining    == [kind |-> "remaining", text |-> <<>>]

Param(name, kind)           == [name |-> name, kind |-> kind, default |-> <<>>]
DefaultParam(name, default) == [name |-> name, kind |-> "default", default |-> default]

NotMatched == [matched |-> FALSE]
Malformed  == [malformed |-> TRUE]

\* `path.split("/")`, trailing empty strings included.
Split(text) ==
  Folded([segments \in Seq(Text) |-> [c \in Characters |->
            IF c = "/" THEN Append(segments, <<>>)
                       ELSE Append(Front(segments), Append(Last(segments), c))]],
         <<<<>>>>, text)

DropTrailingEmpties(segments) ==
  SubSeq(segments, 1, SelectLastInSeq(segments, LAMBDA segment : segment # <<>>))

\* `String.split` of Java: the string itself when there is nothing to split at.
JavaSplit(text) ==
  IF Len(Split(text)) = 1 THEN Split(text) ELSE DropTrailingEmpties(Split(text))

(***************************************************************************)
(* The clients.                                                            *)
(***************************************************************************)

\* `encodeURIComponent` escapes "+"; the others leave it as it is in a segment.
SegmentChar(client, c) ==
  CASE c = " " -> "%20"
    [] c = "/" -> "%2F"
    [] c = "+" -> IF client = "fetch" THEN "%2B" ELSE "+"
    [] c = "a" -> "a"

\* The encoding of forms: `URLEncoder` writes a space as "+", the others escape it.
QueryChar(client, c) ==
  CASE c = " " -> IF client \in {"pekko", "sttp"} THEN "+" ELSE "%20"
    [] c = "/" -> "%2F"
    [] c = "+" -> "%2B"
    [] c = "a" -> "a"

\* What is given encoded: the URI classes of Pekko and sttp decode it and encode it again,
\* and leave "+" as it is.
RemainingChar(client, c) == IF client \in {"pekko", "sttp"} /\ c = "%2B" THEN "+" ELSE c

InSegment(client, text)   == [i \in DOMAIN text |-> SegmentChar(client, text[i])]
InQuery(client, text)     == [i \in DOMAIN text |-> QueryChar(client, text[i])]
InRemaining(client, text) == [i \in DOMAIN text |-> RemainingChar(client, text[i])]

\* The parts that a client cannot encode: a Path.Segment of Pekko is not empty.
Encodes(client, url, value) ==
  client = "pekko" =>
    \A i \in DOMAIN url.path : url.path[i].kind = "segment" => value.path[i] # <<>>

\* The pieces that a part writes: the remaining segments are one, with slashes in it.
EncodePart(client, part, carried) ==
  CASE part.kind = "static"    ->
         LET pieces == IF client = "http4s" THEN JavaSplit(part.text) ELSE Split(part.text)
         IN  [i \in DOMAIN pieces |-> <<pieces[i]>>]
    [] part.kind = "segment"   -> <<<<InSegment(client, carried)>>>>
    [] part.kind = "remaining" -> <<[j \in DOMAIN carried |-> InRemaining(client, carried[j])]>>

\* `dropWhile(_ == Segment(""))`, of pieces.
DropLeadingEmpties(pieces) ==
  LET first == SelectInSeq(pieces, LAMBDA piece : piece # <<<<>>>>)
  IN  IF first = 0 THEN <<>> ELSE SubSeq(pieces, first, Len(pieces))

\* The path as the client writes it, before anything reads it as a reference.
WrittenPath(client, pieces) ==
  IF client = "http4s" THEN <<<<>>>> \o Joined(OnWire, DropLeadingEmpties(pieces))
                       ELSE Joined(OnWire, pieces)

\* "//a": in a reference without a scheme, "a" is a host.
StartsWithAuthority(path) == Len(path) > 2 /\ path[2] = <<>>

\* The path of the request. Pekko, whose base is `Uri("/")`, parses what is written as a
\* reference; the others write it after a base. The request starts an empty path with a
\* slash.
RequestPath(client, pieces) ==
  LET written == WrittenPath(client, pieces)
      path    == IF client = "pekko" /\ StartsWithAuthority(written)
                 THEN <<<<>>>> \o SubSeq(written, 4, Len(written)) ELSE written
  IN  IF path = <<<<>>>> THEN <<<<>>, <<>>>> ELSE path

EncodedPieces(client, url, value) ==
  Joined(Seq(OnWire),
         [i \in DOMAIN url.path |-> EncodePart(client, url.path[i], value.path[i])])

EncodePath(client, url, value) == RequestPath(client, EncodedPieces(client, url, value))

\* What a fetch client without a base resolves against its page: "" is the page itself, and
\* "//a" another host.
NeedsBase(client, url, value) ==
  LET written == WrittenPath(client, EncodedPieces(client, url, value))
  IN  client = "fetch" /\ (written = <<<<>>>> \/ StartsWithAuthority(written))

\* A bug: an empty text counts as an absent one.
EncodeNonEmpty(client, param, texts) ==
  LET present == SelectSeq(texts, LAMBDA text : text # <<>>)
  IN  [i \in DOMAIN present |-> <<param.name, InQuery(client, present[i])>>]

\* One pair per text: an absent parameter leaves no trace.
EncodeParam(client, param, texts) ==
  [i \in DOMAIN texts |-> <<param.name, InQuery(client, texts[i])>>]

EncodeQuery(client, url, value) ==
  Joined(STRING \X OnWire,
    [i \in DOMAIN url.query |-> EncodeParam(client, url.query[i], value.query[i])])

EncodeUrl(client, url, value) ==
  [path |-> EncodePath(client, url, value), query |-> EncodeQuery(client, url, value)]

(***************************************************************************)
(* The servers.                                                            *)
(***************************************************************************)
Unescape(c) ==
  CASE c = "%20" -> " "
    [] c = "%2B" -> "+"
    [] c = "%2F" -> "/"
    [] c \in Characters -> c

\* `URLDecoder.decode`.
FormDecode(c) == IF c = "+" THEN " " ELSE Unescape(c)

\* `URLEncoder.encode`.
FormEncode(c) ==
  CASE c = " " -> "+"
    [] c = "+" -> "%2B"
    [] c = "/" -> "%2F"
    [] c = "a" -> "a"

Unescaped(text)   == [i \in DOMAIN text |-> Unescape(text[i])]
FormDecoded(text) == [i \in DOMAIN text |-> FormDecode(text[i])]
FormEncoded(text) == [i \in DOMAIN text |-> FormEncode(text[i])]

EndsWithSlash(path) == Len(path) > 1 /\ Last(path) = <<>>

\* The segments of a path of the wire, each decoded.
Http4sSegments(path) ==
  LET segments == DropTrailingEmpties(path) \o (IF EndsWithSlash(path) THEN <<<<>>>> ELSE <<>>)
  IN  [i \in DOMAIN segments |-> FormDecoded(segments[i])]

\* `path(Segments ~ Slash.?)`: the segments are not empty, but there may be none between
\* the slashes. No segments at all, which no part decodes, when that does not match.
PekkoSegments(path) ==
  LET inner   == IF EndsWithSlash(path) THEN Front(Tail(path)) ELSE Tail(path)
      matched == IF inner = <<<<>>>> THEN <<>> ELSE inner
      slash   == IF EndsWithSlash(path) /\ path # <<<<>>, <<>>>> THEN <<<<>>>> ELSE <<>>
  IN  IF \E i \in DOMAIN matched : matched[i] = <<>>
      THEN <<>>
      ELSE <<<<>>>> \o [i \in DOMAIN matched |-> Unescaped(matched[i])] \o slash

PathSegments(server, path) ==
  IF server = "http4s" THEN Http4sSegments(path) ELSE PekkoSegments(path)

(***************************************************************************)
(* What the parts decode, from the first one on: whether they match, what  *)
(* they carry, and the segments that they leave.                           *)
(***************************************************************************)
Decoding == [matched : BOOLEAN, carried : Seq(Text \cup Seq(OnWire)), rest : Seq(Text)]

DecodePart(part, d) ==
  IF ~d.matched \/ d.rest = <<>> \/ (part.kind = "static" /\ Head(d.rest) # part.text)
  THEN [d EXCEPT !.matched = FALSE]
  ELSE LET carried == CASE part.kind = "static"    -> <<>>
                        [] part.kind = "segment"   -> Head(d.rest)
                        [] part.kind = "remaining" ->
                             [i \in DOMAIN d.rest |-> FormEncoded(d.rest[i])]
       IN  [matched |-> TRUE, carried |-> Append(d.carried, carried),
            rest    |-> IF part.kind = "remaining" THEN <<>> ELSE Tail(d.rest)]

\* `chainPaths`.
DecodeParts(parts, segments) ==
  Folded([d \in Decoding |-> [part \in Parts |-> DecodePart(part, d)]],
         [matched |-> TRUE, carried |-> <<>>, rest |-> segments], parts)

\* The decoded values of a parameter, in their order.
ValuesOf(name, query) ==
  Folded([values \in Seq(Text) |-> [pair \in STRING \X OnWire |->
            IF pair[1] = name THEN Append(values, FormDecoded(pair[2])) ELSE values]],
         <<>>, query)

FirstOf(values) == IF values = <<>> THEN <<>> ELSE <<Head(values)>>

DecodeParam(param, query) ==
  LET values == ValuesOf(param.name, query)
  IN  CASE param.kind = "repeated"                 -> values
        [] param.kind \in {"required", "optional"} -> FirstOf(values)
        [] param.kind = "default" -> IF values = <<>> THEN <<param.default>> ELSE FirstOf(values)

MissingParam(param, query) == param.kind = "required" /\ ValuesOf(param.name, query) = <<>>

\* No segment may be left.
DecodeUrl(server, url, wire) ==
  LET path == DecodeParts(url.path, PathSegments(server, wire.path)) IN
  IF ~path.matched \/ path.rest # <<>> THEN NotMatched
  ELSE IF \E i \in DOMAIN url.query : MissingParam(url.query[i], wire.query) THEN Malformed
  ELSE [path  |-> path.carried,
        query |-> [i \in DOMAIN url.query |-> DecodeParam(url.query[i], wire.query)]]
=============================================================================
