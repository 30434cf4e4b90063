---------------------------- MODULE UrlExchange -----------------------------
(***************************************************************************)
(* The URL of a request, from a client to a server that interpret the same *)
(* description: the client encodes the value, the server decodes what is   *)
(* on the wire.                                                            *)
(***************************************************************************)
EXTENDS Urls

CONSTANT UrlMessages   \* the URLs and their values: [url, value]

(***************************************************************************)
(* A path starts at the root, and only its last part may be the remaining  *)
(* segments. "a" stands for the characters that nothing escapes; static    *)
(* segments are written as they are, and have no others but slashes. The   *)
(* parameters of a query string have different names.                      *)
(***************************************************************************)
PathValue(url, value) ==
  /\ url.path[1] = Static(<<>>)
  /\ DOMAIN value.path = DOMAIN url.path
  /\ \A i \in DOMAIN url.path :
       /\ url.path[i].kind = "static" =>
            url.path[i].text \in Seq({"a", "/"}) /\ value.path[i] = <<>>
       /\ url.path[i].kind = "segment" => value.path[i] \in Text
       /\ url.path[i].kind = "remaining" =>
            i = Len(url.path) /\ value.path[i] \in Seq(Seq({"a", "+"} \cup Escapes)) \ {<<>>}

QueryValue(url, value) ==
  /\ DOMAIN value.query = DOMAIN url.query
  /\ \A i \in DOMAIN url.query :
       /\ url.query[i].kind = "required" => Len(value.query[i]) = 1
       /\ url.query[i].kind \in {"optional", "default"} => Len(value.query[i]) <= 1
  /\ \A i, j \in DOMAIN url.query : url.query[i].name = url.query[j].name => i = j

ASSUME UrlMessagesAssumption ==
  \A m \in UrlMessages :
    /\ DOMAIN m = {"url", "value"}
    /\ m.url \in [path : Seq(Parts) \ {<<>>}, query : Seq(Params)]
    /\ m.value \in [path : Seq(Text \cup Seq(OnWire)), query : Seq(Seq(Text))]
    /\ PathValue(m.url, m.value) /\ QueryValue(m.url, m.value)

VARIABLES message, sender, receiver, wire, received

vars == <<message, sender, receiver, wire, received>>

IsUrl(m) == "url" \in DOMAIN m

NotYet == [notYet |-> TRUE]
Unsent == [unsent |-> TRUE]   \* encoding it has thrown, or it is a request to another URL

UrlInit ==
  /\ message \in UrlMessages /\ sender \in Clients /\ receiver \in Servers
  /\ wire = NotYet /\ received = NotYet

\* A fetch client may have a base, the origin of the server, or none.
SendUrl ==
  /\ IsUrl(message) /\ wire = NotYet
  /\ \/ /\ Encodes(sender, message.url, message.value)
        /\ wire' = EncodeUrl(sender, message.url, message.value)
     \/ /\ \/ ~Encodes(sender, message.url, message.value)
           \/ NeedsBase(sender, message.url, message.value)
        /\ wire' = Unsent
  /\ UNCHANGED <<message, sender, receiver, received>>

ReceiveUrl ==
  /\ IsUrl(message) /\ wire \notin {NotYet, Unsent} /\ received = NotYet
  /\ received' = DecodeUrl(receiver, message.url, wire)
  /\ UNCHANGED <<message, sender, receiver, wire>>

UrlNext == SendUrl \/ ReceiveUrl

UrlSpec == UrlInit /\ [][UrlNext]_vars

\* What a value means: the remaining segments "still URL-encoded", so decoded here; an
\* absent parameter with a default is that default.
Meaning(url, value) ==
  [path  |-> [i \in DOMAIN url.path |->
                IF url.path[i].kind = "remaining"
                THEN [j \in DOMAIN value.path[i] |-> FormDecoded(value.path[i][j])]
                ELSE value.path[i]],
   query |-> [i \in DOMAIN url.query |->
                IF url.query[i].kind = "default" /\ value.query[i] = <<>>
                THEN <<url.query[i].default>> ELSE value.query[i]]]

\* The texts of the segments of each part.
TextsOf(url, value) ==
  [i \in DOMAIN url.path |->
     CASE url.path[i].kind = "static"    -> <<url.path[i].text>>
       [] url.path[i].kind = "segment"   -> <<value.path[i]>>
       [] url.path[i].kind = "remaining" -> value.path[i]]

\* A "+" that is sent as it is means a space to the http4s server and a "+" to that of
\* Pekko; for the remaining segments it stands for a space, and Pekko and sttp send a "+"
\* that is escaped there as it is, too.
PlusMistaken(url, value) ==
  \E i \in DOMAIN url.path :
    \/ /\ url.path[i].kind = "segment" /\ Contains(value.path[i], "+")
       /\ sender # "fetch" /\ receiver = "http4s"
    \/ /\ url.path[i].kind = "remaining" /\ receiver = "pekko"
       /\ \E j \in DOMAIN value.path[i] : Contains(value.path[i][j], "+")
    \/ /\ url.path[i].kind = "remaining" /\ receiver = "http4s"
       /\ sender \in {"pekko", "sttp"}
       /\ \E j \in DOMAIN value.path[i] : Contains(value.path[i][j], "%2B")

\* `path / ""` is written like `path`. The http4s client leaves out empty segments at the
\* start of a path, and the Pekko client takes what follows one there for a host; the http4s
\* server leaves out those at the end but for one, and Pekko rejects a path with an empty
\* segment that is not its last.
EmptySegmentLost(url, value) ==
  LET parts == TextsOf(url, value)
      texts == Joined(OnWire, parts)   \* the first is that of the root
  IN  \/ texts = <<<<>>, <<>>>>
      \/ sender = "http4s" /\ Len(parts) > 1 /\ parts[2] = <<<<>>>>
      \/ sender = "pekko" /\ Len(texts) > 2 /\ texts[2] = <<>>
      \/ \E i \in 2..(Len(texts) - 1) :
           texts[i] = <<>> /\ (receiver = "pekko" \/ (i + 1 = Len(texts) /\ texts[i + 1] = <<>>))

\* Servers compare a static segment with one segment of the path, clients write its
\* slashes as they are.
SlashInStaticSegment(url) ==
  \E i \in DOMAIN url.path : url.path[i].kind = "static" /\ Contains(url.path[i].text, "/")

\* The value that a client puts in a URL is the one that the server decodes from it, in
\* the path and in the query string, whatever characters it has, absent, empty and
\* repeated parameters included; the named cases are the only ones where it is not.
UrlRoundTrip ==
  IsUrl(message) /\ received # NotYet =>
    LET url == message.url  value == message.value IN
    (received \notin {NotMatched, Malformed} /\ Meaning(url, received) = Meaning(url, value))
      <=> ~(\/ PlusMistaken(url, value)
            \/ EmptySegmentLost(url, value)
            \/ SlashInStaticSegment(url))
=============================================================================
