--------------------------- MODULE MCFramedStream ---------------------------
(***************************************************************************)
(* Instances of FramedStream for TLC.                                      *)
(***************************************************************************)
EXTENDS FramedStream

NoBadValue  == {}
BadValue    == {<<"a", "b">>}

\* Any text for those that decode it across chunks, ASCII for the fetch client.
TextOrAscii ==
  [r \in Receivers |-> BadValue \cup {<<"a">>} \cup (IF r = "fetch" THEN {} ELSE {<<"e">>})]
AnyText == [r \in Receivers |-> {<<"a">>, <<"e">>, <<"e", "b">>}]

\* Responses of any server to the fetch client.
ToFetch == {<<"between", "fetch">>}

\* Requests of the fetch client to an http4s server.
FetchToHttp4s == {<<"afterEach", "http4s">>}

\* The pairs that understand each other: servers and clients of http4s and Pekko, the
\* requests of the fetch client to a Pekko server, and the responses that it gets.
GoodPairs ==
  {<<"between", "http4s">>, <<"between", "pekko">>, <<"afterEach", "pekko">>} \cup ToFetch
=============================================================================
