---------------------------- MODULE MCHttpClients ----------------------------
(***************************************************************************)
(* An instance of HttpClients for TLC.                                     *)
(***************************************************************************)
EXTENDS HttpClients, TLC

Response(status, header, entity) ==
  [status |-> status, header |-> header, entity |-> entity, as |-> "value"]

\* One response with both kinds of headers; a choice of responses, one of them with the
\* status of the client errors; a stream to which headers are added; two responses with
\* the same status.
Strict  == [responses |-> <<Response("ok", TRUE, "decoded")>>, added |-> TRUE]
Choice  == [responses |-> <<Response("ok", FALSE, "empty"),
                            Response("clientErrors", TRUE, "empty")>>, added |-> FALSE]
Stream  == [responses |-> <<Response("ok", FALSE, "stream")>>, added |-> TRUE]
Twice   == [responses |-> <<Response("ok", TRUE, "empty"),
                            Response("ok", FALSE, "decoded")>>, added |-> FALSE]

CONSTANTS c1, c2

SomeCalls == {c1, c2}

\* The second call competes with the first one for the connection.
SomeEndpoints == c1 :> {Strict, Choice, Stream, Twice} @@ c2 :> {Stream}

\* An answer with nothing wrong, with one thing wrong or with two of them, for "ok"; less
\* of that for the other statuses.
SomeAnswers ==
  {a \in AnswerType :
     /\ a.status # "notFound"
     /\ a.own = "good" \/ a.added = "good" \/ a.decodes
     /\ a.status # "ok" => a.added = "good" /\ a.own # "bad"
     /\ a.status \in {"serverError", "other"} => a.own = "good"
     /\ a.status = "other" => a.decodes}
=============================================================================
