------------------------- MODULE RequestProcessing --------------------------
(***************************************************************************)
(* What the two server interpreters (http4s and pekko-http) share: a list  *)
(* of endpoints that are tried in turn on one request, and the answer that *)
(* comes out of it.                                                        *)
(*                                                                         *)
(* The decoders, mappings and implementations that an application puts     *)
(* into its endpoints are unknown functions of the request. Each is a      *)
(* check; the oracle chooses what a check answers when it is first asked,  *)
(* and remembers it. A part that  a description does not have (headers, a  *)
(* second alternative of the entity, a mapping) is a check that answers    *)
(* "valid", or, for an alternative, the same as the first one.             *)
(***************************************************************************)
EXTENDS Naturals, Sequences, FiniteSets

CONSTANT Tables   \* the lists of endpoints that are explored

(***************************************************************************)
(* An endpoint, as far as the interpreters tell endpoints apart: does its  *)
(* request ask for credentials (authenticatedRequest), and is it given by  *)
(* implementedBy, by implementedByAsync or implementedByEffect, or is it a *)
(* multiplexed endpoint.                                                   *)
(***************************************************************************)
EndpointType == [auth : BOOLEAN, kind : {"sync", "async", "mux"}]

ASSUME TablesAssumption == \A t \in Tables : t \in Seq(EndpointType) /\ t # <<>>

VARIABLES
  routes,   \* the endpoints of the server, in the order in which they are tried
  request,  \* what the request's Authorization and Accept-Encoding headers say
  oracle,   \* what the checks of each endpoint have answered so far
  s         \* the server: route and stage, invalid parts, implementations run, answer

Validity == {"valid", "invalid", "throws"}
Raises == {"mediaType", "decoderThrows", "mapThrows"}

Verdicts == [
  method    |-> {"yes", "no"},
  url       |-> Validity \cup {"none"},
  headers   |-> Validity,
  added     |-> Validity,                       \* addRequestHeaders, addRequestQueryString
  first     |-> {"valid", "invalid"} \cup Raises,   \* the request entity, and the
  second    |-> {"valid", "invalid"} \cup Raises,   \* alternative of choiceRequestEntity
  transform |-> Validity,                       \* xmapPartial on the request
  command   |-> Validity,                       \* the decoder of a multiplexed request
  run       |-> {"value", "throws", "fails"},   \* the implementation
  responseHeaders |-> {"ok", "throws"},
  accept    |-> {"yes", "no"},                  \* does Accept admit the response's type?
  responseEntity  |-> {"ok", "throws"}]

Checks == DOMAIN Verdicts
AnyVerdict == UNION {Verdicts[c] : c \in Checks}
Unasked == "unasked"

NoAnswer == [status |-> "none", route |-> 0, errors |-> {}]
Statuses == {"none", "value", "unauthorized", "clientErrors", "serverError", "backend"}

Start == [at |-> 1, stage |-> "method", invalid |-> {}, ran |-> <<>>, answer |-> NoAnswer]

InputInit ==
  /\ routes \in Tables
  /\ request \in [credentials : BOOLEAN, encoding : BOOLEAN]
  /\ oracle = [r \in 1 .. Len(routes) |-> [c \in Checks |-> Unasked]]

Endpoint == routes[s.at]
Answered == s.stage = "done"

(***************************************************************************)
(* What can become of the server in a step.                                *)
(***************************************************************************)
To(stage) == [s EXCEPT !.stage = stage]
Invalidated(next) == [s EXCEPT !.stage = next, !.invalid = @ \cup {s.stage}]
Answer(status, errors) ==
  [s EXCEPT !.stage = "done",
            !.answer = [status |-> status, route |-> s.at, errors |-> errors]]
ServerError == Answer("serverError", {})
ClientErrors(errors) == Answer("clientErrors", errors)
Raised == Answer("backend", {})
Unmatched == [s EXCEPT !.stage = "done", !.answer = [NoAnswer EXCEPT !.status = "backend"]]

\* The implementation has run, whatever comes of it.
Ran(outcome) == [outcome EXCEPT !.ran = Append(@, s.at)]

(***************************************************************************)
(* The server is at stage c: it asks check c, and outcomes says for each   *)
(* verdict what becomes of the server. The function given to implementedBy *)
(* returns or throws; an effect or a future may also fail.                 *)
(***************************************************************************)
Ask(c, outcomes) ==
  /\ s.stage = c
  /\ \E v \in DOMAIN outcomes :
       /\ oracle[s.at][c] \in {Unasked, v}
       /\ c = "run" /\ Endpoint.kind = "sync" => v # "fails"
       /\ oracle' = [oracle EXCEPT ![s.at][c] = v]
       /\ s' = outcomes[v]
  /\ UNCHANGED <<routes, request>>

(***************************************************************************)
(* Properties of a server.                                                 *)
(***************************************************************************)
Stages == Checks \cup {"credentials", "validated", "encoding", "done"}

ServerTypeOK ==
  /\ routes \in Tables
  /\ request \in [credentials : BOOLEAN, encoding : BOOLEAN]
  /\ oracle \in [1 .. Len(routes) -> [Checks -> AnyVerdict \cup {Unasked}]]
  /\ \A r \in 1 .. Len(routes), c \in Checks : oracle[r][c] \in Verdicts[c] \cup {Unasked}
  /\ s \in [at : 1 .. Len(routes), stage : Stages, invalid : SUBSET Checks,
            ran : Seq(1 .. Len(routes)),
            answer : [status : Statuses, route : 0 .. Len(routes), errors : SUBSET Checks]]
  /\ Answered <=> s.answer.status # "none"

RoutesRun == {s.ran[i] : i \in 1 .. Len(s.ran)}

EntityValid(r) ==
  \/ oracle[r].first = "valid"
  \/ oracle[r].first \in Raises /\ oracle[r].second = "valid"

RequestValid(r) ==
  /\ oracle[r].method = "yes"
  /\ \A c \in {"url", "headers", "added", "transform"} : oracle[r][c] = "valid"
  /\ EntityValid(r)
  /\ routes[r].auth => request.credentials
  /\ routes[r].kind = "mux" => oracle[r].command = "valid"

(***************************************************************************)
(* An implementation runs only on a request that passed every check of its *)
(* endpoint: the value that it receives was decoded in full and, where the *)
(* endpoint asks for them, with credentials.                               *)
(***************************************************************************)
RunsOnlyValidRequests == \A r \in RoutesRun : RequestValid(r)

(***************************************************************************)
(* A request without credentials learns nothing of an endpoint that asks   *)
(* for them but that it is unauthorized: the entity is not read, nothing   *)
(* that comes after the credentials is evaluated, and even a request whose *)
(* URL or headers are invalid is answered 401 and not 400.                 *)
(***************************************************************************)
UnauthorizedFirst ==
  \A r \in 1 .. Len(routes) : routes[r].auth /\ ~request.credentials =>
    /\ \A c \in Checks \ {"method", "url", "headers"} : oracle[r][c] = Unasked
    /\ s.answer.route = r => s.answer.status \in {"unauthorized", "serverError"}

(***************************************************************************)
(* A 400 lists every part of the request that was found invalid, those of  *)
(* the URL, of the headers and of what was added to them together, and an  *)
(* entity is not read when one of them is invalid.                         *)
(***************************************************************************)
Validations == {"url", "headers", "added", "first", "second", "transform", "command"}
AllErrorsReported ==
  /\ s.answer.status = "clientErrors" =>
       s.answer.errors \cap Validations =
         {c \in Validations : oracle[s.answer.route][c] = "invalid"}
  /\ \A r \in 1 .. Len(routes) :
       (\E c \in {"url", "headers", "added"} : oracle[r][c] = "invalid") =>
          oracle[r].first = Unasked

(***************************************************************************)
(* What the stage of the server says of the route that it is trying: the   *)
(* checks that are behind were passed or, up to the validation, noted.     *)
(* With it, RunsOnlyValidRequests is inductive.                            *)
(***************************************************************************)
Responding == {"run", "responseHeaders", "accept", "responseEntity"}
Transformed == Responding \cup {"command", "encoding"}
EntityRead == Transformed \cup {"transform"}
Validated == EntityRead \cup {"first", "second"}
Authorized == Validated \cup {"added", "validated"}

Noted(c) == oracle[s.at][c] = "valid" \/ (oracle[s.at][c] = "invalid" /\ c \in s.invalid)

Progress ==
  LET r == s.at IN
  /\ s.stage \notin {"method", "done"} => oracle[r].method = "yes"
  /\ s.stage \in Authorized \cup {"headers", "credentials"} => Noted("url")
  /\ s.stage \in Authorized \cup {"credentials"} => Noted("headers")
  /\ s.stage \in Authorized => (routes[r].auth => request.credentials)
  /\ s.stage \in Validated \cup {"validated"} => Noted("added")
  /\ s.stage \in Validated => s.invalid = {}
  /\ s.stage = "second" => oracle[r].first \in Raises
  /\ s.stage \in EntityRead => EntityValid(r)
  /\ s.stage \in Transformed => oracle[r].transform = "valid"
  /\ s.stage \in Transformed \ {"command"} =>
       (routes[r].kind = "mux" => oracle[r].command = "valid")

ServerInv == ServerTypeOK /\ Progress /\ RunsOnlyValidRequests

(***************************************************************************)
(* The manual of both servers: "If an exception is thrown during request   *)
(* decoding, or when running the business logic [...], endpoints4s returns *)
(* an Internal Server Error (500) response": that is, when a mapping of    *)
(* the request throws, or the last alternative of the entity.              *)
(***************************************************************************)
DecodingExceptionsAnswered ==
  Answered /\ (\E r \in DOMAIN routes : \/ oracle[r].transform = "throws"
                                       \/ oracle[r].second \in {"decoderThrows", "mapThrows"})
    => s.answer.status = "serverError"
=============================================================================
