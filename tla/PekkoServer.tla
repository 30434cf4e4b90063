---------------------------- MODULE PekkoServer -----------------------------
(***************************************************************************)
(* How the pekko-http server interpreter processes a request: an endpoint  *)
(* is a route made of directives, which completes the request, rejects it, *)
(* or throws into the exception handler around it. A rejection, wherever   *)
(* it comes from, leads to the next route.                                 *)
(***************************************************************************)
EXTENDS RequestProcessing

vars == <<routes, request, oracle, s>>

Init == InputInit /\ s = Start

\* What `~` does with a rejection. When all routes reject, the backend answers.
Rejected ==
  IF s.at < Len(routes)
  THEN [s EXCEPT !.at = @ + 1, !.stage = "method", !.invalid = {}]
  ELSE Unmatched

MatchMethod == Ask("method", [yes |-> To("url"), no |-> Rejected])

\* A bug: the URL is matched again and again.
DecodeUrlAgain ==
  Ask("url", [none |-> To("method"), valid |-> To("headers"),
              invalid |-> Invalidated("headers"), throws |-> ServerError])

DecodeUrl ==
  Ask("url", [none |-> Rejected, valid |-> To("headers"),
              invalid |-> Invalidated("headers"), throws |-> ServerError])

AfterHeaders == IF Endpoint.auth THEN "credentials" ELSE "added"

DecodeHeaders ==
  Ask("headers", [valid |-> To(AfterHeaders), invalid |-> Invalidated(AfterHeaders),
                  throws |-> ServerError])

\* A bug: no credentials are the end of the checks, but not of the request.
CheckCredentialsLater ==
  /\ s.stage = "credentials"
  /\ s' = IF request.credentials THEN To("added") ELSE Invalidated("added")
  /\ UNCHANGED <<routes, request, oracle>>

CheckCredentials ==
  /\ s.stage = "credentials"
  /\ s' = IF request.credentials THEN To("added") ELSE Answer("unauthorized", {})
  /\ UNCHANGED <<routes, request, oracle>>

DecodeAdded ==
  Ask("added", [valid |-> To("validated"), invalid |-> Invalidated("validated"),
                throws |-> ServerError])

Validate ==
  /\ s.stage = "validated"
  /\ s' = IF s.invalid = {} THEN To("first") ELSE ClientErrors(s.invalid)
  /\ UNCHANGED <<routes, request, oracle>>

\* Directives.entity turns what its unmarshaller raises into a rejection; a mapping of the
\* entity is outside of it and throws.
EntityOutcomes(c, rejected) ==
  [valid |-> To("transform"), invalid |-> ClientErrors({c}),
   mediaType |-> rejected, decoderThrows |-> rejected, mapThrows |-> ServerError]

\* `|` tries the second alternative when the first rejects.
DecodeEntity ==
  \/ Ask("first", EntityOutcomes("first", To("second")))
  \/ Ask("second", EntityOutcomes("second", Rejected))

\* implementedBy runs the implementation inside of encodeResponse, implementedByAsync
\* encodeResponse inside of the implementation's result; multiplexed endpoints have none.
AfterTransform == [sync |-> "encoding", async |-> "run", mux |-> "command"][Endpoint.kind]
AfterEncoding  == IF Endpoint.kind = "sync" THEN "run" ELSE "responseHeaders"
AfterRun       == IF Endpoint.kind = "async" THEN "encoding" ELSE "responseHeaders"

\* A bug: what the transformation finds invalid is provided.
TransformLeniently ==
  Ask("transform", [valid |-> To(AfterTransform), invalid |-> To(AfterTransform),
                    throws |-> ServerError])

Transform ==
  Ask("transform", [valid |-> To(AfterTransform), invalid |-> ClientErrors({"transform"}),
                    throws |-> ServerError])

DecodeCommand ==
  Ask("command", [valid |-> To("run"), invalid |-> ClientErrors({"command"}),
                  throws |-> ServerError])

NegotiateEncoding ==
  /\ s.stage = "encoding"
  /\ s' = IF request.encoding THEN To(AfterEncoding) ELSE Rejected
  /\ UNCHANGED <<routes, request, oracle>>

Failed == IF Endpoint.kind = "mux" THEN ClientErrors({"run"}) ELSE ServerError

\* A bug: a future that fails rejects the request.
RunOrReject ==
  Ask("run", [value |-> Ran(To(AfterRun)), throws |-> Ran(ServerError),
              fails |-> Ran(Rejected)])

RunImplementation ==
  Ask("run", [value |-> Ran(To(AfterRun)), throws |-> Ran(ServerError),
              fails |-> Ran(Failed)])

\* Directives.complete negotiates the content type before it marshals the entity.
EncodeResponse ==
  \/ Ask("responseHeaders", [ok |-> To("accept"), throws |-> ServerError])
  \/ Ask("accept", [yes |-> To("responseEntity"), no |-> Rejected])
  \/ Ask("responseEntity", [ok |-> Answer("value", {}), throws |-> ServerError])

Next ==
  \/ MatchMethod \/ DecodeUrl \/ DecodeHeaders \/ CheckCredentials \/ DecodeAdded
  \/ Validate \/ DecodeEntity \/ Transform \/ DecodeCommand
  \/ NegotiateEncoding \/ RunImplementation \/ EncodeResponse

Spec == Init /\ [][Next]_vars

(***************************************************************************)
(* Implementations run in the order of the routes, each at most once, and  *)
(* the result of one is only dropped, for a later route to run, when the   *)
(* client does not accept its response: what failed is answered.           *)
(***************************************************************************)
Unacceptable(r) ==
  \/ oracle[r].accept = "no"
  \/ routes[r].kind = "async" /\ ~request.encoding

DroppedOnlyIfUnacceptable ==
  /\ \A i, j \in DOMAIN s.ran : i < j => s.ran[i] < s.ran[j]
  /\ \A r \in RoutesRun :
       s.at > r \/ (Answered /\ s.answer.route # r) =>
         oracle[r].run = "value" /\ Unacceptable(r)

(***************************************************************************)
(* An exception ends the request with a server error of the endpoint that  *)
(* threw it, and no later route is tried; but for those that unmarshalling *)
(* raises and the failures of a multiplexed handler.                       *)
(***************************************************************************)
ThrewOutside(r) ==
  \/ \E c \in Checks \ {"run"} : oracle[r][c] \in {"throws", "mapThrows"}
  \/ oracle[r].run = "throws"
  \/ oracle[r].run = "fails" /\ routes[r].kind # "mux"

ThrownIsAnswered ==
  \A r \in DOMAIN routes : ThrewOutside(r) =>
    s.answer = [status |-> "serverError", route |-> r, errors |-> {}]
=============================================================================
