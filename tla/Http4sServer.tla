---------------------------- MODULE Http4sServer ----------------------------
(***************************************************************************)
(* How the http4s server interpreter processes a request: the routes are   *)
(* partial functions chained by orElse, and the decoding of the entity is  *)
(* an effect. An error raised in that effect is left to the HTTP backend.  *)
(***************************************************************************)
EXTENDS RequestProcessing

vars == <<routes, request, oracle, s>>

Init == InputInit /\ s = Start

\* A bug: the end of the chain is overlooked.
NextRouteBeyond == [s EXCEPT !.at = @ + 1, !.stage = "method", !.invalid = {}]

\* routesFromEndpoints: the next partial function of the chain.
NextRoute ==
  IF s.at < Len(routes)
  THEN [s EXCEPT !.at = @ + 1, !.stage = "method", !.invalid = {}]
  ELSE Unmatched

MatchMethod == Ask("method", [yes |-> To("url"), no |-> NextRoute])

\* A bug: a URL that does not decode is not a match.
DecodeUrlOrSkip ==
  Ask("url", [none |-> NextRoute, valid |-> To("headers"),
              invalid |-> NextRoute, throws |-> ServerError])

DecodeUrl ==
  Ask("url", [none |-> NextRoute, valid |-> To("headers"),
              invalid |-> Invalidated("headers"), throws |-> ServerError])

AfterHeaders == IF Endpoint.auth THEN "credentials" ELSE "added"

\* A bug: the errors of the URL are forgotten.
DecodeHeadersOnly ==
  Ask("headers", [valid   |-> To(AfterHeaders),
                  invalid |-> [Invalidated(AfterHeaders) EXCEPT !.invalid = {"headers"}],
                  throws  |-> ServerError])

\* validatedUrl.zip(headers): the errors of both.
DecodeHeaders ==
  Ask("headers", [valid |-> To(AfterHeaders), invalid |-> Invalidated(AfterHeaders),
                  throws |-> ServerError])

\* A bug: errors are reported before the credentials are looked at.
CheckCredentialsLast ==
  /\ s.stage = "credentials"
  /\ s' = IF s.invalid # {} THEN ClientErrors(s.invalid)
          ELSE IF request.credentials THEN To("added") ELSE Answer("unauthorized", {})
  /\ UNCHANGED <<routes, request, oracle>>

\* authenticatedRequest: without credentials, whatever the URL and the headers say.
CheckCredentials ==
  /\ s.stage = "credentials"
  /\ s' = IF request.credentials THEN To("added") ELSE Answer("unauthorized", {})
  /\ UNCHANGED <<routes, request, oracle>>

DecodeAdded ==
  Ask("added", [valid |-> To("validated"), invalid |-> Invalidated("validated"),
                throws |-> ServerError])

\* Request.matches: the errors of the URL and the headers or, without any, the entity.
Validate ==
  /\ s.stage = "validated"
  /\ s' = IF s.invalid = {} THEN To("first") ELSE ClientErrors(s.invalid)
  /\ UNCHANGED <<routes, request, oracle>>

EntityOutcomes(c, raised) ==
  [valid |-> To("transform"), invalid |-> ClientErrors({c}),
   mediaType |-> raised, decoderThrows |-> raised, mapThrows |-> raised]

\* choiceRequestEntity: any error that the first alternative raises leads to the second.
DecodeEntity ==
  \/ Ask("first", EntityOutcomes("first", To("second")))
  \/ Ask("second", EntityOutcomes("second", Raised))

AfterTransform == IF Endpoint.kind = "mux" THEN "command" ELSE "run"

\* A bug: what the transformation finds invalid goes through.
TransformLeniently ==
  Ask("transform", [valid |-> To(AfterTransform), invalid |-> To(AfterTransform),
                    throws |-> Raised])

Transform ==
  Ask("transform", [valid |-> To(AfterTransform), invalid |-> ClientErrors({"transform"}),
                    throws |-> Raised])

DecodeCommand ==
  Ask("command", [valid |-> To("run"), invalid |-> ClientErrors({"command"}),
                  throws |-> ServerError])

\* A bug: no recoverWith around the effect of the implementation.
RunUnrecovered ==
  Ask("run", [value |-> Ran(To("responseHeaders")), throws |-> Ran(ServerError),
              fails |-> Ran(Raised)])

RunImplementation ==
  Ask("run", [value |-> Ran(To("responseHeaders")), throws |-> Ran(ServerError),
              fails |-> Ran(ServerError)])

EncodeResponse ==
  \/ Ask("responseHeaders", [ok |-> To("responseEntity"), throws |-> ServerError])
  \/ Ask("responseEntity", [ok |-> Answer("value", {}), throws |-> ServerError])

Next ==
  \/ MatchMethod \/ DecodeUrl \/ DecodeHeaders \/ CheckCredentials \/ DecodeAdded
  \/ Validate \/ DecodeEntity \/ Transform \/ DecodeCommand
  \/ RunImplementation \/ EncodeResponse

Spec == Init /\ [][Next]_vars

(***************************************************************************)
(* The first route whose method and URL match owns the request: no other   *)
(* answers it or runs, even when the answer is a validation error.         *)
(***************************************************************************)
Skipped(r) == oracle[r].method = "no" \/ oracle[r].url = "none"

FirstMatchOwnsRequest ==
  \A r \in DOMAIN routes :
    oracle[r].url \in Validity /\ (\A q \in 1 .. r - 1 : Skipped(q)) =>
      /\ Answered => s.answer.route = r
      /\ RoutesRun \subseteq {r}

(***************************************************************************)
(* An exception ends the request with a server error of the endpoint that  *)
(* threw it; but for those that the effect of the decoding raises.         *)
(***************************************************************************)
ThrewOutside(r) ==
  \/ \E c \in {"url", "headers", "added", "command", "responseHeaders", "responseEntity"} :
       oracle[r][c] = "throws"
  \/ oracle[r].run \in {"throws", "fails"}

ThrownIsAnswered ==
  \A r \in DOMAIN routes : ThrewOutside(r) =>
    s.answer = [status |-> "serverError", route |-> r, errors |-> {}]
=============================================================================
