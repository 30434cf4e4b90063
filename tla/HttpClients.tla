---------------------------- MODULE HttpClients ----------------------------
(***************************************************************************)
(* The http4s, pekko-http and sttp clients, on a shared pool of            *)
(* connections: how a call sends its request, selects a response of its    *)
(* endpoint, reads, discards or hands over the entity, and gives its       *)
(* connection back. What the libraries below do (the pool, the transport)  *)
(* is external.                                                            *)
(***************************************************************************)
EXTENDS Naturals, Sequences, FiniteSets

CONSTANTS
  Calls,
  Endpoints,   \* the endpoints that each call may be of
  Answers,     \* the responses of the server
  PoolSize     \* the connections of the pool

Clients == {"http4s", "pekko", "sttp"}

\* http4s: `send` keeps the connection while the caller uses the result.
Ways == {"send", "sendAndConsume", "apply"}

Statuses     == {"ok", "notFound", "clientErrors", "serverError", "other"}
Entities     == {"empty", "decoded", "stream"}
HeaderValues == {"absent", "good", "bad"}   \* "bad": the function given to xmap throws

\* A response of an endpoint: its status, whether it declares a header, its entity, and
\* what a decoded entity becomes.
ResponseType == [status : Statuses, header : BOOLEAN, entity : Entities,
                 as : {"value", "clientErrors", "serverError"}]

\* `added`: a header is declared by addResponseHeaders, on top of the responses.
EndpointType == [responses : Seq(ResponseType), added : BOOLEAN]

\* `decodes`: the codec accepts the entity.
AnswerType == [status : Statuses, own : HeaderValues, added : HeaderValues, decodes : BOOLEAN]

ASSUME HttpClientsAssumption ==
  /\ IsFiniteSet(Calls)
  /\ Endpoints \in [Calls -> SUBSET EndpointType]
  /\ \A c \in Calls : \A e \in Endpoints[c] :
       \A i \in DOMAIN e.responses : e.responses[i].as = "value"
  /\ Answers \subseteq AnswerType
  /\ PoolSize \in Nat \ {0}

NotCalled == [client |-> "none"]
NoAnswer  == [status |-> "none"]

CallType(c) ==
  {k \in [client : Clients, endpoint : Endpoints[c], way : Ways] :
     /\ (k.client = "http4s") = (k.way # "apply")
     /\ k.client = "sttp" => \A i \in DOMAIN k.endpoint.responses :
                                k.endpoint.responses[i].entity # "stream"}

VARIABLES
  call,     \* what was called
  phase,    \* of the call
  answer,   \* the status and headers received
  holder,   \* who uses the connection of the call
  outcome   \* what the caller was given

vars == <<call, phase, answer, holder, outcome>>

Phases == {"idle", "queued", "sent", "reading", "ended"}

\* The call itself, its caller, a background drain of the entity, or nobody any more.
Holders == {"none", "call", "caller", "drain", "nobody"}

Outcomes == {"none", "value", "clientErrors", "serverError", "unexpectedStatus",
             "headersError", "threw", "decodeError", "transport", "timeout",
             "nullPointer", "canceled", "notSent"}

(***************************************************************************)
(* Decoding of responses.                                                  *)
(***************************************************************************)
ErrorResponses ==
  << [status |-> "clientErrors", header |-> FALSE, entity |-> "decoded", as |-> "clientErrors"],
     [status |-> "serverError",  header |-> FALSE, entity |-> "decoded", as |-> "serverError"] >>

\* Those of the endpoint are tried first.
\* A bug: the built-in responses are tried first.
ResponsesErrorsFirst(e) == ErrorResponses \o e.responses
Responses(e) == e.responses \o ErrorResponses

Matching(e, a) == {i \in DOMAIN Responses(e) : Responses(e)[i].status = a.status}

Selected(e, a) ==
  Responses(e)[CHOOSE i \in Matching(e, a) : \A j \in Matching(e, a) : i <= j]

Own(r, a)      == IF r.header THEN a.own ELSE "good"
Added(e, r, a) == IF e.added /\ r.as = "value" THEN a.added ELSE "good"

\* The headers declared with the response, then those added to it, before the entity.
HeadersVerdict(e, r, a) ==
  LET headers == {Own(r, a), Added(e, r, a)}
  IN  CASE "bad" \in headers                           -> "threw"
        [] headers \in {{"absent"}, {"absent", "good"}} -> "headersError"
        [] headers = {"good"}                          -> "valid"

EntityVerdict(r, a) == IF r.entity = "decoded" /\ ~a.decodes THEN "decodeError" ELSE r.as

\* http4s and sttp: the entity of a response is decoded when its headers are valid.
HeadersFirst(e, r, a) ==
  IF HeadersVerdict(e, r, a) = "valid" THEN EntityVerdict(r, a) ELSE HeadersVerdict(e, r, a)

\* pekko-http: the added headers are decoded after the entity.
EntityFirst(e, r, a) ==
  IF EntityVerdict(r, a) = "decodeError" THEN "decodeError"
  ELSE CASE Added(e, r, a) = "bad"    -> "threw"
         [] Added(e, r, a) = "absent" -> "headersError"
         [] Added(e, r, a) = "good"   -> r.as

(***************************************************************************)
(* Calls.                                                                  *)
(***************************************************************************)
Init ==
  /\ call    = [c \in Calls |-> NotCalled]
  /\ phase   = [c \in Calls |-> "idle"]
  /\ answer  = [c \in Calls |-> NoAnswer]
  /\ holder  = [c \in Calls |-> "none"]
  /\ outcome = [c \in Calls |-> "none"]

Client(c)   == call[c].client
Endpoint(c) == call[c].endpoint

\* The call ends with o, and its connection is left to h.
End(c, o, h) ==
  /\ phase'   = [phase EXCEPT ![c] = "ended"]
  /\ outcome' = [outcome EXCEPT ![c] = o]
  /\ holder'  = [holder EXCEPT ![c] = h]

Read(c) ==
  /\ phase' = [phase EXCEPT ![c] = "reading"]
  /\ UNCHANGED <<holder, outcome>>

Apply(c) ==
  /\ phase[c] = "idle"
  /\ \E k \in CallType(c) : call' = [call EXCEPT ![c] = k]
  /\ \/ phase' = [phase EXCEPT ![c] = "queued"] /\ UNCHANGED <<holder, outcome>>
     \/ End(c, "notSent", "none")   \* the request cannot be built: an exception is thrown
  /\ UNCHANGED answer

Busy == {c \in Calls : holder[c] # "none"}

Acquire(c) ==
  /\ phase[c] = "queued"
  /\ Cardinality(Busy) < PoolSize
  /\ phase'  = [phase EXCEPT ![c] = "sent"]
  /\ holder' = [holder EXCEPT ![c] = "call"]
  /\ UNCHANGED <<call, answer, outcome>>

\* A bug: the resource is used up before its result is given to the caller of `send`.
Http4sHolderUsed(c, o) == "none"
\* A bug: `sendAndConsume` does not release.
Http4sHolderAlways(c, o) == IF o = "value" THEN "caller" ELSE "none"
\* What http4s leaves the connection to, when the call ends with o.
Http4sHolder(c, o) == IF o = "value" /\ call[c].way = "send" THEN "caller" ELSE "none"

Http4sHead(c, a) ==
  IF Matching(Endpoint(c), a) = {}
  THEN End(c, "unexpectedStatus", "none")
  ELSE LET r == Selected(Endpoint(c), a)
           o == HeadersFirst(Endpoint(c), r, a)
       IN  IF HeadersVerdict(Endpoint(c), r, a) = "valid" /\ r.entity = "decoded"
             THEN Read(c)
             ELSE End(c, o, Http4sHolder(c, o))

\* A bug: the entity is left unread.
Undiscarded(c, o) == End(c, o, "nobody")
\* discardBytes: the entity is read in the background.
Discarded(c, o) == End(c, o, "drain")

PekkoHead(c, a) ==
  IF Matching(Endpoint(c), a) = {}
  THEN Discarded(c, "unexpectedStatus")
  ELSE LET r == Selected(Endpoint(c), a)
           o == EntityFirst(Endpoint(c), r, a)
       IN  \/ Own(r, a) = "bad"    /\ End(c, "threw", "nobody")
           \/ Own(r, a) = "absent" /\ Discarded(c, "headersError")
           \/ /\ Own(r, a) = "good"
              /\ \/ r.entity = "empty"   /\ Discarded(c, o)
                 \/ r.entity = "stream"  /\ End(c, o, IF o = "value" THEN "caller" ELSE "nobody")
                 \/ r.entity = "decoded" /\ Read(c)

\* The status and the headers have come. An sttp backend reads the entity in any case.
HeadArrives(c, a) ==
  /\ phase[c] = "sent"
  /\ answer' = [answer EXCEPT ![c] = a]
  /\ CASE Client(c) = "http4s" -> Http4sHead(c, a)
       [] Client(c) = "pekko"  -> PekkoHead(c, a)
       [] Client(c) = "sttp"   -> Read(c)
  /\ UNCHANGED call

SttpOutcome(e, a) ==
  IF Matching(e, a) = {} THEN "unexpectedStatus" ELSE HeadersFirst(e, Selected(e, a), a)

\* The entity was read to its end.
BodyEnds(c) ==
  /\ phase[c] = "reading"
  /\ LET e == Endpoint(c)
         r == Selected(e, answer[c])
     IN CASE Client(c) = "http4s" -> LET o == EntityVerdict(r, answer[c])
                                     IN  End(c, o, Http4sHolder(c, o))
          [] Client(c) = "pekko"  -> End(c, EntityFirst(e, r, answer[c]), "none")
          [] Client(c) = "sttp"   -> End(c, SttpOutcome(e, answer[c]), "none")
  /\ UNCHANGED <<call, answer>>

\* Causes of a failure of the transport: the handler of sttp looks for a timeout in the
\* name of the cause of the exception, and throws when the exception has no cause.
SttpFailure(cause) ==
  CASE cause = "timeout" -> "timeout"
    [] cause = "other"   -> "transport"
    [] cause = "none"    -> "nullPointer"

TransportFails(c) ==
  /\ phase[c] \in {"sent", "reading"}
  /\ \E cause \in {"timeout", "other", "none"} :
       End(c, IF Client(c) = "sttp" THEN SttpFailure(cause) ELSE "transport", "none")
  /\ UNCHANGED <<call, answer>>

\* A bug: the timeout is that of the answer, not of its entity.
ToStrictTimeoutEarly(c) ==
  /\ phase[c] = "sent"
  /\ Client(c) = "pekko"
  /\ End(c, "timeout", "none")
  /\ UNCHANGED <<call, answer>>
\* toStrict(settings.toStrictTimeout) of pekko-http.
ToStrictTimeout(c) ==
  /\ phase[c] = "reading"
  /\ Client(c) = "pekko"
  /\ End(c, "timeout", "none")
  /\ UNCHANGED <<call, answer>>

\* The resource of http4s is released when its fibre is cancelled.
Cancel(c) ==
  /\ phase[c] \in {"queued", "sent", "reading"}
  /\ Client(c) = "http4s"
  /\ End(c, "canceled", "none")
  /\ UNCHANGED <<call, answer>>

GiveBack(c) ==
  /\ holder' = [holder EXCEPT ![c] = "none"]
  /\ UNCHANGED <<call, phase, answer, outcome>>

\* discardBytes has come to the end of the entity, or to its failure.
Drained(c) == holder[c] = "drain" /\ GiveBack(c)

\* The caller has read the stream, or leaves the `use` of the resource.
CallerDone(c) == holder[c] = "caller" /\ GiveBack(c)

\* A server or a pool may close a connection whose entity nobody reads.
CloseIdle(c) == holder[c] = "nobody" /\ GiveBack(c)

Next ==
  \E c \in Calls :
    \/ Apply(c) \/ Acquire(c)
    \/ \E a \in Answers : HeadArrives(c, a)
    \/ BodyEnds(c) \/ TransportFails(c) \/ ToStrictTimeout(c) \/ Cancel(c)
    \/ Drained(c) \/ CallerDone(c) \/ CloseIdle(c)

(***************************************************************************)
(* Fairness. The server answers or the connection fails, and so for the    *)
(* entity; but a pekko-http client does not count on its end, it has a     *)
(* timer. A pool serves its waiting calls. Nothing is assumed of callers,  *)
(* nor of connections that nobody uses.                                    *)
(***************************************************************************)
ServerAnswers(c) == TransportFails(c) \/ \E a \in Answers : HeadArrives(c, a)

BodyEndsOrFails(c) ==
  Client(c) # "pekko" /\ phase[c] = "reading" /\ (BodyEnds(c) \/ TransportFails(c))

SafeSpec == Init /\ [][Next]_vars

Spec ==
  /\ SafeSpec
  /\ \A c \in Calls :
       /\ WF_vars(phase[c] = "sent" /\ ServerAnswers(c))
       /\ WF_vars(BodyEndsOrFails(c)) /\ WF_vars(ToStrictTimeout(c)) /\ WF_vars(Drained(c))
       /\ SF_vars(Acquire(c))

(***************************************************************************)
(* Properties.                                                             *)
(***************************************************************************)
TypeOK ==
  /\ \A c \in Calls : call[c] \in CallType(c) \cup {NotCalled}
  /\ DOMAIN call = Calls
  /\ phase   \in [Calls -> Phases]
  /\ answer  \in [Calls -> Answers \cup {NoAnswer}]
  /\ holder  \in [Calls -> Holders]
  /\ outcome \in [Calls -> Outcomes]

\* The only calls that leave a connection to nobody: those of pekko-http whose own header
\* makes its mapping throw, or whose added header refuses a stream.
Abandons(k, a) ==
  /\ k.client = "pekko"
  /\ Matching(k.endpoint, a) # {}
  /\ LET r == Selected(k.endpoint, a)
     IN  \/ Own(r, a) = "bad"
         \/ r.entity = "stream" /\ Added(k.endpoint, r, a) # "good"

\* A call in progress owns its connection and nothing else does.
Progress(c) ==
  /\ phase[c] = "idle" <=> call[c] = NotCalled
  /\ phase[c] \in {"idle", "queued", "sent"} => answer[c] = NoAnswer
  /\ phase[c] = "reading" => answer[c] # NoAnswer
  /\ phase[c] \in {"sent", "reading"} <=> holder[c] = "call"
  /\ phase[c] \in {"idle", "queued"} => holder[c] = "none"
  /\ phase[c] = "ended" <=> outcome[c] # "none"
  /\ phase[c] = "reading" /\ Client(c) # "sttp" =>
       /\ Matching(Endpoint(c), answer[c]) # {}
       /\ Selected(Endpoint(c), answer[c]).entity = "decoded"
       /\ Own(Selected(Endpoint(c), answer[c]), answer[c]) = "good"
       /\ Client(c) = "http4s" =>
            Added(Endpoint(c), Selected(Endpoint(c), answer[c]), answer[c]) = "good"

\* Who may still use the connection of a call that has ended.
HeldRightly(c) ==
  /\ holder[c] = "caller" =>
       /\ outcome[c] = "value"
       /\ \/ call[c].way = "send"
          \/ Client(c) = "pekko" /\ Selected(Endpoint(c), answer[c]).entity = "stream"
  /\ holder[c] = "drain"  => Client(c) = "pekko"
  /\ holder[c] = "nobody" => answer[c] # NoAnswer /\ Abandons(call[c], answer[c])

\* The connections in use fit the pool; a call in progress holds its own; one that has
\* ended leaves it to a caller who was given a value, to a drain, or, only where
\* Abandons says so, to nobody.
IInv ==
  /\ TypeOK
  /\ Cardinality(Busy) <= PoolSize
  /\ \A c \in Calls : Progress(c) /\ HeldRightly(c)

\* The response that an answer is meant to be, if any: the first of the endpoint's with its
\* status, else the built-in one.
Meant(e, a) ==
  LET declared == {i \in DOMAIN e.responses : e.responses[i].status = a.status}
  IN  IF declared # {}
        THEN {e.responses[i] : i \in {i \in declared : \A j \in declared : i <= j}}
        ELSE {r \in {ErrorResponses[1], ErrorResponses[2]} : r.status = a.status}

\* What is wrong with it, whatever the client.
Problems(e, r, a) ==
  LET headers == {Own(r, a), Added(e, r, a)}
  IN  {p \in {"headersError", "threw", "decodeError"} :
         \/ p = "headersError" /\ "absent" \in headers
         \/ p = "threw"        /\ "bad" \in headers
         \/ p = "decodeError"  /\ r.entity = "decoded" /\ ~a.decodes}

Explained(o, e, a) ==
  \/ o = "unexpectedStatus" /\ Meant(e, a) = {}
  \/ \E r \in Meant(e, a) :
       IF Problems(e, r, a) = {} THEN o = r.as ELSE o \in Problems(e, r, a)

\* Outcomes that are no verdict on an answer: of the transport, the timers, the caller.
NoVerdict == {"none", "transport", "timeout", "nullPointer", "canceled", "notSent"}

\* Whatever the interpreter, an answer with nothing wrong gives what the first response with
\* its status says, and any other one an error that is really in it.
OutcomeExplained ==
  \A c \in Calls :
    outcome[c] \notin NoVerdict =>
      answer[c] # NoAnswer /\ Explained(outcome[c], Endpoint(c), answer[c])

\* A caller who is given a stream is given the connection that it comes from, unless it
\* asked http4s to release it (sendAndConsume).
StreamsHandedOverOpen ==
  [][\A c \in Calls :
       /\ outcome[c] = "none" /\ outcome'[c] = "value"
       /\ Selected(Endpoint(c), answer'[c]).entity = "stream"
       /\ call[c].way # "sendAndConsume"
       => holder'[c] = "caller"]_vars

\* Every connection of the pool is kept by a caller or left to nobody.
PoolStuck == Cardinality({c \in Calls : holder[c] \in {"caller", "nobody"}}) = PoolSize

\* A call ends, also when the server does not: only a pool whose connections are all kept
\* by callers or abandoned can keep it waiting.
CallsEnd == \A c \in Calls : phase[c] # "idle" ~> (phase[c] = "ended" \/ PoolStuck)

\* The connection of a call comes back to the pool, unless the caller keeps it or the
\* call is one that Abandons names.
ConnectionsComeBack ==
  \A c \in Calls :
    holder[c] # "none" ~>
      (holder[c] \in {"none", "caller"} \/ (holder[c] = "nobody" /\ Abandons(call[c], answer[c])))
=============================================================================
