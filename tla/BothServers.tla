---------------------------- MODULE BothServers -----------------------------
(***************************************************************************)
(* The same endpoints, with the same decoders and implementations, given   *)
(* to both server interpreters, and the same request sent to both: to the  *)
(* http4s server and then to the Pekko server. The servers share nothing,  *)
(* but what a check has answered one of them it answers the other.         *)
(***************************************************************************)
EXTENDS RequestProcessing

VARIABLES
  server,         \* which of them processes the request; s and oracle are about it
  http4s,         \* how the http4s server ended, once it has
  http4sOracle    \* what the checks have answered the http4s server

Http4s == INSTANCE Http4sServer
Pekko  == INSTANCE PekkoServer

http4sVars == <<http4s, http4sOracle>>
vars == <<routes, request, oracle, s, server, http4s, http4sOracle>>

Init ==
  /\ InputInit
  /\ s = Start
  /\ server = "http4s"
  /\ http4s = s
  /\ http4sOracle = oracle

Http4sStep == server = "http4s" /\ Http4s!Next /\ UNCHANGED <<server, http4sVars>>

\* The request is sent again.
Resend ==
  /\ server = "http4s" /\ Answered
  /\ server' = "pekko"
  /\ http4s' = s /\ http4sOracle' = oracle
  /\ s' = Start /\ oracle' = [r \in DOMAIN routes |-> [c \in Checks |-> Unasked]]
  /\ UNCHANGED <<routes, request>>

Consistent ==
  \A r \in DOMAIN routes, c \in Checks :
    Unasked \in {http4sOracle[r][c], oracle[r][c]} \/ http4sOracle[r][c] = oracle[r][c]

PekkoStep == server = "pekko" /\ UNCHANGED <<server, http4sVars>> /\ Pekko!Next /\ Consistent'

Next == Http4sStep \/ Resend \/ PekkoStep

Spec == Init /\ [][Next]_vars

\* Decoders and implementations return, and both runtimes run what is ready.
FairSpec == Spec /\ WF_vars(Next)

(***************************************************************************)
(* On the http4s server, the first route whose method and URL match owns   *)
(* the request: no other answers it or runs, even when the answer is a     *)
(* validation error.                                                       *)
(***************************************************************************)
FirstMatchOwnsRequest == server = "http4s" => Http4s!FirstMatchOwnsRequest

(***************************************************************************)
(* On the Pekko server, implementations run in the order of the routes,    *)
(* each at most once, and the result of one is only dropped, for a later   *)
(* route to run, when the client does not accept its response.             *)
(***************************************************************************)
DroppedOnlyIfUnacceptable == server = "pekko" => Pekko!DroppedOnlyIfUnacceptable

(***************************************************************************)
(* An exception ends the request with a server error of the endpoint that  *)
(* threw it, and no later route is tried; but for those of http4s that the *)
(* decoding of the entity and the transformation raise, and those of Pekko *)
(* that the unmarshalling and a failed multiplexed handler raise.          *)
(***************************************************************************)
ThrownIsAnswered ==
  /\ server = "http4s" => Http4s!ThrownIsAnswered
  /\ server = "pekko"  => Pekko!ThrownIsAnswered

(***************************************************************************)
(* Both servers answer every request, or leave it to the backend.          *)
(***************************************************************************)
EveryRequestAnswered == <>(server = "pekko" /\ Answered)

(***************************************************************************)
(* Where the interpreters differ, on an endpoint r that both have tried:   *)
(* a mapping of the request throws; no alternative of the entity could be  *)
(* unmarshalled and a later route of the Pekko server matches; a handler   *)
(* of multiplexed requests fails; the client does not accept the response  *)
(* of an implementation that ran on the http4s server.                     *)
(***************************************************************************)
MappingThrows(r) ==
  http4sOracle[r].transform = "throws" \/ "mapThrows" \in {oracle[r].first, oracle[r].second}
TriesLaterRoute(r) ==
  /\ oracle[r].second \in {"mediaType", "decoderThrows"}
  /\ \E q \in r + 1 .. Len(routes) : oracle[q].url \in Validity
HandlerFails(r) == routes[r].kind = "mux" /\ oracle[r].run = "fails"
NotAccepted(r) ==
  /\ http4sOracle[r].run # Unasked
  /\ oracle[r].accept = "no" \/ (~request.encoding /\ routes[r].kind # "mux")

SameAnswer(a, b) ==
  /\ a.status = b.status
  /\ a.errors = b.errors
  /\ a.status = "backend" \/ a.route = b.route

(***************************************************************************)
(* But for these, both interpreters run the same implementations and give  *)
(* the same answer, for any endpoints and any request.                     *)
(***************************************************************************)
InterpretersAgree ==
  server = "pekko" /\ Answered =>
    \/ \E r \in DOMAIN routes :
         MappingThrows(r) \/ TriesLaterRoute(r) \/ HandlerFails(r) \/ NotAccepted(r)
    \/ SameAnswer(http4s.answer, s.answer) /\ http4s.ran = s.ran
=============================================================================
