----------------------------- MODULE FetchClient -----------------------------
(***************************************************************************)
(* The Fetch client (fetch/client): `performFetch` and the `Result` that   *)
(* the future interpreter builds on it. A call is a chain of JavaScript    *)
(* promise reactions raced by a timer and by the caller's `abort()`.       *)
(*                                                                         *)
(* The event loop runs one task at a time, and runs every queued promise   *)
(* reaction (`job`) before the next task. A network event and a timer are  *)
(* tasks, so they need NoJobs; the caller may also run in a reaction, so   *)
(* Apply and Abort may come between two jobs. Jobs of different calls run  *)
(* in any order: FIFO is one of those orders.                              *)
(***************************************************************************)
EXTENDS Naturals

CONSTANTS
  Calls,                \* invocations of endpoints
  Statuses,             \* response status codes
  ClientErrorsStatuses, \* those `clientErrorsResponse` accepts
  ServerErrorStatuses,  \* those `serverErrorResponse` accepts
  Endpoints,            \* the endpoints invoked, by what their response accepts
  Timeout               \* whether `settings.timeout` is defined

EndpointType ==
  [accepts : SUBSET Statuses,             \* statuses of the declared response(s)
   entity  : {"strict", "immediate"}]     \* does decoding the entity await the body?

ASSUME FetchAssumption ==
  /\ ClientErrorsStatuses \subseteq Statuses
  /\ ServerErrorStatuses \subseteq Statuses
  /\ Endpoints \subseteq EndpointType
  /\ Timeout \in BOOLEAN

\* What the declared response's header codecs do with a response: decode them,
\* reject them, or throw (a function given to `xmap` threw).
HeaderResults == {"valid", "invalid", "throws"}
FetchResponse == [status : Statuses, headers : HeaderResults]
NoResponse    == [status |-> "none", headers |-> "none"]
NoEndpoint    == [accepts |-> {}, entity |-> "none"]

\* How the caller's promise can be completed.
Outcomes == {"value", "decodeError", "decoderThrew", "headersError", "clientErrors",
             "serverError", "unexpectedStatus", "timeout", "jsError"}

VARIABLES
  endpoint,      \* the endpoint of each call
  fetchPromise,  \* the promise `f` returned by fetch, or the cause of its rejection
  response,      \* the value f was fulfilled with
  entity,        \* which entity decoder was chosen for the response
  entityPromise, \* the promise of the decoded entity
  job,           \* the reaction of the call that is queued, if any
  timer,         \* the timeout's timer
  timedOut,      \* the flag of the same name
  aborter,       \* who aborted the signal first
  result,        \* the caller's promise
  completions    \* how often the code tried to complete it

promises == <<fetchPromise, response, entity, entityPromise>>
vars == <<endpoint, fetchPromise, response, entity, entityPromise, job,
          timer, timedOut, aborter, result, completions>>

TypeOK ==
  /\ endpoint      \in [Calls -> Endpoints \cup {NoEndpoint}]
  /\ fetchPromise  \in [Calls -> {"none", "pending", "fulfilled", "aborted", "failed"}]
  /\ response      \in [Calls -> FetchResponse \cup {NoResponse}]
  /\ entity        \in [Calls -> {"none", "strict", "immediate", "headersError",
                                  "clientErrors", "serverError"}]
  /\ entityPromise \in [Calls -> {"none", "pending", "right", "left", "threw",
                                  "aborted", "failed"}]
  /\ job           \in [Calls -> {"none", "fetchReaction", "entityReaction"}]
  /\ timer         \in [Calls -> {"none", "armed", "cleared", "fired"}]
  /\ timedOut      \in [Calls -> BOOLEAN]
  /\ aborter       \in [Calls -> {"none", "timer", "user"}]
  /\ result        \in [Calls -> Outcomes \cup {"none", "pending", "thrown"}]
  /\ completions   \in [Calls -> Nat]

Init ==
  /\ endpoint      = [c \in Calls |-> NoEndpoint]
  /\ fetchPromise  = [c \in Calls |-> "none"]
  /\ response      = [c \in Calls |-> NoResponse]
  /\ entity        = [c \in Calls |-> "none"]
  /\ entityPromise = [c \in Calls |-> "none"]
  /\ job           = [c \in Calls |-> "none"]
  /\ timer         = [c \in Calls |-> "none"]
  /\ timedOut      = [c \in Calls |-> FALSE]
  /\ aborter       = [c \in Calls |-> "none"]
  /\ result        = [c \in Calls |-> "none"]
  /\ completions   = [c \in Calls |-> 0]

NoJobs == \A c \in Calls : job[c] = "none"

\* promise.success or promise.failure: a second call leaves the promise as it is
\* (and throws in the reaction that makes it).
Complete(c, o) ==
  /\ result'      = [result EXCEPT ![c] = IF @ = "pending" THEN o ELSE @]
  /\ completions' = [completions EXCEPT ![c] = @ + 1]

(***************************************************************************)
(* The caller's operations.                                                *)
(***************************************************************************)
ArmedTimer == IF Timeout THEN "armed" ELSE "none"

\* apply(a): the request is prepared, the timer set, fetch called.
Apply(c) ==
  /\ result[c] = "none"
  /\ \E ep \in Endpoints : endpoint' = [endpoint EXCEPT ![c] = ep]
  /\ timer'        = [timer EXCEPT ![c] = ArmedTimer]
  /\ fetchPromise' = [fetchPromise EXCEPT ![c] = "pending"]
  /\ result'       = [result EXCEPT ![c] = "pending"]
  /\ UNCHANGED <<response, entity, entityPromise, job, timedOut, aborter, completions>>

\* apply(a), when encoding the headers or the entity throws: before the timer is set.
ApplyThrowsEncoding(c) ==
  /\ result[c] = "none"
  /\ result' = [result EXCEPT ![c] = "thrown"]
  /\ UNCHANGED <<endpoint, promises, job, timer, timedOut, aborter, completions>>

\* apply(a), when encoding the URL (`request.href`) throws: after the timer is set.
ApplyThrowsHref(c) ==
  /\ result[c] = "none"
  /\ result' = [result EXCEPT ![c] = "thrown"]
  /\ timer'  = [timer EXCEPT ![c] = ArmedTimer]
  /\ UNCHANGED <<endpoint, promises, job, timedOut, aborter, completions>>

\* Mutant: the request was made without the controller's signal.
AbortSignalUnwired(c) == UNCHANGED <<promises, job>>

\* What aborting the signal does to the promises of the call: it rejects the one that
\* still waits for the network, which queues its reaction.
AbortSignal(c) ==
  \/ /\ fetchPromise[c] = "pending"
     /\ fetchPromise' = [fetchPromise EXCEPT ![c] = "aborted"]
     /\ job'          = [job EXCEPT ![c] = "fetchReaction"]
     /\ UNCHANGED <<response, entity, entityPromise>>
  \/ /\ entityPromise[c] = "pending"
     /\ entityPromise' = [entityPromise EXCEPT ![c] = "aborted"]
     /\ job'           = [job EXCEPT ![c] = "entityReaction"]
     /\ UNCHANGED <<fetchPromise, response, entity>>
  \/ /\ fetchPromise[c] # "pending"
     /\ entityPromise[c] # "pending"
     /\ UNCHANGED <<promises, job>>

\* Mutant: abort() also fails the caller's promise itself.
AbortCompletes(c) ==
  /\ fetchPromise[c] # "none"
  /\ aborter[c] = "none"
  /\ aborter' = [aborter EXCEPT ![c] = "user"]
  /\ AbortSignal(c)
  /\ Complete(c, "jsError")
  /\ UNCHANGED <<endpoint, timer, timedOut>>

\* Result.abort(). A signal is aborted once: later calls change nothing.
Abort(c) ==
  /\ fetchPromise[c] # "none"
  /\ aborter[c] = "none"
  /\ aborter' = [aborter EXCEPT ![c] = "user"]
  /\ AbortSignal(c)
  /\ UNCHANGED <<endpoint, timer, timedOut, result, completions>>

(***************************************************************************)
(* Tasks: the timer and the network.                                       *)
(***************************************************************************)
\* Mutant: the timer sets the flag but does not abort the request.
TimerOnlySetsFlag(c) ==
  /\ NoJobs
  /\ timer[c] = "armed"
  /\ timer'    = [timer EXCEPT ![c] = "fired"]
  /\ timedOut' = [timedOut EXCEPT ![c] = TRUE]
  /\ UNCHANGED <<endpoint, promises, job, aborter, result, completions>>

TimerFires(c) ==
  /\ NoJobs
  /\ timer[c] = "armed"
  /\ timer'    = [timer EXCEPT ![c] = "fired"]
  /\ timedOut' = [timedOut EXCEPT ![c] = TRUE]
  /\ \/ /\ aborter[c] = "none"
        /\ aborter' = [aborter EXCEPT ![c] = "timer"]
        /\ AbortSignal(c)
     \/ /\ aborter[c] # "none"
        /\ UNCHANGED <<aborter, promises, job>>
  /\ UNCHANGED <<endpoint, result, completions>>

HeadersArrive(c) ==
  /\ NoJobs
  /\ fetchPromise[c] = "pending"
  /\ \E r \in FetchResponse : response' = [response EXCEPT ![c] = r]
  /\ fetchPromise' = [fetchPromise EXCEPT ![c] = "fulfilled"]
  /\ job'          = [job EXCEPT ![c] = "fetchReaction"]
  /\ UNCHANGED <<endpoint, entity, entityPromise, timer, timedOut, aborter, result, completions>>

FetchFails(c) ==
  /\ NoJobs
  /\ fetchPromise[c] = "pending"
  /\ fetchPromise' = [fetchPromise EXCEPT ![c] = "failed"]
  /\ job'          = [job EXCEPT ![c] = "fetchReaction"]
  /\ UNCHANGED <<endpoint, response, entity, entityPromise, timer, timedOut, aborter,
                 result, completions>>

\* The body has arrived and is decoded (Right), rejected (Left), or the codec throws;
\* or the connection fails while it is read.
BodyEnds(c) ==
  /\ NoJobs
  /\ entityPromise[c] = "pending"
  /\ \E p \in {"right", "left", "threw", "failed"} :
       entityPromise' = [entityPromise EXCEPT ![c] = p]
  /\ job' = [job EXCEPT ![c] = "entityReaction"]
  /\ UNCHANGED <<endpoint, fetchPromise, response, entity, timer, timedOut, aborter,
                 result, completions>>

(***************************************************************************)
(* Jobs: the reactions that performFetch registers.                        *)
(***************************************************************************)

\* Mutant: the headers of an accepted response are not decoded.
SelectEntityIgnoringHeaders(ep, r) ==
  CASE r.status \in ep.accepts             -> ep.entity
    [] r.status \in ClientErrorsStatuses \ ep.accepts -> "clientErrors"
    [] r.status \in ServerErrorStatuses \ ep.accepts  -> "serverError"
    [] OTHER -> "none"

\* Mutant: the match has no case for a response that nothing accepts.
SelectEntityUnmatched(ep, r) ==
  CASE r.status \in ep.accepts              -> ep.entity
    [] r.status \in ClientErrorsStatuses \ ep.accepts -> "clientErrors"
    [] r.status \in ServerErrorStatuses \ ep.accepts  -> "serverError"
    [] OTHER -> "unmatched"

\* The decoder that `response orElse clientErrors orElse serverError` selects.
SelectEntity(ep, r) ==
  CASE r.status \in ep.accepts /\ r.headers = "valid"   -> ep.entity
    [] r.status \in ep.accepts /\ r.headers = "invalid" -> "headersError"
    [] r.status \in ep.accepts /\ r.headers = "throws"  -> "throws"
    [] r.status \in ClientErrorsStatuses \ ep.accepts   -> "clientErrors"
    [] r.status \in ServerErrorStatuses
                     \ (ep.accepts \cup ClientErrorsStatuses) -> "serverError"
    [] OTHER -> "none"

\* What the promise of the selected decoder may be when it is returned: only a body has to
\* be awaited, and reading one is refused when the signal is aborted already. Without a
\* body there is a value at once, unless a mapping of it throws.
DecodedEntities(c, kind) ==
  CASE kind = "immediate"    -> {"right", "threw"}
    [] kind = "headersError" -> {"left"}
    [] OTHER -> {IF aborter[c] = "none" THEN "pending" ELSE "aborted"}

\* Mutant: the timer is not cleared.
ClearTimeoutForgotten(c) == UNCHANGED timer

ClearTimeout(c) ==
  timer' = [timer EXCEPT ![c] = IF @ = "armed" THEN "cleared" ELSE @]

\* The fulfilment reaction of f.
OnResponse(c) ==
  LET kind == SelectEntity(endpoint[c], response[c]) IN
  /\ job[c] = "fetchReaction"
  /\ fetchPromise[c] = "fulfilled"
  /\ ClearTimeout(c)
  /\ \/ /\ kind = "throws"           \* nothing handles the exception of the reaction
        /\ job' = [job EXCEPT ![c] = "none"]
        /\ UNCHANGED <<entity, entityPromise, result, completions>>
     \/ /\ kind = "none"
        /\ job' = [job EXCEPT ![c] = "none"]
        /\ Complete(c, "unexpectedStatus")
        /\ UNCHANGED <<entity, entityPromise>>
     \/ /\ kind \notin {"throws", "none"}
        /\ entity'        = [entity EXCEPT ![c] = kind]
        /\ \E p \in DecodedEntities(c, kind) :
             /\ entityPromise' = [entityPromise EXCEPT ![c] = p]
             /\ job' = [job EXCEPT ![c] = IF p = "pending" THEN "none" ELSE "entityReaction"]
        /\ UNCHANGED <<result, completions>>
  /\ UNCHANGED <<endpoint, fetchPromise, response, timedOut, aborter>>

\* Mutant: any aborted request is reported as a timeout.
AnyAbortIsTimeout(c) ==
  /\ job[c] = "fetchReaction"
  /\ fetchPromise[c] \in {"aborted", "failed"}
  /\ Complete(c, IF fetchPromise[c] = "aborted" THEN "timeout" ELSE "jsError")
  /\ job' = [job EXCEPT ![c] = "none"]
  /\ UNCHANGED <<endpoint, promises, timer, timedOut, aborter>>

\* Mutant: only a timeout is reported.
OnlyTimeoutReported(c) ==
  /\ job[c] = "fetchReaction"
  /\ fetchPromise[c] \in {"aborted", "failed"}
  /\ \/ timedOut[c] /\ Complete(c, "timeout")
     \/ ~timedOut[c] /\ UNCHANGED <<result, completions>>
  /\ job' = [job EXCEPT ![c] = "none"]
  /\ UNCHANGED <<endpoint, promises, timer, timedOut, aborter>>

\* The rejection reaction of f: an AbortError or a network error, neither of which is
\* a Throwable. The timer is left as it is.
OnFetchError(c) ==
  /\ job[c] = "fetchReaction"
  /\ fetchPromise[c] \in {"aborted", "failed"}
  /\ Complete(c, IF timedOut[c] THEN "timeout" ELSE "jsError")
  /\ job' = [job EXCEPT ![c] = "none"]
  /\ UNCHANGED <<endpoint, promises, timer, timedOut, aborter>>

\* What a settled entity promise means to the caller: onload for a decoded entity,
\* onerror for a rejected one.
OutcomeOf(kind, p) ==
  CASE p = "threw"                   -> "decoderThrew"
    [] p \in {"aborted", "failed"}   -> "jsError"
    [] kind = "headersError"         -> "headersError"
    [] p = "left"                    -> "decodeError"
    [] kind \in {"clientErrors", "serverError"} -> kind
    [] OTHER                         -> "value"

\* The reactions of the entity's promise: onload or onerror.
OnEntity(c) ==
  /\ job[c] = "entityReaction"
  /\ Complete(c, OutcomeOf(entity[c], entityPromise[c]))
  /\ job' = [job EXCEPT ![c] = "none"]
  /\ UNCHANGED <<endpoint, promises, timer, timedOut, aborter>>

RunJob(c) == OnResponse(c) \/ OnFetchError(c) \/ OnEntity(c)

Next ==
  \E c \in Calls :
    \/ Apply(c)
    \/ ApplyThrowsEncoding(c)
    \/ ApplyThrowsHref(c)
    \/ Abort(c)
    \/ TimerFires(c)
    \/ HeadersArrive(c)
    \/ FetchFails(c)
    \/ BodyEnds(c)
    \/ RunJob(c)

\* The event loop runs the queued jobs, and a timer that stays armed fires. Nothing
\* obliges the network to answer, or the caller to act.
Fairness ==
  \A c \in Calls : WF_vars(RunJob(c)) /\ WF_vars(TimerFires(c))

Spec == Init /\ [][Next]_vars
FairSpec == Spec /\ Fairness

(***************************************************************************)
(* Properties.                                                             *)
(***************************************************************************)
Settled(c) == result[c] \in Outcomes

\* performFetch calls at most one of onload and onerror, and calls it once, however the
\* response, the timer, the failures and abort() interleave: the Scala promise of the
\* future interpreter, which refuses a second completion, never gets one.
CompletedOnce == \A c \in Calls : completions[c] = IF Settled(c) THEN 1 ELSE 0

\* The caller is told of a timeout exactly when its own timer, and not its abort() or a
\* network failure, ended the wait for the response: the flag `timedOut`, which the
\* timer sets even when it fires too late, is never read in a state that misleads.
TimeoutBlamedRightly ==
  \A c \in Calls : Settled(c) =>
    (result[c] = "timeout" <=> fetchPromise[c] = "aborted" /\ aborter[c] = "timer")

\* Once the response's headers are there the timer is out of the race: it never aborts
\* the signal under a body that is being read, though clearTimeout only runs in a
\* reaction queued after the headers came.
TimerNeverCutsBody ==
  \A c \in Calls : fetchPromise[c] = "fulfilled" =>
    /\ aborter[c] # "timer"
    /\ job[c] # "fetchReaction" => timer[c] # "armed"

\* A call whose result is pending has something left that can complete it: a fetch or a
\* body in flight, or a queued reaction. The one exception is a header codec that
\* throws: the reaction of f is then lost and the result stays pending for ever.
PendingHasSource ==
  \A c \in Calls : result[c] = "pending" =>
    \/ fetchPromise[c] = "pending"
    \/ entityPromise[c] = "pending"
    \/ job[c] # "none"
    \/ response[c].headers = "throws" /\ response[c].status \in endpoint[c].accepts

\* A value reaches the caller only from a response that its endpoint accepts, headers
\* included, and never after abort() cut the body of a strict entity short.
ValueIsEarned ==
  \A c \in Calls : result[c] = "value" =>
    /\ response[c].status \in endpoint[c].accepts
    /\ response[c].headers = "valid"
    /\ endpoint[c].entity = "strict" => entityPromise[c] = "right"

\* The state of a call's promises, reactions, timer and result hang together: the
\* inductive invariant that the theorems rest on. A queued reaction belongs to a promise
\* that has just settled; a settled call has neither a reaction nor a promise in flight;
\* the timer is cleared by the first reaction of a response; and while a rejection of f
\* waits for its reaction, the flag says who aborted.
CallInv(c) ==
  /\ completions[c] = IF Settled(c) THEN 1 ELSE 0
  /\ fetchPromise[c] = "none" => /\ job[c] = "none" /\ entityPromise[c] = "none"
                                 /\ result[c] \in {"none", "thrown"}
  /\ result[c] = "none" => timer[c] = "none" /\ aborter[c] = "none" /\ ~timedOut[c]
  /\ fetchPromise[c] = "pending" => /\ job[c] = "none" /\ entityPromise[c] = "none"
                                    /\ timer[c] \in {"none", "armed"}
                                    /\ aborter[c] = "none" /\ ~timedOut[c]
  /\ fetchPromise[c] # "none" => result[c] \in Outcomes \cup {"pending"}
  /\ fetchPromise[c] # "none" => endpoint[c] \in Endpoints
  /\ fetchPromise[c] = "fulfilled" => /\ response[c] \in FetchResponse
                                      /\ aborter[c] # "timer" /\ ~timedOut[c]
                                      /\ timer[c] = "armed" => job[c] = "fetchReaction"
  /\ fetchPromise[c] \in {"aborted", "failed"} => entityPromise[c] = "none"
  /\ fetchPromise[c] = "aborted" => aborter[c] # "none"
  /\ job[c] = "fetchReaction" =>
       /\ fetchPromise[c] \in {"fulfilled", "aborted", "failed"}
       /\ entityPromise[c] = "none" /\ result[c] = "pending"
       /\ fetchPromise[c] = "aborted" => (timedOut[c] <=> aborter[c] = "timer")
       /\ fetchPromise[c] = "failed" => ~timedOut[c]
  /\ job[c] = "entityReaction" =>
       /\ entityPromise[c] \notin {"none", "pending"} /\ result[c] = "pending"
  /\ entityPromise[c] # "none" =>
       /\ fetchPromise[c] = "fulfilled"
       /\ entity[c] = SelectEntity(endpoint[c], response[c]) /\ entity[c] # "none"
       /\ entity[c] = "immediate" => entityPromise[c] \in {"right", "threw"}
       /\ entity[c] = "headersError" => entityPromise[c] = "left"
  /\ entityPromise[c] = "pending" => /\ job[c] = "none" /\ result[c] = "pending"
                                     /\ aborter[c] = "none"
  /\ Settled(c) => /\ fetchPromise[c] \notin {"none", "pending"} /\ job[c] = "none"
                   /\ entityPromise[c] # "pending"
                   /\ fetchPromise[c] # "fulfilled" =>
                        result[c] = IF fetchPromise[c] = "aborted" /\ aborter[c] = "timer"
                                    THEN "timeout" ELSE "jsError"
                   /\ fetchPromise[c] = "fulfilled" =>
                        \/ result[c] = "unexpectedStatus"
                        \/ /\ entityPromise[c] # "none"
                           /\ result[c] = OutcomeOf(entity[c], entityPromise[c])
  /\ result[c] = "pending" =>
       \/ fetchPromise[c] = "pending"
       \/ entityPromise[c] = "pending"
       \/ job[c] # "none"
       \/ response[c].headers = "throws" /\ response[c].status \in endpoint[c].accepts

IInv == TypeOK /\ \A c \in Calls : CallInv(c)

\* The body of the call's response, if its decoder awaits one, was read to its end.
BodyRead(c) ==
  /\ entity[c] \in {"strict", "clientErrors", "serverError"}
  /\ entityPromise[c] \in {"right", "left", "threw"}

TakesNothing(c) == response'[c] = response[c] /\ (BodyRead(c)' => BodyRead(c))

\* Once a call is aborted, by its caller or by its timer, it takes nothing more from the
\* network, wherever the abort came: before the headers, before the reaction to them (which
\* must then not read the body) or while the body was read. What the caller is told of the
\* response was there before the abort.
NothingReadAfterAbort ==
  [][\A c \in Calls : aborter[c] # "none" => TakesNothing(c)]_vars

Lost(c) == response[c].headers = "throws" /\ response[c].status \in endpoint[c].accepts

\* abort() always ends a call that is waiting, whether for the headers or for the body.
AbortEndsCall ==
  \A c \in Calls : (aborter[c] = "user" /\ result[c] = "pending") ~> (Settled(c) \/ Lost(c))

\* With a timeout in the settings no call waits for ever for the headers of a response.
TimeoutBoundsFetch ==
  \A c \in Calls : Timeout /\ fetchPromise[c] = "pending"
                     ~> (fetchPromise[c] # "pending" /\ job[c] # "fetchReaction")

\* The abstract call: the event that settled f is the one that won.
Winner(c) ==
  CASE fetchPromise[c] = "fulfilled" -> "headers"
    [] fetchPromise[c] = "failed"    -> "network"
    [] fetchPromise[c] = "aborted"   -> aborter[c]
    [] OTHER                         -> "none"

Abstract == INSTANCE AsyncCall WITH winner <- [c \in Calls |-> Winner(c)], outcome <- result

\* The client implements the abstract call: the first event wins and explains the
\* outcome, and a call that no response answered does end.
ImplementsAsyncCall == Abstract!ASpec
=============================================================================
