-------------------------- MODULE FetchClientProofs --------------------------
(***************************************************************************)
(* Proofs about FetchClient, for any number of calls, any endpoints and    *)
(* any statuses, with or without a timeout. CallInv is inductive per call: *)
(* the only thing a step of one call reads of another is whether a job is  *)
(* queued (NoJobs), and no conjunct depends on that.                       *)
(***************************************************************************)
EXTENDS FetchClient, TLAPS

\* The inductive invariant holds before any call is made.
LEMMA InitIInv == Init => IInv
  BY FetchAssumption DEF Init, IInv, TypeOK, CallInv, Settled, Outcomes, NoResponse

\* The decoder selected for a response of a started call is one that performFetch knows.
LEMMA SelectEntityType ==
  ASSUME NEW ep \in Endpoints, NEW r \in FetchResponse
  PROVE  SelectEntity(ep, r) \in {"none", "throws", "strict", "immediate", "headersError",
                                  "clientErrors", "serverError"}
  BY FetchAssumption DEF SelectEntity, EndpointType, FetchResponse, HeaderResults

\* CallInv(d) reads the state of call d only, so a step of another call keeps it.
SameCall(d) ==
  /\ endpoint'[d] = endpoint[d] /\ fetchPromise'[d] = fetchPromise[d]
  /\ response'[d] = response[d] /\ entity'[d] = entity[d]
  /\ entityPromise'[d] = entityPromise[d] /\ job'[d] = job[d]
  /\ timer'[d] = timer[d] /\ timedOut'[d] = timedOut[d] /\ aborter'[d] = aborter[d]
  /\ result'[d] = result[d] /\ completions'[d] = completions[d]

\* CallInv of a call whose state a step leaves alone is kept.
LEMMA Frame ==
  ASSUME NEW d \in Calls, CallInv(d), SameCall(d)
  PROVE  CallInv(d)'
  BY DEF CallInv, SameCall, Settled

\* CallInv is kept when a call is started, or could not be made.
LEMMA ApplyStep ==
  ASSUME IInv, NEW c \in Calls, Apply(c) \/ ApplyThrowsEncoding(c) \/ ApplyThrowsHref(c)
  PROVE  IInv'
<1> USE DEF Apply, ApplyThrowsEncoding, ApplyThrowsHref, ArmedTimer, promises
<1>1. TypeOK'
  BY FetchAssumption DEF IInv, TypeOK
<1>2. ASSUME NEW d \in Calls PROVE CallInv(d)'
  <2>1. CallInv(d) /\ TypeOK BY DEF IInv
  <2>2. CASE d = c
    BY <2>1, <2>2, FetchAssumption DEF TypeOK, CallInv, Settled, Outcomes
  <2>3. CASE d # c
    BY <2>1, <2>3, Frame DEF TypeOK, SameCall
  <2> QED BY <2>2, <2>3
<1> QED BY <1>1, <1>2 DEF IInv

\* CallInv is kept when the caller aborts.
LEMMA AbortStep ==
  ASSUME IInv, NEW c \in Calls, Abort(c)
  PROVE  IInv'
<1> USE DEF Abort, AbortSignal, promises
<1>1. TypeOK'
  BY FetchAssumption DEF IInv, TypeOK
<1>2. ASSUME NEW d \in Calls PROVE CallInv(d)'
  <2>1. CallInv(d) /\ TypeOK BY DEF IInv
  <2>2. CASE d = c
    BY <2>1, <2>2, FetchAssumption DEF TypeOK, CallInv, Settled, Outcomes
  <2>3. CASE d # c
    BY <2>1, <2>3, Frame DEF TypeOK, SameCall
  <2> QED BY <2>2, <2>3
<1> QED BY <1>1, <1>2 DEF IInv

\* CallInv is kept when the timer fires.
LEMMA TimerStep ==
  ASSUME IInv, NEW c \in Calls, TimerFires(c)
  PROVE  IInv'
<1> USE DEF promises
<1>0. TypeOK /\ CallInv(c) BY DEF IInv
<1>1. /\ timer' = [timer EXCEPT ![c] = "fired"]
      /\ timedOut' = [timedOut EXCEPT ![c] = TRUE]
      /\ timer[c] = "armed"
      /\ UNCHANGED <<endpoint, result, completions, response, entity>>
  BY DEF TimerFires, AbortSignal
<1>2. /\ timedOut' \in [Calls -> BOOLEAN] /\ timedOut'[c]
      /\ \A d \in Calls : d # c => timedOut'[d] = timedOut[d]
  BY <1>0, <1>1 DEF TypeOK
<1>3. CASE aborter[c] # "none"
  <2>1. UNCHANGED <<aborter, fetchPromise, entityPromise, job>>
    BY <1>3 DEF TimerFires
  <2>2. TypeOK' BY <1>0, <1>1, <1>2, <2>1 DEF TypeOK
  <2>3. ASSUME NEW d \in Calls PROVE CallInv(d)'
    <3>1. CASE d = c
      BY <1>0, <1>1, <1>3, <2>1, <3>1, <1>2 DEF TypeOK, CallInv, Settled, TimerFires, NoJobs
    <3>2. CASE d # c
      <4>1. timer'[d] = timer[d] BY <1>0, <1>1, <3>2 DEF TypeOK
      <4>2. timedOut'[d] = timedOut[d] BY <1>2, <3>2
      <4>3. SameCall(d) BY <1>1, <2>1, <4>1, <4>2 DEF SameCall
      <4> QED BY <4>3, Frame DEF IInv
    <3> QED BY <3>1, <3>2
  <2> QED BY <2>2, <2>3 DEF IInv
<1>4. CASE aborter[c] = "none"
  <2>1. aborter' = [aborter EXCEPT ![c] = "timer"] /\ AbortSignal(c)
    BY <1>4 DEF TimerFires
  <2>2. fetchPromise[c] # "fulfilled" /\ entityPromise[c] # "pending"
    BY <1>0, <1>1 DEF CallInv, TimerFires, NoJobs
  <2>3. TypeOK' BY <1>0, <1>1, <1>2, <2>1 DEF TypeOK, AbortSignal
  <2>4. ASSUME NEW d \in Calls PROVE CallInv(d)'
    <3>1. CASE d = c /\ fetchPromise[c] = "pending"
      BY <1>0, <1>1, <1>2, <1>4, <2>1, <2>2, <3>1 DEF TypeOK, CallInv, Settled, AbortSignal, Outcomes
    <3>2. CASE d = c /\ fetchPromise[c] # "pending"
      BY <1>0, <1>1, <1>2, <1>4, <2>1, <2>2, <3>2 DEF TypeOK, CallInv, Settled, AbortSignal,
         TimerFires, NoJobs
    <3>3. CASE d # c
      <4>1. UNCHANGED <<fetchPromise[d], entityPromise[d], job[d]>>
        BY <1>0, <2>1, <3>3 DEF TypeOK, AbortSignal
      <4>2. SameCall(d)
        BY <1>0, <1>1, <1>2, <2>1, <3>3, <4>1 DEF TypeOK, SameCall
      <4> QED BY <4>2, Frame DEF IInv
    <3> QED BY <3>1, <3>2, <3>3
  <2> QED BY <2>3, <2>4 DEF IInv
<1> QED BY <1>3, <1>4

\* CallInv is kept when the network settles f or the body.
LEMMA NetworkStep ==
  ASSUME IInv, NEW c \in Calls, HeadersArrive(c) \/ FetchFails(c) \/ BodyEnds(c)
  PROVE  IInv'
<1> USE DEF HeadersArrive, FetchFails, BodyEnds, promises
<1>1. TypeOK'
  BY FetchAssumption DEF IInv, TypeOK
<1>2. ASSUME NEW d \in Calls PROVE CallInv(d)'
  <2>1. CallInv(d) /\ TypeOK BY DEF IInv
  <2>2. CASE d = c
    BY <2>1, <2>2, FetchAssumption DEF TypeOK, CallInv, Settled, Outcomes
  <2>3. CASE d # c
    BY <2>1, <2>3, Frame DEF TypeOK, SameCall
  <2> QED BY <2>2, <2>3
<1> QED BY <1>1, <1>2 DEF IInv

\* CallInv is kept when the rejection reaction of f runs.
LEMMA FetchErrorStep ==
  ASSUME IInv, NEW c \in Calls, OnFetchError(c)
  PROVE  IInv'
<1> USE DEF OnFetchError, Complete, promises
<1>1. TypeOK'
  BY DEF IInv, TypeOK, Outcomes
<1>2. ASSUME NEW d \in Calls PROVE CallInv(d)'
  <2>1. CallInv(d) /\ TypeOK BY DEF IInv
  <2>2. CASE d = c
    BY <2>1, <2>2 DEF TypeOK, CallInv, Settled, Outcomes
  <2>3. CASE d # c
    BY <2>1, <2>3, Frame DEF TypeOK, SameCall
  <2> QED BY <2>2, <2>3
<1> QED BY <1>1, <1>2 DEF IInv

\* CallInv is kept when onload or onerror ends the call.
LEMMA EntityStep ==
  ASSUME IInv, NEW c \in Calls, OnEntity(c)
  PROVE  IInv'
<1> USE DEF promises
<1>0. CallInv(c) /\ TypeOK BY DEF IInv
<1>1. PICK o \in Outcomes : o = OutcomeOf(entity[c], entityPromise[c])
  <2>1. entity[c] \in {"none", "strict", "immediate", "headersError",
                       "clientErrors", "serverError"}
    BY <1>0 DEF TypeOK
  <2> QED BY <2>1 DEF OutcomeOf, Outcomes
<1>2. /\ job' = [job EXCEPT ![c] = "none"]
      /\ result' = [result EXCEPT ![c] = o]
      /\ completions' = [completions EXCEPT ![c] = @ + 1]
      /\ UNCHANGED <<endpoint, promises, timer, timedOut, aborter>>
      /\ job[c] = "entityReaction" /\ result[c] = "pending"
  BY <1>0, <1>1 DEF OnEntity, Complete, CallInv
<1>3. TypeOK'
  BY <1>0, <1>2 DEF TypeOK
<1>4. ASSUME NEW d \in Calls PROVE CallInv(d)'
  <2>1. CallInv(d) BY DEF IInv
  <2>2. CASE d = c
    <3>1. OutcomeOf(entity'[c], entityPromise'[c]) = result'[c]
      BY <1>0, <1>1, <1>2 DEF TypeOK
    <3>2. /\ fetchPromise[c] = "fulfilled"
          /\ entityPromise[c] \notin {"none", "pending"}
      BY <1>0, <1>2 DEF CallInv
    <3> QED BY <1>0, <1>2, <2>2, <3>1, <3>2 DEF TypeOK, CallInv, Settled, Outcomes
  <2>3. CASE d # c
    BY <1>0, <1>2, <2>1, <2>3, Frame DEF TypeOK, SameCall
  <2> QED BY <2>2, <2>3
<1> QED BY <1>3, <1>4 DEF IInv

\* The promise that a decoder returns is settled but for a body that is read, which none
\* is after an abort.
LEMMA DecodedEntitiesType ==
  ASSUME NEW c \in Calls, NEW kind, NEW p \in DecodedEntities(c, kind)
  PROVE  /\ p \in {"right", "left", "threw", "pending", "aborted"}
         /\ kind = "immediate" => p \in {"right", "threw"}
         /\ kind = "headersError" => p = "left"
         /\ p = "pending" => aborter[c] = "none"
         /\ p \in {"right", "left", "threw"} => kind \in {"immediate", "headersError"}
  BY DEF DecodedEntities

\* CallInv is kept when the fulfilment reaction of f dispatches on the response.
LEMMA ResponseStep ==
  ASSUME IInv, NEW c \in Calls, OnResponse(c)
  PROVE  IInv'
<1> DEFINE kind == SelectEntity(endpoint[c], response[c])
<1> USE DEF promises, ClearTimeout, Complete
<1>0. CallInv(c) /\ TypeOK BY DEF IInv
<1>1. endpoint[c] \in Endpoints /\ response[c] \in FetchResponse
  BY <1>0 DEF OnResponse, CallInv
<1>2. kind \in {"none", "throws", "strict", "immediate", "headersError",
                "clientErrors", "serverError"}
  BY <1>1, SelectEntityType
<1>3. kind = "throws" =>
        response[c].headers = "throws" /\ response[c].status \in endpoint[c].accepts
  BY <1>1, FetchAssumption DEF SelectEntity, EndpointType, FetchResponse
<1>4. CASE kind \in {"throws", "none"}
  <2>1. TypeOK'
    BY <1>0, <1>4 DEF OnResponse, TypeOK, Outcomes
  <2>2. ASSUME NEW d \in Calls PROVE CallInv(d)'
    <3>1. CallInv(d) BY DEF IInv
    <3>2. CASE d = c
      <4> USE <1>0, <3>2 DEF TypeOK, CallInv, Settled
      <4>1. CASE kind = "throws" BY <1>1, <1>3, <4>1 DEF OnResponse, Outcomes
      <4>2. CASE kind = "none" BY <1>1, <4>2 DEF OnResponse, Outcomes
      <4> QED BY <1>4, <4>1, <4>2
    <3>3. CASE d # c
      BY <1>0, <1>4, <3>1, <3>3, Frame DEF OnResponse, TypeOK, SameCall
    <3> QED BY <3>2, <3>3
  <2> QED BY <2>1, <2>2 DEF IInv
<1>5. CASE kind \notin {"throws", "none"}
  <2>1. PICK p \in DecodedEntities(c, kind) :
          /\ entityPromise' = [entityPromise EXCEPT ![c] = p]
          /\ job' = [job EXCEPT ![c] = IF p = "pending" THEN "none" ELSE "entityReaction"]
    BY <1>5 DEF OnResponse
  <2>2. /\ entity' = [entity EXCEPT ![c] = kind]
        /\ timer' = [timer EXCEPT ![c] = IF @ = "armed" THEN "cleared" ELSE @]
        /\ UNCHANGED <<endpoint, fetchPromise, response, timedOut, aborter, result, completions>>
        /\ job[c] = "fetchReaction" /\ fetchPromise[c] = "fulfilled"
    BY <1>5 DEF OnResponse
  <2>3. /\ p \in {"right", "left", "threw", "pending", "aborted"}
        /\ kind = "immediate" => p \in {"right", "threw"}
        /\ kind = "headersError" => p = "left"
        /\ p = "pending" => aborter[c] = "none"
    BY <2>1, DecodedEntitiesType
  <2>4. TypeOK'
    BY <1>0, <1>2, <1>5, <2>1, <2>2, <2>3 DEF TypeOK
  <2>5. ASSUME NEW d \in Calls PROVE CallInv(d)'
    <3>1. CallInv(d) BY DEF IInv
    <3>2. CASE d = c
      BY <1>0, <1>1, <1>2, <1>5, <2>1, <2>2, <2>3, <3>2 DEF TypeOK, CallInv, Settled, Outcomes
    <3>3. CASE d # c
      BY <1>0, <2>1, <2>2, <3>1, <3>3, Frame DEF TypeOK, SameCall
    <3> QED BY <3>2, <3>3
  <2> QED BY <2>4, <2>5 DEF IInv
<1> QED BY <1>4, <1>5

\* Every step keeps the inductive invariant: one lemma per kind of step.
LEMMA NextIInv == IInv /\ [Next]_vars => IInv'
<1> SUFFICES ASSUME IInv, [Next]_vars PROVE IInv'
  OBVIOUS
<1>1. ASSUME NEW c \in Calls, Apply(c) \/ ApplyThrowsEncoding(c) \/ ApplyThrowsHref(c)
      PROVE  IInv'
  BY <1>1, ApplyStep
<1>2. ASSUME NEW c \in Calls, Abort(c) PROVE IInv'
  BY <1>2, AbortStep
<1>3. ASSUME NEW c \in Calls, TimerFires(c) PROVE IInv'
  BY <1>3, TimerStep
<1>4. ASSUME NEW c \in Calls, HeadersArrive(c) \/ FetchFails(c) \/ BodyEnds(c) PROVE IInv'
  BY <1>4, NetworkStep
<1>5. ASSUME NEW c \in Calls, RunJob(c) PROVE IInv'
  BY <1>5, ResponseStep, FetchErrorStep, EntityStep DEF RunJob
<1>6. CASE UNCHANGED vars
  BY <1>6, Frame DEF vars, IInv, TypeOK, SameCall
<1> QED BY <1>1, <1>2, <1>3, <1>4, <1>5, <1>6 DEF Next

\* The inductive invariant, type correctness included, holds in every reachable state.
THEOREM InvariantHolds == Spec => []IInv
<1>1. Init => IInv BY InitIInv
<1>2. IInv /\ [Next]_vars => IInv' BY NextIInv
<1> QED BY <1>1, <1>2, PTL DEF Spec

\* However the callbacks interleave, the caller's promise is completed at most once.
THEOREM CallsCompleteOnce == Spec => []CompletedOnce
<1>1. IInv => CompletedOnce BY DEF IInv, CallInv, CompletedOnce
<1> QED BY <1>1, InvariantHolds, PTL

\* A TimeoutException is reported when, and only when, the timer ended the wait.
THEOREM TimeoutsAreBlamedRightly == Spec => []TimeoutBlamedRightly
<1>1. IInv => TimeoutBlamedRightly
  <2> SUFFICES ASSUME IInv, NEW c \in Calls, Settled(c)
               PROVE  result[c] = "timeout" <=>
                        fetchPromise[c] = "aborted" /\ aborter[c] = "timer"
    BY DEF TimeoutBlamedRightly
  <2>1. CallInv(c) BY DEF IInv
  <2>2. OutcomeOf(entity[c], entityPromise[c]) # "timeout"
    <3>1. entity[c] \in {"none", "strict", "immediate", "headersError",
                         "clientErrors", "serverError"}
      BY DEF IInv, TypeOK
    <3> QED BY <3>1 DEF OutcomeOf
  <2> QED BY <2>1, <2>2 DEF CallInv
<1> QED BY <1>1, InvariantHolds, PTL

\* The timeout cannot cut short the body of a response whose headers came in time.
THEOREM TimersNeverCutBodies == Spec => []TimerNeverCutsBody
<1>1. IInv => TimerNeverCutsBody BY DEF IInv, CallInv, TimerNeverCutsBody
<1> QED BY <1>1, InvariantHolds, PTL

\* A pending call still has something that will complete it, unless a header codec threw.
THEOREM PendingCallsHaveSources == Spec => []PendingHasSource
<1>1. IInv => PendingHasSource BY DEF IInv, CallInv, PendingHasSource
<1> QED BY <1>1, InvariantHolds, PTL

\* A value comes from a response that the endpoint accepts, with its body read to the end.
THEOREM ValuesAreEarned == Spec => []ValueIsEarned
<1>1. IInv => ValueIsEarned
  <2> SUFFICES ASSUME IInv, NEW c \in Calls, result[c] = "value"
               PROVE  /\ response[c].status \in endpoint[c].accepts
                      /\ response[c].headers = "valid"
                      /\ endpoint[c].entity = "strict" => entityPromise[c] = "right"
    BY DEF ValueIsEarned
  <2>1. CallInv(c) /\ TypeOK BY DEF IInv
  <2>2. /\ fetchPromise[c] = "fulfilled" /\ entityPromise[c] \notin {"none", "pending"}
        /\ OutcomeOf(entity[c], entityPromise[c]) = "value"
        /\ entity[c] = SelectEntity(endpoint[c], response[c]) /\ entity[c] # "none"
        /\ endpoint[c] \in Endpoints /\ response[c] \in FetchResponse
    <3>1. Settled(c) BY DEF Settled, Outcomes
    <3>2. fetchPromise[c] = "fulfilled"
      BY <2>1, <3>1 DEF CallInv
    <3> QED BY <2>1, <3>1, <3>2 DEF CallInv
  <2>3. entityPromise[c] = "right" /\ entity[c] \in {"strict", "immediate"}
    BY <2>1, <2>2 DEF OutcomeOf, TypeOK
  <2> QED BY <2>2, <2>3, FetchAssumption
          DEF SelectEntity, EndpointType, FetchResponse, HeaderResults
<1> QED BY <1>1, InvariantHolds, PTL

\* An aborted call has no promise left that the network could settle, and the reaction to
\* headers that came before the abort starts no reading: no step gives it more of the response.
THEOREM AbortedCallsReadNothing == Spec => NothingReadAfterAbort
<1>1. IInv /\ [Next]_vars =>
        [\A c \in Calls : aborter[c] # "none" => TakesNothing(c)]_vars
  <2> SUFFICES ASSUME IInv, NEW e \in Calls, NEW c \in Calls, aborter[c] # "none",
                      \/ Apply(e) \/ ApplyThrowsEncoding(e) \/ ApplyThrowsHref(e)
                      \/ Abort(e) \/ TimerFires(e) \/ HeadersArrive(e) \/ FetchFails(e)
                      \/ BodyEnds(e) \/ OnResponse(e) \/ OnFetchError(e) \/ OnEntity(e)
               PROVE  TakesNothing(c)
    BY DEF Next, RunJob
  <2> USE DEF TakesNothing
  <2>1. /\ TypeOK /\ CallInv(c) /\ fetchPromise[c] # "pending" /\ entityPromise[c] # "pending"
    BY DEF IInv, CallInv
  <2>2. CASE HeadersArrive(e) \/ BodyEnds(e)
    BY <2>1, <2>2 DEF TypeOK, HeadersArrive, BodyEnds, BodyRead
  <2>3. CASE Abort(e) \/ TimerFires(e)
    BY <2>1, <2>3 DEF TypeOK, Abort, TimerFires, AbortSignal, BodyRead, promises
  <2>4. CASE OnResponse(e)
    <3>1. CASE UNCHANGED <<entity, entityPromise>>
      BY <2>4, <3>1 DEF OnResponse, BodyRead
    <3>2. CASE ~UNCHANGED <<entity, entityPromise>>
      <4> DEFINE kind == SelectEntity(endpoint[e], response[e])
      <4>1. PICK p \in DecodedEntities(e, kind) :
              /\ entity' = [entity EXCEPT ![e] = kind]
              /\ entityPromise' = [entityPromise EXCEPT ![e] = p]
        BY <2>4, <3>2 DEF OnResponse
      <4>2. p \in {"right", "left", "threw"} => kind \in {"immediate", "headersError"}
        BY <4>1, DecodedEntitiesType
      <4> HIDE DEF kind
      <4>3. UNCHANGED response
        BY <2>4 DEF OnResponse
      <4>4. CASE e = c
        BY <2>1, <4>1, <4>2, <4>3, <4>4 DEF TypeOK, BodyRead
      <4>5. CASE e # c
        BY <2>1, <4>1, <4>3, <4>5 DEF TypeOK, BodyRead
      <4> QED BY <4>4, <4>5
    <3> QED BY <3>1, <3>2
  <2>5. CASE \/ Apply(e) \/ ApplyThrowsEncoding(e) \/ ApplyThrowsHref(e) \/ FetchFails(e)
             \/ OnFetchError(e) \/ OnEntity(e)
    BY <2>5 DEF Apply, ApplyThrowsEncoding, ApplyThrowsHref, FetchFails, OnFetchError, OnEntity,
       BodyRead, promises
  <2> QED BY <2>2, <2>3, <2>4, <2>5
<1> QED BY <1>1, InvariantHolds, PTL DEF Spec, NothingReadAfterAbort

-----------------------------------------------------------------------------
(***************************************************************************)
(* The client implements the safety part of the abstract call.             *)
(***************************************************************************)
\* The winner of a call depends on its fetch promise and its aborter only.
LEMMA WinnerFrame ==
  ASSUME NEW d \in Calls, fetchPromise'[d] = fetchPromise[d],
         fetchPromise[d] = "aborted" => aborter'[d] = aborter[d]
  PROVE  Winner(d)' = Winner(d)
  BY DEF Winner

\* A step that settles f is the abstract Win; one that completes the result is End.
LEMMA WinStep ==
  ASSUME NEW c \in Calls, fetchPromise[c] = "pending", result[c] = "pending",
         Winner(c)' \in Abstract!Events, UNCHANGED result,
         \A d \in Calls : d # c => Winner(d)' = Winner(d)
  PROVE  Abstract!Win(c)
  BY DEF Abstract!Win, Abstract!NotStarted, Abstract!Pending, Winner

\* A step that only completes the result, with an outcome its winner allows, is End.
LEMMA EndStep ==
  ASSUME NEW c \in Calls, result[c] = "pending", Winner(c) \in Abstract!Events,
         NEW o \in Abstract!OutcomesOf(Winner(c)), result' = [result EXCEPT ![c] = o],
         \A d \in Calls : Winner(d)' = Winner(d)
  PROVE  Abstract!End(c)
  BY DEF Abstract!End, Abstract!Pending

\* A step that touches neither f nor the result is a stutter.
LEMMA StutterStep ==
  ASSUME UNCHANGED result, \A d \in Calls : Winner(d)' = Winner(d)
  PROVE  UNCHANGED Abstract!avars
  BY DEF Abstract!avars

\* abort() is the abstract Win of the caller, or a stutter.
LEMMA AbortRefines ==
  ASSUME IInv, NEW c \in Calls, aborter[c] = "none", UNCHANGED result,
         NEW by \in {"timer", "user"}, aborter' = [aborter EXCEPT ![c] = by], AbortSignal(c)
  PROVE  [Abstract!ANext]_(Abstract!avars)
<1>0. TypeOK /\ CallInv(c) BY DEF IInv
<1>1. \A d \in Calls : d # c => Winner(d)' = Winner(d)
  BY <1>0 DEF TypeOK, AbortSignal, Winner, promises
<1>2. CASE fetchPromise[c] = "pending"
  <2>1. entityPromise[c] # "pending" /\ result[c] = "pending"
    BY <1>0, <1>2 DEF CallInv, Settled
  <2>2. fetchPromise'[c] = "aborted" /\ aborter'[c] = by
    BY <1>0, <1>2, <2>1 DEF TypeOK, AbortSignal
  <2>3. Winner(c)' \in Abstract!Events
    BY <2>2 DEF Winner, Abstract!Events
  <2> QED BY <1>1, <1>2, <2>1, <2>3, WinStep DEF Abstract!ANext
<1>3. CASE fetchPromise[c] # "pending"
  <2>1. UNCHANGED fetchPromise /\ fetchPromise[c] # "aborted"
    BY <1>0, <1>3 DEF CallInv, AbortSignal, promises
  <2>2. Winner(c)' = Winner(c)
    BY <2>1 DEF Winner
  <2> QED BY <1>1, <2>2, StutterStep
<1> QED BY <1>2, <1>3

\* The fulfilment reaction of f is a stutter, or ends the call with a bad status.
LEMMA ResponseRefines ==
  ASSUME IInv, NEW c \in Calls, OnResponse(c)
  PROVE  [Abstract!ANext]_(Abstract!avars)
<1>0. TypeOK /\ CallInv(c) BY DEF IInv
<1>1. \A d \in Calls : Winner(d)' = Winner(d)
  BY DEF OnResponse, Winner
<1>2. CASE UNCHANGED result
  BY <1>1, <1>2, StutterStep
<1>3. CASE Complete(c, "unexpectedStatus")
  <2>1. result[c] = "pending" /\ fetchPromise[c] = "fulfilled"
    BY <1>0 DEF OnResponse, CallInv
  <2>2. result' = [result EXCEPT ![c] = "unexpectedStatus"]
    BY <1>3, <2>1 DEF Complete
  <2>3. Winner(c) = "headers"
    BY <2>1 DEF Winner
  <2>4. "unexpectedStatus" \in Abstract!OutcomesOf(Winner(c)) /\ Winner(c) \in Abstract!Events
    BY <2>3 DEF Abstract!OutcomesOf, Abstract!Events
  <2> QED BY <1>1, <2>1, <2>2, <2>4, EndStep DEF Abstract!ANext
<1> QED BY <1>2, <1>3 DEF OnResponse

\* The rejection reaction of f ends the call as its winner, timer or other, says.
LEMMA FetchErrorRefines ==
  ASSUME IInv, NEW c \in Calls, OnFetchError(c)
  PROVE  [Abstract!ANext]_(Abstract!avars)
<1>0. TypeOK /\ CallInv(c) BY DEF IInv
<1>1. \A d \in Calls : Winner(d)' = Winner(d)
  BY DEF OnFetchError, Winner, promises
<1> DEFINE o == IF timedOut[c] THEN "timeout" ELSE "jsError"
<1>2. result[c] = "pending" /\ fetchPromise[c] \in {"aborted", "failed"}
  BY <1>0 DEF OnFetchError, CallInv
<1>3. result' = [result EXCEPT ![c] = o]
  BY <1>2 DEF OnFetchError, Complete
<1>4. /\ Winner(c) \in {"timer", "user", "network"}
      /\ o = IF Winner(c) = "timer" THEN "timeout" ELSE "jsError"
  BY <1>0, <1>2 DEF OnFetchError, CallInv, Winner, TypeOK
<1>5. o \in Abstract!OutcomesOf(Winner(c)) /\ Winner(c) \in Abstract!Events
  BY <1>4 DEF Abstract!OutcomesOf, Abstract!Events
<1> QED BY <1>1, <1>2, <1>3, <1>5, EndStep DEF Abstract!ANext

\* onload and onerror end the call with an outcome of a response or of abort().
LEMMA EntityRefines ==
  ASSUME IInv, NEW c \in Calls, OnEntity(c)
  PROVE  [Abstract!ANext]_(Abstract!avars)
<1>0. TypeOK /\ CallInv(c) BY DEF IInv
<1>1. \A d \in Calls : Winner(d)' = Winner(d)
  BY DEF OnEntity, Winner, promises
<1> DEFINE o == OutcomeOf(entity[c], entityPromise[c])
<1>2. result[c] = "pending" /\ fetchPromise[c] = "fulfilled"
  BY <1>0 DEF OnEntity, CallInv
<1>3. result' = [result EXCEPT ![c] = o]
  BY <1>2 DEF OnEntity, Complete
<1>4. Winner(c) = "headers" BY <1>2 DEF Winner
<1>5. entity[c] \in {"none", "strict", "immediate", "headersError", "clientErrors",
                     "serverError"}
  BY <1>0 DEF TypeOK
<1>6. o \in {"value", "decodeError", "decoderThrew", "headersError", "clientErrors",
             "serverError", "jsError"}
  BY <1>5 DEF OutcomeOf
<1>7. o \in Abstract!OutcomesOf(Winner(c)) /\ Winner(c) \in Abstract!Events
  BY <1>4, <1>6 DEF Abstract!OutcomesOf, Abstract!Events
<1> HIDE DEF o
<1> QED BY <1>1, <1>2, <1>3, <1>7, EndStep DEF Abstract!ANext

\* Every step of the client is a step of the abstract call or a stutter.
LEMMA StepRefines == IInv /\ [Next]_vars => [Abstract!ANext]_(Abstract!avars)
<1> SUFFICES ASSUME IInv, [Next]_vars PROVE [Abstract!ANext]_(Abstract!avars)
  OBVIOUS
<1>1. ASSUME NEW c \in Calls, Apply(c) \/ ApplyThrowsEncoding(c) \/ ApplyThrowsHref(c)
      PROVE  [Abstract!ANext]_(Abstract!avars)
  <2>1. TypeOK /\ CallInv(c) BY DEF IInv
  <2>2. fetchPromise[c] = "none"
    BY <1>1, <2>1 DEF CallInv, TypeOK, Apply, ApplyThrowsEncoding, ApplyThrowsHref, Outcomes
  <2>3. \A d \in Calls : Winner(d)' = Winner(d)
    BY <1>1, <2>1, <2>2
       DEF TypeOK, Winner, Apply, ApplyThrowsEncoding, ApplyThrowsHref, promises
  <2>4. /\ result[c] = "none"
        /\ \E o \in {"pending", "thrown"} : result' = [result EXCEPT ![c] = o]
    BY <1>1 DEF Apply, ApplyThrowsEncoding, ApplyThrowsHref
  <2>5. Abstract!Start(c)
    BY <2>3, <2>4 DEF Abstract!Start, Abstract!NotStarted, Abstract!Pending, Abstract!Thrown
  <2> QED BY <2>5 DEF Abstract!ANext
<1>2. ASSUME NEW c \in Calls, Abort(c) PROVE [Abstract!ANext]_(Abstract!avars)
  BY <1>2, AbortRefines DEF Abort
<1>3. ASSUME NEW c \in Calls, TimerFires(c) PROVE [Abstract!ANext]_(Abstract!avars)
  <2>1. CASE aborter[c] = "none"
    BY <1>3, <2>1, AbortRefines DEF TimerFires
  <2>2. CASE aborter[c] # "none"
    BY <1>3, <2>2, WinnerFrame, StutterStep DEF TimerFires, promises
  <2> QED BY <2>1, <2>2
<1>4. ASSUME NEW c \in Calls, HeadersArrive(c) \/ FetchFails(c)
      PROVE  [Abstract!ANext]_(Abstract!avars)
  <2>1. TypeOK /\ CallInv(c) BY DEF IInv
  <2>2. fetchPromise[c] = "pending" /\ UNCHANGED <<result, aborter>>
    BY <1>4 DEF HeadersArrive, FetchFails
  <2>3. result[c] = "pending" BY <2>1, <2>2 DEF CallInv, Settled
  <2>4. \A d \in Calls : d # c => fetchPromise'[d] = fetchPromise[d]
    BY <1>4, <2>1 DEF TypeOK, HeadersArrive, FetchFails
  <2>5. fetchPromise'[c] \in {"fulfilled", "failed"}
    BY <1>4, <2>1 DEF TypeOK, HeadersArrive, FetchFails
  <2>6. Winner(c)' \in Abstract!Events
    BY <2>5 DEF Winner, Abstract!Events
  <2>7. \A d \in Calls : d # c => Winner(d)' = Winner(d)
    BY <2>2, <2>4, WinnerFrame
  <2> QED BY <2>2, <2>3, <2>6, <2>7, WinStep DEF Abstract!ANext
<1>5. ASSUME NEW c \in Calls, BodyEnds(c) PROVE [Abstract!ANext]_(Abstract!avars)
  BY <1>5, WinnerFrame, StutterStep DEF BodyEnds
<1>6. ASSUME NEW c \in Calls, RunJob(c) PROVE [Abstract!ANext]_(Abstract!avars)
  BY <1>6, ResponseRefines, FetchErrorRefines, EntityRefines DEF RunJob
<1>7. CASE UNCHANGED vars
  BY <1>7, WinnerFrame, StutterStep DEF vars
<1> QED BY <1>1, <1>2, <1>3, <1>4, <1>5, <1>6, <1>7 DEF Next

\* Timers, promises and jobs included, the client is an abstract call: the first event to
\* end the wait for the response wins, and it explains the one outcome of the call.
THEOREM Refinement == Spec => Abstract!ASafeSpec
<1>1. Init => Abstract!AInit
  BY DEF Init, Abstract!AInit, Abstract!NotStarted, Winner
<1>2. IInv /\ [Next]_vars => [Abstract!ANext]_(Abstract!avars)
  BY StepRefines
<1> QED BY <1>1, <1>2, InvariantHolds, PTL DEF Spec, Abstract!ASafeSpec

=============================================================================
