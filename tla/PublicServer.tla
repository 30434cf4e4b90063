---------------------------- MODULE PublicServer ----------------------------
(***************************************************************************)
(* The public server of the CQRS example, and the whole example: a write   *)
(* sends its command to the commands service, then asks the queries        *)
(* service for the meter `after` the timestamp of the event it got.        *)
(***************************************************************************)
EXTENDS QueriesService, FiniteSets

CONSTANT NoMeter   \* of a request that is not about a meter

ASSUME PublicServerAssumption == NoMeter \notin Meters

Kinds == {"create", "add", "get", "list"}
NoAnswer == State({}, NoTimeSeries)

Init ==
  /\ CommandsInit
  /\ QueriesInit
  /\ pc      = [r \in Requests |-> "idle"]
  /\ kind    = [r \in Requests |-> "none"]
  /\ meter   = [r \in Requests |-> NoMeter]
  /\ date    = [r \in Requests |-> NoDate]
  /\ after   = [r \in Requests |-> 0]
  /\ since   = [r \in Requests |-> 0]
  /\ fetched = [r \in Requests |-> <<>>]
  /\ answer  = [r \in Requests |-> NoAnswer]

\* A request arrives. Reads go to the queries service without `after`.
Arrive(r, k, m, d, at) ==
  /\ pc[r] = "idle"
  /\ kind'  = [kind EXCEPT ![r] = k]
  /\ meter' = [meter EXCEPT ![r] = m]
  /\ date'  = [date EXCEPT ![r] = d]
  /\ pc'    = [pc EXCEPT ![r] = at]
  /\ UNCHANGED <<commandsVars, queryVars, after, since, fetched, answer>>

Receive(r) ==
  \/ Arrive(r, "list", NoMeter, NoDate, "query")
  \/ Arrive(r, "create", NoMeter, NoDate, "command")
  \/ \E m \in Meters : Arrive(r, "get", m, NoDate, "query")
  \/ \E m \in Meters, d \in Dates : Arrive(r, "add", m, d, "command")

\* createMeter: the command is applied, its event tells which meter to find, and when.
CreateCommand(r) ==
  /\ pc[r] = "command"
  /\ kind[r] = "create"
  /\ \E m \in Meters : CreateMeter(m) /\ meter' = [meter EXCEPT ![r] = m]
  /\ after' = [after EXCEPT ![r] = lastTimestamp']
  /\ pc'    = [pc EXCEPT ![r] = "query"]
  /\ UNCHANGED <<queryVars, kind, date, since, fetched, answer>>

\* addRecord.
AddCommand(r) ==
  /\ pc[r] = "command"
  /\ kind[r] = "add"
  /\ AddRecord(meter[r], date[r])
  /\ after' = [after EXCEPT ![r] = lastTimestamp']
  /\ pc'    = [pc EXCEPT ![r] = "query"]
  /\ UNCHANGED <<queryVars, kind, meter, date, since, fetched, answer>>

\* addRecord, when the command was not applicable: NoSuchElementException.
AddCommandRefused(r) ==
  /\ pc[r] = "command"
  /\ kind[r] = "add"
  /\ AddRecordRefused(meter[r])
  /\ pc' = [pc EXCEPT ![r] = "refused"]
  /\ UNCHANGED <<queryVars, kind, meter, date, after, since, fetched, answer>>

\* A call to another service fails, before that service handled it or after.
CallFails(r) ==
  /\ pc[r] \in {"command", "query", "fetch", "apply"}
  /\ pc' = [pc EXCEPT ![r] = "failed"]
  /\ UNCHANGED <<commandsVars, queryVars, kind, meter, date, after, since, fetched, answer>>

Progress(r) ==
  \/ CreateCommand(r) \/ AddCommand(r) \/ AddCommandRefused(r)
  \/ AnswerAtOnce(r) \/ UpdateRequired(r) \/ Update(r) \/ FetchEvents(r) \/ ApplyEvents(r)

Next ==
  \/ \E r \in Requests : Receive(r) \/ Progress(r) \/ CallFails(r)
  \/ Restart

Spec == Init /\ [][Next]_vars

\* Each service goes on with the requests it has; no client has to send one.
FairSpec == Spec /\ \A r \in Requests : WF_vars(Progress(r))

TypeOK ==
  /\ CommandsTypeOK
  /\ lastEventTimestamp \in Nat
  /\ known \subseteq Meters
  /\ timeSeries \in [Meters -> [Dates -> Nat]]
  /\ pc \in [Requests -> {"idle", "command", "query", "update", "fetch", "apply",
                          "done", "refused", "failed"}]
  /\ kind \in [Requests -> Kinds \cup {"none"}]
  /\ meter \in [Requests -> Meters \cup {NoMeter}]
  /\ date \in [Requests -> Dates \cup {NoDate}]
  /\ after \in [Requests -> Nat]
  /\ since \in [Requests -> Nat]
  /\ fetched \in [Requests -> Seq(StoredEvent)]
  /\ answer \in [Requests -> [known : SUBSET Meters, timeSeries : [Meters -> [Dates -> Nat]]]]

(***************************************************************************)
(* Properties.                                                             *)
(***************************************************************************)

\* Concurrent commands leave a log without gaps or ties: the n-th event has timestamp n,
\* a meter is created once, and before any of its records.
WellFormed(log) ==
  \A i \in DOMAIN log :
    /\ log[i].timestamp = i
    /\ log[i].type = "MeterCreated" => \A j \in 1 .. i - 1 : ~ IsCreation(log[j], log[i].meter)
    /\ log[i].type = "RecordAdded"  => \E j \in 1 .. i - 1 : IsCreation(log[j], log[i].meter)

\* The state that the first n events of a log lead to.
KnownAt(log, n) == {m \in Meters : \E i \in 1 .. n : IsCreation(log[i], m)}
TimeSeriesAt(log, n) ==
  [m \in Meters |-> [d \in Dates |->
     LatestOf({0} \cup {i \in 1 .. n : IsRecord(log[i], m, d)})]]

LogWellFormed ==
  /\ lastTimestamp = Len(eventLog)
  /\ WellFormed(eventLog)
  /\ data = KnownAt(eventLog, Len(eventLog))

\* Whatever updates run in parallel, with fetched events that overlap, are stale or come
\* out of order, the projection is the result of applying a prefix of the log, every
\* event once: none is skipped, and none is applied again (which would empty a meter).
ProjectionIsPrefix ==
  /\ lastEventTimestamp <= Len(eventLog)
  /\ known = KnownAt(eventLog, lastEventTimestamp)
  /\ timeSeries = TimeSeriesAt(eventLog, lastEventTimestamp)

\* Applying fetched events never meets a record of an unknown meter (meters(id) would
\* throw, and so would every later update).
ApplyNeverThrows ==
  \A r \in Requests : pc[r] = "apply" => ~Throws(known, NewEvents(r))

\* A query is answered from one prefix of the log, at least as long as it asked for.
AnswersAreSnapshots ==
  \A r \in Requests : pc[r] = "done" =>
    \E n \in 0 .. Len(eventLog) :
      /\ kind[r] # "list" => after[r] <= n
      /\ answer[r] = State(KnownAt(eventLog, n), TimeSeriesAt(eventLog, n))

\* The events of a log from a to b.
IsSegment(s, log, a, b) ==
  /\ Len(s) = b - a + 1
  /\ \A i \in DOMAIN s : s[i] = log[a + i - 1]

\* What a request fetched continues what the projection has applied, however far other
\* updates have taken it since, and goes as far as the request needs.
UpdateInv(r) ==
  /\ pc[r] \in {"update", "fetch", "apply"} => after[r] >= 1
  /\ pc[r] \in {"fetch", "apply"} => since[r] <= lastEventTimestamp
  /\ pc[r] = "apply" =>
       \E a \in 1 .. lastEventTimestamp + 1, b \in after[r] .. Len(eventLog) :
         a <= b /\ IsSegment(fetched[r], eventLog, a, b)

\* The event of a write is in the log, at the timestamp that its query asks for.
WriteInv(r) ==
  /\ after[r] <= Len(eventLog)
  /\ kind[r] = "add" => meter[r] \in Meters /\ date[r] \in Dates
  /\ kind[r] \in {"create", "add"} /\ pc[r] \in {"query", "update", "fetch", "apply", "done"} =>
       /\ after[r] >= 1
       /\ kind[r] = "create" => IsCreation(eventLog[after[r]], meter[r])
       /\ kind[r] = "add"    => IsRecord(eventLog[after[r]], meter[r], date[r])

\* The log, the projection and what each request knows of them fit together.
IInv ==
  /\ TypeOK
  /\ LogWellFormed
  /\ ProjectionIsPrefix
  /\ AnswersAreSnapshots
  /\ \A r \in Requests : UpdateInv(r) /\ WriteInv(r)

\* "Consistent write-and-read": a write that was answered is in its own answer, unless a
\* later record of the same date has replaced it, so the public server never raises
\* NoSuchElementException for a command that was applied.
ReadYourWrites ==
  \A r \in Requests : pc[r] = "done" /\ kind[r] \in {"create", "add"} =>
    /\ meter[r] \in answer[r].known
    /\ kind[r] = "add" => answer[r].timeSeries[meter[r]][date[r]] >= after[r]

\* Only a restart takes the projection back.
ProjectionAdvances ==
  [][lastEventTimestamp' < lastEventTimestamp => Restart]_vars

\* Every request that arrived ends.
RequestsEnd ==
  \A r \in Requests : pc[r] # "idle" ~> pc[r] \in {"done", "refused", "failed"}

\* The example is an event-sourced projection.
Abstract == INSTANCE EventSourcing
              WITH Event <- StoredEvent, log <- eventLog, applied <- lastEventTimestamp
ImplementsEventSourcing == Abstract!ESpec

\* "Periodically poll the event log to keep our state up to date": when the service
\* stays up, every event of the log gets into the projection.
PolledUpToDate ==
  <>[][~Restart]_vars =>
    \A n \in 1 .. Cardinality(Requests) : Len(eventLog) >= n ~> lastEventTimestamp >= n
=============================================================================
