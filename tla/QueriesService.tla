--------------------------- MODULE QueriesService ---------------------------
(***************************************************************************)
(* The queries service of the CQRS example: a projection of the event log  *)
(* in memory, brought up to date by the queries that ask for it. A query   *)
(* reads the state, reads it again in `update`, calls the commands service *)
(* and applies what it fetched in a transaction: other queries may do the  *)
(* same in between, and the service may restart.                           *)
(***************************************************************************)
EXTENDS CommandsService

CONSTANT Requests    \* requests to the public server, each of which queries once

VARIABLES
  lastEventTimestamp,  \* of the last applied event, 0 when there is none
  known,               \* the keys of `meters`
  timeSeries,          \* of each meter: the value at a date, 0 when there is none
  pc,                  \* where each request is
  kind,                \* what it asks for
  meter,               \* the meter it is about
  date,                \* the date of the record it adds
  after,               \* FindById's `after`, 0 when there is none
  since,               \* the timestamp `update` read
  fetched,             \* the events `update` received
  answer               \* the state that answered the query

queryVars   == <<lastEventTimestamp, known, timeSeries>>
requestVars == <<pc, kind, meter, date, after, since, fetched, answer>>
vars == <<data, eventLog, lastTimestamp, lastEventTimestamp, known, timeSeries,
          pc, kind, meter, date, after, since, fetched, answer>>

State(k, ts) == [known |-> k, timeSeries |-> ts]
NoTimeSeries == [m \in Meters |-> [d \in Dates |-> 0]]

(***************************************************************************)
(* atomicallyApplyEvents: foldLeft(applyEvent), written out. A created     *)
(* meter starts without records, a record replaces one of the same date,   *)
(* and a record of an unknown meter throws.                                *)
(***************************************************************************)
IsCreation(e, m)  == e.type = "MeterCreated" /\ e.meter = m
IsRecord(e, m, d) == e.type = "RecordAdded" /\ e.meter = m /\ e.date = d

Throws(k, es) ==
  \E i \in DOMAIN es :
    /\ es[i].type = "RecordAdded"
    /\ es[i].meter \notin k
    /\ ~ \E j \in 1 .. i - 1 : IsCreation(es[j], es[i].meter)

KnownAfter(k, es) == k \cup {m \in Meters : \E i \in DOMAIN es : IsCreation(es[i], m)}

\* The positions of es where the value of m at d is set: to the record's, or to none.
Settings(es, m, d) == {i \in DOMAIN es : IsCreation(es[i], m) \/ IsRecord(es[i], m, d)}

LatestOf(S) == CHOOSE i \in S : \A j \in S : j <= i

ValueAfter(v, es, m, d) ==
  LET set  == Settings(es, m, d)
      last == es[LatestOf(set)]
  IN  CASE set = {}                    -> v
        [] set # {} /\ IsCreation(last, m) -> 0
        [] OTHER                       -> last.timestamp

TimeSeriesAfter(ts, es) ==
  [m \in Meters |-> [d \in Dates |-> ValueAfter(ts[m][d], es, m, d)]]

QueriesInit ==
  /\ lastEventTimestamp = 0
  /\ known = {}
  /\ timeSeries = NoTimeSeries

Done(r, s) ==
  /\ pc'     = [pc EXCEPT ![r] = "done"]
  /\ answer' = [answer EXCEPT ![r] = s]

\* A bug: "one event late" is recent enough.
AnswerTooEarly(r) ==
  /\ pc[r] = "query"
  /\ kind[r] = "list" \/ after[r] <= lastEventTimestamp + 1
  /\ Done(r, State(known, timeSeries))
  /\ UNCHANGED <<commandsVars, queryVars, kind, meter, date, after, since, fetched>>

\* A bug: a state exactly as recent as asked for falls between the two cases.
AnswerIfLater(r) ==
  /\ pc[r] = "query"
  /\ kind[r] = "list" \/ after[r] = 0 \/ after[r] < lastEventTimestamp
  /\ Done(r, State(known, timeSeries))
  /\ UNCHANGED <<commandsVars, queryVars, kind, meter, date, after, since, fetched>>

\* findAll, and updateIfRequired when the state is recent enough for the query.
AnswerAtOnce(r) ==
  /\ pc[r] = "query"
  /\ kind[r] = "list" \/ after[r] <= lastEventTimestamp
  /\ Done(r, State(known, timeSeries))
  /\ UNCHANGED <<commandsVars, queryVars, kind, meter, date, after, since, fetched>>

\* updateIfRequired when it is not.
UpdateRequired(r) ==
  /\ pc[r] = "query"
  /\ kind[r] # "list"
  /\ lastEventTimestamp < after[r]
  /\ pc' = [pc EXCEPT ![r] = "update"]
  /\ UNCHANGED <<commandsVars, queryVars, kind, meter, date, after, since, fetched, answer>>

\* A bug: the events are asked for since the query's timestamp.
UpdateSinceAfter(r) ==
  /\ pc[r] = "update"
  /\ since' = [since EXCEPT ![r] = after[r]]
  /\ pc'    = [pc EXCEPT ![r] = "fetch"]
  /\ UNCHANGED <<commandsVars, queryVars, kind, meter, date, after, fetched, answer>>

\* update(): reads the last timestamp and asks for the events since then.
Update(r) ==
  /\ pc[r] = "update"
  /\ since' = [since EXCEPT ![r] = lastEventTimestamp]
  /\ pc'    = [pc EXCEPT ![r] = "fetch"]
  /\ UNCHANGED <<commandsVars, queryVars, kind, meter, date, after, fetched, answer>>

\* The commands service answers.
FetchEvents(r) ==
  /\ pc[r] = "fetch"
  /\ fetched' = [fetched EXCEPT ![r] = Events(since[r])]
  /\ pc'      = [pc EXCEPT ![r] = "apply"]
  /\ UNCHANGED <<commandsVars, queryVars, kind, meter, date, after, since, answer>>

\* A bug: events are applied twice.
AllEvents(r) == fetched[r]

\* The events the state has applied meanwhile are dropped ("Don't apply events twice").
NewEvents(r) == DropBefore(fetched[r], lastEventTimestamp + 1)

\* A bug: the query is answered from the state before the update.
ApplyEventsLate(r) ==
  LET es == NewEvents(r) IN
  /\ pc[r] = "apply"
  /\ ~Throws(known, es)
  /\ lastEventTimestamp' = IF es = <<>> THEN lastEventTimestamp ELSE es[Len(es)].timestamp
  /\ known'   = KnownAfter(known, es)
  /\ timeSeries' = TimeSeriesAfter(timeSeries, es)
  /\ Done(r, State(known, timeSeries))
  /\ UNCHANGED <<commandsVars, kind, meter, date, after, since, fetched>>

ApplyEvents(r) ==
  LET es == NewEvents(r) IN
  /\ pc[r] = "apply"
  /\ ~Throws(known, es)
  /\ lastEventTimestamp' = IF es = <<>> THEN lastEventTimestamp ELSE es[Len(es)].timestamp
  /\ known'   = KnownAfter(known, es)
  /\ timeSeries' = TimeSeriesAfter(timeSeries, es)
  /\ Done(r, State(known', timeSeries'))
  /\ UNCHANGED <<commandsVars, kind, meter, date, after, since, fetched>>

\* The queries service restarts: its state is in memory, its requests are cut off.
Restart ==
  /\ lastEventTimestamp' = 0
  /\ known'   = {}
  /\ timeSeries' = NoTimeSeries
  /\ pc' = [r \in Requests |-> IF pc[r] \in {"update", "fetch", "apply"}
                               THEN "failed" ELSE pc[r]]
  /\ UNCHANGED <<commandsVars, kind, meter, date, after, since, fetched, answer>>
=============================================================================
