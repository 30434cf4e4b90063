--------------------------- MODULE CommandsService ---------------------------
(***************************************************************************)
(* The commands service of the CQRS example: the aggregates and the event  *)
(* log that `CommandsService.apply` updates in one STM transaction. The    *)
(* value of a record is identified by the timestamp of the event that      *)
(* stored it; its date is kept, as two records may have the same date.     *)
(***************************************************************************)
EXTENDS Naturals, Sequences

CONSTANTS
  Meters,   \* the supply of UUIDs: UUID.randomUUID() picks an unused one
  Dates,    \* of the records
  NoDate    \* of a creation

ASSUME CommandsAssumption == NoDate \notin Dates

VARIABLES
  data,           \* ids of the aggregates
  eventLog,
  lastTimestamp

commandsVars == <<data, eventLog, lastTimestamp>>

StoredEvent == [timestamp : Nat, type : {"MeterCreated"}, meter : Meters, date : {NoDate}]
               \cup [timestamp : Nat, type : {"RecordAdded"}, meter : Meters, date : Dates]

CommandsTypeOK ==
  /\ data \subseteq Meters
  /\ eventLog \in Seq(StoredEvent)
  /\ lastTimestamp \in Nat

CommandsInit ==
  /\ data = {}
  /\ eventLog = <<>>
  /\ lastTimestamp = 0

\* A bug: the new timestamp is not stored.
HandleEventForgetful(type, m, date) ==
  /\ data' = data \cup {m}
  /\ eventLog' = Append(eventLog, [timestamp |-> lastTimestamp + 1, type |-> type,
                                  meter |-> m, date |-> date])
  /\ UNCHANGED lastTimestamp

\* A bug: the event is prepended (`+:` for `:+`).
HandleEventFirst(type, m, date) ==
  /\ data' = data \cup {m}
  /\ eventLog' = <<[timestamp |-> lastTimestamp + 1, type |-> type,
                   meter |-> m, date |-> date]>> \o eventLog
  /\ lastTimestamp' = lastTimestamp + 1

\* handleEvent: the event gets the next timestamp, and the aggregate and the log are
\* updated together.
HandleEvent(type, m, date) ==
  LET timestamp == lastTimestamp + 1 IN
  /\ data' = data \cup {m}
  /\ eventLog' = Append(eventLog, [timestamp |-> timestamp, type |-> type,
                                  meter |-> m, date |-> date])
  /\ lastTimestamp' = timestamp

\* apply(CreateMeter): always yields an event.
CreateMeter(m) == m \notin data /\ HandleEvent("MeterCreated", m, NoDate)

\* apply(AddRecord) on an existing meter yields an event; on another, None.
AddRecord(m, date) == m \in data /\ HandleEvent("RecordAdded", m, date)
AddRecordRefused(m) == m \notin data /\ UNCHANGED commandsVars

\* The longest suffix of s that starts with an event at or after t: what dropWhile leaves
\* of it when it drops the events before t.
DropBefore(s, t) ==
  LET kept == {i \in DOMAIN s : s[i].timestamp >= t}
  IN  IF kept = {} THEN <<>>
      ELSE SubSeq(s, CHOOSE i \in kept : \A j \in kept : i <= j, Len(s))

\* events(maybeSince); no timestamp is 0 (timestamps start at 1).
Events(since) == DropBefore(eventLog, since)
=============================================================================
