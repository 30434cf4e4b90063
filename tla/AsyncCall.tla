------------------------------ MODULE AsyncCall ------------------------------
(***************************************************************************)
(* What the Fetch client promises of a call, without timers, promises or   *)
(* jobs: the first of the four events that can end the wait for a response *)
(* (its headers, a network failure, the timeout, the caller's abort())     *)
(* wins, the others are ignored as causes, and the call then ends at most  *)
(* once, with an outcome that this first event explains.                   *)
(***************************************************************************)
CONSTANT Calls

VARIABLES winner,    \* the event that ended the wait for the response
          outcome    \* what the caller was given

avars == <<winner, outcome>>

NotStarted == "none"
Pending    == "pending"
Thrown     == "thrown"   \* the call could not be made, the caller got an exception

Events == {"headers", "network", "timer", "user"}

\* The outcomes that each event can lead to.
OutcomesOf(e) ==
  CASE e = "headers" -> {"value", "decodeError", "decoderThrew", "headersError",
                         "clientErrors", "serverError", "unexpectedStatus", "jsError"}
    [] e = "timer"   -> {"timeout"}
    [] OTHER         -> {"jsError"}

AInit ==
  /\ winner  = [c \in Calls |-> NotStarted]
  /\ outcome = [c \in Calls |-> NotStarted]

Start(c) ==
  /\ outcome[c] = NotStarted
  /\ \E o \in {Pending, Thrown} : outcome' = [outcome EXCEPT ![c] = o]
  /\ UNCHANGED winner

Win(c) ==
  /\ outcome[c] = Pending
  /\ winner[c] = NotStarted
  /\ \E e \in Events : winner' = [winner EXCEPT ![c] = e]
  /\ UNCHANGED outcome

End(c) ==
  /\ outcome[c] = Pending
  /\ winner[c] \in Events
  /\ \E o \in OutcomesOf(winner[c]) : outcome' = [outcome EXCEPT ![c] = o]
  /\ UNCHANGED winner

ANext == \E c \in Calls : Start(c) \/ Win(c) \/ End(c)

ASafeSpec == AInit /\ [][ANext]_avars

\* A call that did not get a response ends: its event has a job in the queue.
EndWithoutResponse(c) == winner[c] \in Events \ {"headers"} /\ End(c)

ASpec == ASafeSpec /\ \A c \in Calls : WF_avars(EndWithoutResponse(c))
=============================================================================
