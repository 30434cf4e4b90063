----------------------------- MODULE ChunkStream -----------------------------
(***************************************************************************)
(* What a streamed entity promises: the values sent, in order, one after   *)
(* the other; an end only when all have arrived; and a failure only for a  *)
(* lost connection or a value that is rejected, and then only after those  *)
(* before it, unless the receiver is `lossy`.                              *)
(***************************************************************************)
EXTENDS Naturals, Sequences

CONSTANTS Value, Bad    \* Bad: the values the receiver's codec rejects

VARIABLES
  sent, received,
  ended,    \* the producer has no more values
  broken,   \* the connection was lost
  lossy,    \* the receiver may drop the values before a failure
  status    \* what the consumer sees: "open", "closed" or "failed"

streamVars == <<sent, received, ended, broken, lossy, status>>

SInit ==
  /\ sent = <<>> /\ received = <<>>
  /\ ended = FALSE /\ broken = FALSE
  /\ lossy \in BOOLEAN
  /\ status = "open"

SendValue ==
  /\ ~ended
  /\ \E v \in Value : sent' = Append(sent, v)
  /\ UNCHANGED <<received, ended, broken, lossy, status>>

EndValues ==
  /\ ended' = TRUE
  /\ UNCHANGED <<sent, received, broken, lossy, status>>

LoseConnection ==
  /\ broken' = TRUE
  /\ UNCHANGED <<sent, received, ended, lossy>>
  /\ status' \in {status} \cup (IF status = "open" THEN {"failed"} ELSE {})

Rejected(n) == n <= Len(sent) /\ sent[n] \in Bad

\* The consumer gets the next value; the failure that follows may come with it.
Deliver ==
  /\ status = "open"
  /\ Len(received) < Len(sent) /\ ~Rejected(Len(received) + 1)
  /\ received' = Append(received, sent[Len(received) + 1])
  /\ \/ UNCHANGED status
     \/ status' = "closed" /\ ended /\ Len(received') = Len(sent)
     \/ status' = "failed" /\ (broken \/ Rejected(Len(received') + 1))
  /\ UNCHANGED <<sent, ended, broken, lossy>>

Close ==
  /\ status = "open" /\ ended /\ Len(received) = Len(sent)
  /\ status' = "closed"
  /\ UNCHANGED <<sent, received, ended, broken, lossy>>

Fail ==
  /\ status = "open"
  /\ \/ broken
     \/ Rejected(Len(received) + 1)
     \/ lossy /\ \E n \in Len(received) + 1 .. Len(sent) : Rejected(n)
  /\ status' = "failed"
  /\ UNCHANGED <<sent, received, ended, broken, lossy>>

SNext == SendValue \/ EndValues \/ LoseConnection \/ Deliver \/ Close \/ Fail

SSpec == SInit /\ [][SNext]_streamVars
=============================================================================
