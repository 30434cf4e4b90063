---------------------------- MODULE EventSourcing ----------------------------
(***************************************************************************)
(* What the CQRS example promises of its two services together: a log that *)
(* only grows, and a projection that has applied a prefix of it, catches   *)
(* up in any steps, and starts again from nothing when its service does.   *)
(***************************************************************************)
EXTENDS Naturals, Sequences

CONSTANT Event

VARIABLES log, applied

EInit == log = <<>> /\ applied = 0

Store == /\ Len(log') = Len(log) + 1
         /\ SubSeq(log', 1, Len(log)) = log
         /\ log'[Len(log')] \in Event
         /\ UNCHANGED applied

CatchUp == /\ applied' \in applied .. Len(log)
           /\ UNCHANGED log

StartAgain == applied' = 0 /\ UNCHANGED log

ENext == Store \/ CatchUp \/ StartAgain

ESpec == EInit /\ [][ENext]_<<log, applied>>
=============================================================================
