------------------------------ MODULE Folding -------------------------------
(***************************************************************************)
(* The fold of a sequence by a step that is a function: of what there is   *)
(* so far, and then of the next element. (The folds of the library take an *)
(* operator for the step, which nothing general can be proved about.)      *)
(***************************************************************************)
EXTENDS Naturals, Sequences

Folded(step, start, seq) ==
  LET f[i \in 0 .. Len(seq)] == IF i = 0 THEN start ELSE step[f[i - 1]][seq[i]]
  IN  f[Len(seq)]

\* Sequences of elements of S, one after the other.
Joined(S, seqs) ==
  Folded([all \in Seq(S) |-> [seq \in Seq(S) |-> all \o seq]], <<>>, seqs)
=============================================================================
