--------------------------- MODULE MCPublicServer ---------------------------
(***************************************************************************)
(* Instances of PublicServer for TLC.                                      *)
(***************************************************************************)
EXTENDS PublicServer, TLC

\* Nothing is ordered but the timestamps.
Symmetry == Permutations(Meters) \cup Permutations(Requests) \cup Permutations(Dates)
=============================================================================
