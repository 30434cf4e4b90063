--------------------------- MODULE MCBothServers ----------------------------
(***************************************************************************)
(* Instances of BothServers for TLC.                                       *)
(***************************************************************************)
EXTENDS BothServers

\* Any two endpoints.
TwoRoutes == EndpointType \X EndpointType
=============================================================================
