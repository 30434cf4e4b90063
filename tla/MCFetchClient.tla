---------------------------- MODULE MCFetchClient ----------------------------
(***************************************************************************)
(* Instances of FetchClient for TLC: an endpoint with a body to await, one *)
(* without, and one whose declared responses include the client errors'    *)
(* own status, so that it shadows them.                                    *)
(***************************************************************************)
EXTENDS FetchClient

MCStatuses == {"200", "400", "404", "500"}

MCEndpoints ==
  {[accepts |-> {"200"},      entity |-> "strict"],
   [accepts |-> {"200"},      entity |-> "immediate"],
   [accepts |-> {"200", "400"}, entity |-> "strict"]}
=============================================================================
