------------------------------ MODULE Analyzer ------------------------------
(***************************************************************************)
(* One call of an Analyzer: a report on the external contacts, a degree, a *)
(* page rank, bursts or response times.  The reports share the copy of the *)
(* interactions and nothing else.                                          *)
(***************************************************************************)
EXTENDS ExternalTraffic, Centrality, Temporal

vars == <<trafficVars, externalVars, centralityVars, temporalVars>>

Init == TrafficInit /\ ExternalInit /\ CentralityInit /\ TemporalInit

Next ==
  \/ ExternalNext /\ UNCHANGED <<centralityVars, temporalVars>>
  \/ CentralityNext /\ UNCHANGED <<externalVars, temporalVars>>
  \/ TemporalNext /\ UNCHANGED <<externalVars, centralityVars>>

Spec == Init /\ [][Next]_vars
=============================================================================
