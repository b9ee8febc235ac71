-------------------------- MODULE CommunityReports --------------------------
(***************************************************************************)
(* Community detection and the calls that use its result: the bridges, the *)
(* structural holes (which do not, but belong to the same command) and the *)
(* two exports.  A run of a command makes one of them.                     *)
(***************************************************************************)
EXTENDS Bridges, GraphExport

reportVars == <<bridgeVars, exportVars>>

NoReport == bridges = <<>> /\ holes = <<>> /\ gexf = <<>> /\ neo4j = <<>>

ReportsInit == Init /\ BridgesInit /\ ExportInit

ReportsNext ==
  \/ NoReport /\ Next /\ UNCHANGED reportVars
  \/ NoReport /\ (DetectBridges \/ (rounds = 0 /\ StructuralHoles)) /\ UNCHANGED exportVars
  \/ NoReport /\ (ExportGephi \/ ExportNeo4j) /\ UNCHANGED bridgeVars

ReportsSpec == ReportsInit /\ [][ReportsNext]_<<vars, reportVars>>

\* A command makes its calls one after the other on one goroutine.
FairReports == ReportsSpec /\ WF_<<vars, reportVars>>(ReportsNext)
-----------------------------------------------------------------------------
(***************************************************************************)
(* Every command comes to its report.  Left to themselves both algorithms  *)
(* may go round in circles: a gain is computed without the loss of         *)
(* leaving, and of equal votes either may win                              *)
(* (analysis/community.go:58, 338).                                        *)
(***************************************************************************)
ReportReturns == <>~NoReport
=============================================================================
