--------------------------- MODULE MCNetworkPaths ---------------------------
(***************************************************************************)
(* Every undirected graph on four actors, each edge in one direction, and  *)
(* the same with one actor writing to itself.                              *)
(***************************************************************************)
EXTENDS NetworkPaths

MCActor == 1..4
MCEnds == {<<1, 2>>, <<2, 3>>, <<3, 3>>}
MCGraphs == SUBSET ({<<1, 2>>, <<3, 1>>, <<1, 4>>, <<2, 3>>, <<4, 2>>, <<3, 4>>, <<1, 1>>})
=============================================================================
