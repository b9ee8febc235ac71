---------------------------- MODULE MCCommunity ----------------------------
(***************************************************************************)
(* Every set of six interactions among four actors: an uneven ring, a      *)
(* chord and an actor who writes to itself.                                *)
(***************************************************************************)
EXTENDS Community

MCActor == 1..4
Edges == {<<1, 2>>, <<2, 3>>, <<3, 4>>, <<4, 1>>, <<1, 3>>, <<2, 2>>}
MCWeight(e) == IF e \in {<<1, 2>>, <<3, 4>>} THEN 2 ELSE 1
MCGraphs == {[e \in es |-> MCWeight(e)] : es \in SUBSET Edges}
=============================================================================
