------------------------- MODULE MCCommunityReports -------------------------
(***************************************************************************)
(* Every set of six interactions among four actors: an uneven ring, a      *)
(* chord and an actor who writes to itself.  Meanwhile one of them may     *)
(* write once more, and somebody new may write.                            *)
(***************************************************************************)
EXTENDS CommunityReports

MCActor == 1..5
Edges == {<<1, 2>>, <<2, 3>>, <<3, 4>>, <<4, 1>>, <<1, 3>>, <<2, 2>>}
MCWeight(e) == IF e \in {<<1, 2>>, <<3, 4>>} THEN 2 ELSE 1
MCGraphs == {[e \in es |-> MCWeight(e)] : es \in SUBSET Edges}
MCArrivals == {<<2, 1>>, <<5, 3>>}
=============================================================================
