---------------------------- MODULE GraphExport ----------------------------
(***************************************************************************)
(* cmd/commgraph/export.go with export/gephi.go and export/neo4j.go: what  *)
(* the two exports say of the communities.  Both commands take the actors  *)
(* from the interactions' ends, one the resolver does not know under its   *)
(* ID, and have the communities computed of the same interactions: nobody  *)
(* writes to the store in between.                                         *)
(*                                                                         *)
(* A file is what it makes the reading program hold: Gephi the nodes with  *)
(* their community and colour; Neo4j, which is external, the community     *)
(* nodes and the memberships that its MERGE and MATCH statements leave in  *)
(* an empty database.  Edges are taken over one by one and left out.       *)
(***************************************************************************)
EXTENDS Community

VARIABLES
  gexf,  \* <<>>, or <<nodes>>
  neo4j  \* <<>>, or <<[communities, members]>>

exportVars == <<gexf, neo4j>>

ExportInit == gexf = <<>> /\ neo4j = <<>>
-----------------------------------------------------------------------------
\* GetCommunity: zero for an actor that is not in the result.
CommunityOf(a) == LET m == result[1].membership IN IF a \in DOMAIN m THEN m[a] ELSE 0

\* Fault: the position on the circle is computed with integers.
HueOfIntegers(i, n) == (i \div n) * 6

\* Which sixth of the circle the hue of colour i of n lies in.  The third
\* component hsvToRGB mixes in is rounded to none or all, so the six sixths
\* are six colours.
Hue(i, n) == (6 * i) \div n

Colours == IF result[1].communities = <<>> THEN 1 ELSE Len(result[1].communities)

ExportGephi ==
  /\ result # <<>>
  /\ gexf' = <<[a \in Nodes |-> [community |-> CommunityOf(a),
                                colour |-> Hue(CommunityOf(a) % Colours, Colours)]]>>
  /\ UNCHANGED <<vars, neo4j>>
-----------------------------------------------------------------------------
\* Fault: the IDs of the communities count from one.
CommunityIdFromOne(i) == i

CommunityId(i) == i - 1

CommunityNodes ==
  {[id |-> CommunityId(i), size |-> Cardinality(result[1].communities[i])] :
     i \in DOMAIN result[1].communities}

\* MATCH finds only what an earlier statement has made: the statements for
\* the communities come before those for their members.
ExportNeo4j ==
  /\ result # <<>>
  /\ neo4j' = <<[communities |-> CommunityNodes,
                 members |-> {<<a, result[1].membership[a]>> :
                                a \in {b \in Nodes : \E c \in CommunityNodes :
                                         c.id = result[1].membership[b]}}]>>
  /\ UNCHANGED <<vars, gexf>>
-----------------------------------------------------------------------------
(***************************************************************************)
(* In Gephi, as long as there are no more than six communities, two nodes  *)
(* have one colour exactly if their actors are in one community, by the    *)
(* numbers and arithmetic of export/gephi.go:322-346.                      *)
(***************************************************************************)
ColoursTellCommunities ==
  gexf # <<>> /\ Len(result[1].communities) <= 6 =>
    \A a, b \in DOMAIN gexf[1] :
      gexf[1][a].colour = gexf[1][b].colour
        <=> result[1].membership[a] = result[1].membership[b]

MembersIn(graph, c) == {p[1] : p \in {q \in graph.members : q[2] = c.id}}

(***************************************************************************)
(* After the import of a Neo4j file every actor belongs to exactly one     *)
(* community, and the nodes' sizes are the sizes of the groups that belong *)
(* to them, each once, though perhaps at another node: the nodes count by  *)
(* the reassigned IDs, the members by the numbers from before              *)
(* (export/neo4j.go:147-158).                                              *)
(***************************************************************************)
ImportIsComplete ==
  neo4j # <<>> =>
    LET graph == neo4j[1] IN
    /\ \A a \in Nodes : Cardinality({p \in graph.members : p[1] = a}) = 1
    /\ \E swap \in [graph.communities -> graph.communities] :
         /\ IsInjective(swap)
         /\ \A c \in graph.communities :
              /\ MembersIn(graph, swap[c]) # {}
              /\ c.size = Cardinality(MembersIn(graph, swap[c]))
=============================================================================
