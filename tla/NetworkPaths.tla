---------------------------- MODULE NetworkPaths ----------------------------
(***************************************************************************)
(* analysis/paths.go: the searches over the undirected graph of            *)
(* interactions, breadth first but for AllPathsUpToDepth.  Neighbours come *)
(* out of a Go map, so every order of visiting them is possible; one step  *)
(* takes one actor off the queue, or enters or leaves one.                 *)
(*                                                                         *)
(* "depth" is the distance map of bfsDistances and EgoNetwork; its domain  *)
(* is the visited set of ShortestPath and ConnectedComponents, which do    *)
(* not keep the numbers.  Edge weights play no part in a search.           *)
(***************************************************************************)
EXTENDS Naturals, Sequences, FiniteSets, FiniteSetsExt, SequencesExt, Functions

CONSTANTS
  Actor,       \* actor IDs
  Graphs,      \* sets of interactions to explore, as pairs <<from, to>>
  Depths,      \* depths EgoNetwork and AllPathsUpToDepth are asked for
  Ends         \* pairs AllPathsUpToDepth is asked for

ASSUME ActorAssumption == IsFiniteSet(Actor)
ASSUME GraphsAssumption == Graphs \subseteq SUBSET (Actor \X Actor)
ASSUME DepthsAssumption == Depths \subseteq Nat /\ Ends \subseteq Actor \X Actor

VARIABLES
  interactions,  \* what the store returned
  job,           \* the question asked
  queue,         \* actors to be expanded
  depth,         \* visited actors and how far they are
  parent,        \* who each visited actor was found from
  components,    \* ConnectedComponents: the classes found so far
  sampled,       \* GraphDiameter, AveragePathLength: sources searched from
  longest,       \* GraphDiameter: the largest distance met
  lengths,       \* AveragePathLength: [total, count] of the distances met
  walk,          \* AllPathsUpToDepth: the path from the start to where it is
  untried,       \* for each actor of the walk, neighbours not yet looked at
  marked,        \* visited, true for the actors it is in
  found,         \* paths to the target
  status,        \* "running", or returned: "nil" or "done"
  answer         \* what was returned with "done", as a sequence of one

question == <<interactions, job>>
searchVars == <<queue, depth, parent>>
sampleVars == <<sampled, longest, lengths>>
pathVars == <<walk, untried, marked, found>>
vars == <<question, searchVars, components, sampleVars, pathVars, status, answer>>

\* buildAdjacencyList: an edge is filed under both of its ends.
Nodes == {e[1] : e \in interactions} \cup {e[2] : e \in interactions}

\* Fault: an edge is filed under its sender only.
NeighboursOut(a) == {b \in Nodes : <<a, b>> \in interactions}

Neighbours(a) == {b \in Nodes : <<a, b>> \in interactions \/ <<b, a>> \in interactions}

Job ==
  [kind : {"shortest"}, from : Actor, to : Actor]
    \cup [kind : {"ego"}, from : Actor, depth : Depths]
    \cup [kind : {"components"}]
    \cup [kind : {"diameter", "average"}, sample : 0..Cardinality(Actor)]
    \cup {[kind |-> "paths", from |-> e[1], to |-> e[2], depth |-> d] : e \in Ends, d \in Depths}

TypeOK ==
  /\ interactions \in Graphs
  /\ job \in Job
  /\ queue \in SeqOf(Actor, Cardinality(Actor))
  /\ DOMAIN depth \subseteq Actor
  /\ \A a \in DOMAIN depth : depth[a] \in 0..Cardinality(Actor)
  /\ DOMAIN parent \subseteq DOMAIN depth
  /\ components \subseteq SUBSET Actor
  /\ sampled \subseteq Nodes
  /\ status \in {"running", "nil", "done"}
  /\ longest \in 0..Cardinality(Actor)
  /\ lengths \in [total : Nat, count : Nat]
  /\ Len(untried) = Len(walk) /\ marked \subseteq Actor
-----------------------------------------------------------------------------
OnlyFrom(a) == [b \in {a} |-> 0]
Nowhere == [b \in {} |-> 0]

\* An actor that is not in the graph has no ego network.
Init ==
  /\ interactions \in Graphs
  /\ job \in Job
  /\ parent = Nowhere
  /\ components = {}
  /\ sampled = {}
  /\ longest = 0 /\ lengths = [total |-> 0, count |-> 0]
  /\ IF job.kind = "paths"
     THEN walk = <<job.from>> /\ untried = <<Neighbours(job.from)>> /\ marked = {job.from}
     ELSE walk = <<>> /\ untried = <<>> /\ marked = {}
  /\ found = {}
  /\ IF job.kind \in {"shortest", "ego"}
     THEN queue = <<job.from>> /\ depth = OnlyFrom(job.from)
     ELSE queue = <<>> /\ depth = Nowhere
  /\ status = IF job.kind = "ego" /\ job.from \notin Nodes THEN "nil" ELSE "running"
  /\ answer = <<>>

Current == Head(queue)

\* The actors reached first from the current one, in the order they are met.
Unseen(a) == Neighbours(a) \ DOMAIN depth
Orders(S) == {s \in [1..Cardinality(S) -> S] : ToSet(s) = S}

Reach(a, new) ==
  /\ depth' = [b \in DOMAIN depth \cup new |->
                 IF b \in new THEN depth[a] + 1 ELSE depth[b]]
  /\ parent' = [b \in DOMAIN parent \cup new |-> IF b \in new THEN a ELSE parent[b]]

\* Fault: the search stops one step later.
PastHorizon(a) == job.kind = "ego" /\ depth[a] > job.depth

\* EgoNetwork does not look beyond the depth asked for.
AtHorizon(a) == job.kind = "ego" /\ depth[a] >= job.depth

IsTarget(a) == job.kind = "shortest" /\ a = job.to

Expand ==
  /\ status = "running"
  /\ queue # <<>>
  /\ ~IsTarget(Current)
  /\ LET new == IF AtHorizon(Current) THEN {} ELSE Unseen(Current) IN
     /\ Reach(Current, new)
     /\ \E order \in Orders(new) : queue' = Tail(queue) \o order
  /\ UNCHANGED <<question, components, sampleVars, pathVars, status, answer>>
-----------------------------------------------------------------------------
\* ShortestPath: follow the parents back from the target.
PathTo(a) ==
  LET up[k \in Nat] ==
        IF k = 0 THEN a
        ELSE IF up[k - 1] = job.from THEN job.from ELSE parent[up[k - 1]]
      length == CHOOSE k \in 0..Cardinality(Actor) :
                  up[k] = job.from /\ \A j \in 0..(k - 1) : up[j] # job.from
  IN  [i \in 1..(length + 1) |-> up[length + 1 - i]]

Found ==
  /\ status = "running"
  /\ queue # <<>>
  /\ IsTarget(Current)
  /\ status' = "done"
  /\ answer' = <<PathTo(job.to)>>
  /\ UNCHANGED <<question, searchVars, components, sampleVars, pathVars>>

NoPath ==
  /\ status = "running"
  /\ job.kind = "shortest"
  /\ queue = <<>>
  /\ status' = "nil"
  /\ UNCHANGED <<question, searchVars, components, sampleVars, pathVars, answer>>

\* EgoNetwork: the visited actors and the edges among them.
EgoNetwork ==
  /\ status = "running"
  /\ job.kind = "ego"
  /\ queue = <<>>
  /\ status' = "done"
  /\ answer' = <<[nodes |-> DOMAIN depth,
                  edges |-> {p \in (DOMAIN depth) \X (DOMAIN depth) :
                               p[2] \in Neighbours(p[1])}]>>
  /\ UNCHANGED <<question, searchVars, components, sampleVars, pathVars>>

\* ConnectedComponents: one search per actor not visited by an earlier one.
NextComponent ==
  /\ status = "running"
  /\ job.kind = "components"
  /\ queue = <<>>
  /\ \E a \in Nodes \ DOMAIN depth :
       /\ queue' = <<a>>
       /\ depth' = [b \in DOMAIN depth \cup {a} |-> IF b = a THEN 0 ELSE depth[b]]
  /\ components' = components \cup ({DOMAIN depth \ UNION components} \ {{}})
  /\ UNCHANGED <<question, parent, sampleVars, pathVars, status, answer>>

AllComponents ==
  /\ status = "running"
  /\ job.kind = "components"
  /\ queue = <<>>
  /\ Nodes \subseteq DOMAIN depth
  /\ status' = "done"
  /\ answer' = <<components \cup ({DOMAIN depth \ UNION components} \ {{}})>>
  /\ UNCHANGED <<question, searchVars, components, sampleVars, pathVars>>

SumOf(f, S) == FoldFunctionOnSet(LAMBDA x, y : x + y, 0, f, S)

(***************************************************************************)
(* GraphDiameter and AveragePathLength search from as many sources as the  *)
(* sample says, all of them when it says zero or too many.  The visited    *)
(* set starts afresh with each source.                                     *)
(***************************************************************************)
\* Fault: a sample larger than the graph is taken at its word.
SampleUncapped == IF job.sample = 0 THEN Cardinality(Nodes) ELSE job.sample

SampleSize == IF job.sample = 0 \/ job.sample > Cardinality(Nodes)
              THEN Cardinality(Nodes) ELSE job.sample

\* Fault: the maximum starts again with every source.
LongestLast ==
  CHOOSE m \in {0} \cup {depth[a] : a \in DOMAIN depth} :
    \A a \in DOMAIN depth : m >= depth[a]

LongestSoFar ==
  CHOOSE m \in {longest} \cup {depth[a] : a \in DOMAIN depth} :
    \A a \in DOMAIN depth : m >= depth[a] /\ m >= longest

\* The source itself, at distance zero, is no path.
LengthsSoFar ==
  [total |-> lengths.total + SumOf(depth, DOMAIN depth),
   count |-> lengths.count + Cardinality({a \in DOMAIN depth : depth[a] > 0})]

NextSource ==
  /\ status = "running"
  /\ job.kind \in {"diameter", "average"}
  /\ queue = <<>>
  /\ Cardinality(Nodes) >= 2
  /\ Cardinality(sampled) < SampleSize
  /\ \E a \in Nodes \ sampled :
       /\ queue' = <<a>>
       /\ depth' = OnlyFrom(a)
       /\ sampled' = sampled \cup {a}
  /\ longest' = LongestSoFar
  /\ lengths' = LengthsSoFar
  /\ parent' = Nowhere
  /\ UNCHANGED <<question, components, pathVars, status, answer>>

Diameter ==
  /\ status = "running"
  /\ job.kind \in {"diameter", "average"}
  /\ queue = <<>>
  /\ Cardinality(Nodes) >= 2 => Cardinality(sampled) = SampleSize
  /\ status' = "done"
  /\ answer' = <<IF job.kind = "diameter" THEN [longest |-> LongestSoFar] ELSE LengthsSoFar>>
  /\ UNCHANGED <<question, searchVars, components, sampleVars, pathVars>>
-----------------------------------------------------------------------------
(***************************************************************************)
(* AllPathsUpToDepth: dfsAllPaths enters a neighbour it is not in already, *)
(* returns at once at the target and when the depth is used up, and        *)
(* unmarks an actor when it leaves it for good.                            *)
(***************************************************************************)
TooDeep == Len(walk) > job.depth

\* The actors a call of dfsAllPaths may go on to.
Open == Last(untried) \ marked
Tried(b) == [untried EXCEPT ![Len(untried)] = @ \ {b}]

Descend(b) ==
  /\ status = "running" /\ job.kind = "paths"
  /\ IF TooDeep \/ b = job.to
     THEN /\ untried' = Tried(b)
          /\ found' = found \cup (IF TooDeep THEN {} ELSE {Append(walk, b)})
          /\ UNCHANGED <<walk, marked>>
     ELSE /\ untried' = Append(Tried(b), Neighbours(b))
          /\ walk' = Append(walk, b)
          /\ marked' = marked \cup {b}
          /\ UNCHANGED found
  /\ UNCHANGED <<question, searchVars, components, sampleVars, status, answer>>

\* Fault: an actor that was left stays visited.
UnmarkNobody(a) == marked

Unmark(a) == marked \ {a}

Ascend ==
  /\ status = "running" /\ job.kind = "paths"
  /\ walk # <<>> /\ Open = {}
  /\ marked' = Unmark(Last(walk))
  /\ walk' = Front(walk) /\ untried' = Front(untried)
  /\ UNCHANGED <<question, searchVars, components, sampleVars, found, status, answer>>

AllPaths ==
  /\ status = "running" /\ job.kind = "paths"
  /\ walk = <<>>
  /\ status' = "done"
  /\ answer' = <<found>>
  /\ UNCHANGED <<question, searchVars, components, sampleVars, pathVars>>

EnumeratePaths == (walk # <<>> /\ \E b \in Open : Descend(b)) \/ Ascend \/ AllPaths
-----------------------------------------------------------------------------
Search == Expand \/ Found \/ NoPath \/ EgoNetwork \/ NextComponent \/ AllComponents
            \/ NextSource \/ Diameter \/ EnumeratePaths

Next == Search

\* A search is one call on one goroutine: it runs until it returns.
Spec == Init /\ [][Next]_vars /\ WF_vars(Search)
-----------------------------------------------------------------------------
(***************************************************************************)
(* The reference: the actors within k hops of a, by definition.            *)
(***************************************************************************)
Linked(a, b) == <<a, b>> \in interactions \/ <<b, a>> \in interactions

\* Ball[k][a]: everyone within k hops of a.
Ball[k \in Nat] ==
  IF k = 0 THEN [a \in Actor |-> {a}]
  ELSE LET inner == Ball[k - 1]
       IN  [a \in Actor |-> inner[a] \cup {b \in Actor : \E c \in inner[a] : Linked(c, b)}]

Within(a, k) == Ball[k][a]
Reachable(a) == Within(a, Cardinality(Actor))
Distance(a, b) == CHOOSE k \in 0..Cardinality(Actor) :
                    b \in Within(a, k) /\ (k = 0 \/ b \notin Within(a, k - 1))

Asked(kind) == job.kind = kind /\ status # "running"

(***************************************************************************)
(* ShortestPath answers with a walk along edges from one end to the other  *)
(* that no other walk beats, whatever order the neighbours came in, and    *)
(* with nil exactly when there is none.                                    *)
(***************************************************************************)
PathIsShortest ==
  /\ TypeOK
  /\ Asked("shortest") =>
    IF status = "nil" THEN job.to \notin Reachable(job.from)
    ELSE LET path == answer[1] IN
         /\ path[1] = job.from /\ path[Len(path)] = job.to
         /\ \A i \in 1..(Len(path) - 1) : Linked(path[i], path[i + 1])
         /\ Len(path) - 1 = Distance(job.from, job.to)

(***************************************************************************)
(* EgoNetwork is the induced subgraph of everyone within the depth, though *)
(* the distances it prunes by are only known while it runs.                *)
(***************************************************************************)
EgoIsNeighbourhood ==
  Asked("ego") =>
    IF status = "nil" THEN job.from \notin Nodes
    ELSE /\ answer[1].nodes = Within(job.from, job.depth)
         /\ \A a, b \in answer[1].nodes :
              <<a, b>> \in answer[1].edges <=> Linked(a, b)

(***************************************************************************)
(* ConnectedComponents divides the actors into classes that are exactly    *)
(* the reachability classes, though all searches share one visited set.    *)
(***************************************************************************)
ComponentsAreClasses ==
  Asked("components") => answer[1] = {Reachable(a) : a \in Nodes}

(***************************************************************************)
(* The figures are those of a sample of the size asked for, whatever order *)
(* the sources come in: GraphDiameter gives the largest of the distances   *)
(* from the sampled actors to those they reach, AveragePathLength the sum  *)
(* and the number of them.  With every actor sampled that is all pairs,    *)
(* each counted from both sides.                                           *)
(***************************************************************************)
DiameterIsAttained ==
  LET pairs == {q \in Nodes \X Nodes : q[1] # q[2] /\ q[2] \in Reachable(q[1])}
      far == [p \in pairs |-> Distance(p[1], p[2])]
      from(S) == {p \in pairs : p[1] \in S}
      Samples == {S \in SUBSET Nodes : Cardinality(S) = SampleSize}
  IN  Cardinality(Nodes) >= 2 =>
        /\ Asked("diameter") => \E S \in Samples :
             /\ answer[1].longest \in {0} \cup {far[p] : p \in from(S)}
             /\ \A p \in from(S) : far[p] <= answer[1].longest
        /\ Asked("average") => \E S \in Samples :
             answer[1] = [total |-> SumOf(far, from(S)), count |-> Cardinality(from(S))]

(***************************************************************************)
(* AllPathsUpToDepth returns every path without repetition of at most the  *)
(* depth, and only those, though the visited marks are set and taken back  *)
(* as it goes and neighbours come in any order.                            *)
(***************************************************************************)
AllPathsAreFound ==
  Asked("paths") =>
    answer[1] =
      {p \in UNION {[1..n -> Actor] : n \in 2..Min({job.depth + 1, Cardinality(Actor)})} :
         /\ p[1] = job.from /\ p[Len(p)] = job.to /\ IsInjective(p)
         /\ \A i \in 1..(Len(p) - 1) : Linked(p[i], p[i + 1])}

(***************************************************************************)
(* Every search returns, on cyclic and on disconnected graphs.             *)
(***************************************************************************)
SearchReturns == <>(status # "running")
=============================================================================
