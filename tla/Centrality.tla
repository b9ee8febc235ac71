----------------------------- MODULE Centrality -----------------------------
(***************************************************************************)
(* analysis/centrality.go: Degree, InDegree, OutDegree and PageRank.       *)
(*                                                                         *)
(* The code adds floating-point numbers; here they are exact.  A rank is a *)
(* natural number over the common denominator "scale": damping is Damp     *)
(* over DampBase, and one round multiplies the denominator by the number   *)
(* of actors, by DampBase and by the product of all out-weights, so that   *)
(* every share of the round is a whole number.                             *)
(***************************************************************************)
EXTENDS Traffic

CONSTANTS
  Damp, DampBase,  \* damping
  Iterations       \* rounds of PageRank

ASSUME CentralityAssumption ==
  /\ {Damp, DampBase, Iterations} \subseteq Nat
  /\ 0 < Damp /\ Damp < DampBase

VARIABLES
  outDegree,  \* actor -> summed weight sent
  inDegree,   \* actor -> summed weight received
  rank,       \* pr: actor -> rank times scale
  scale,      \* denominator of the ranks
  round,      \* rounds done
  results     \* <<>>, or a sequence of one: actor -> score and rank

centralityVars == <<outDegree, inDegree, rank, scale, round, results>>

DegreeJobs == {"degree", "indegree", "outdegree"}

CentralityInit ==
  /\ outDegree = NoEntries /\ inDegree = NoEntries
  /\ rank = IF job = "pagerank" THEN [a \in Participants |-> 1] ELSE NoEntries
  /\ scale = Cardinality(DOMAIN rank)
  /\ round = 0
  /\ results = <<>>
-----------------------------------------------------------------------------
AddEdge(i) ==
  /\ job \in DegreeJobs
  /\ Take(i)
  /\ LET w == Weight(i)  from == traffic[i].from  to == traffic[i].to IN
     /\ outDegree' = With(outDegree, from, Lookup(outDegree, from, 0) + w)
     /\ inDegree' = With(inDegree, to, Lookup(inDegree, to, 0) + w)
  /\ UNCHANGED <<rank, scale, round, results>>

\* Fault: the maps are merged, an entry of one hiding that of the other.
MergedDegree ==
  [a \in DOMAIN outDegree \cup DOMAIN inDegree |->
     IF a \in DOMAIN outDegree THEN outDegree[a] ELSE inDegree[a]]

TotalDegree ==
  [a \in DOMAIN outDegree \cup DOMAIN inDegree |->
     Lookup(outDegree, a, 0) + Lookup(inDegree, a, 0)]

Scores ==
  CASE job = "degree" -> TotalDegree
    [] job = "indegree" -> inDegree
    [] job = "outdegree" -> outDegree
    [] job = "pagerank" -> rank
-----------------------------------------------------------------------------
Edges(a) == {i \in DOMAIN traffic : traffic[i].from = a}
OutWeight(a) == SumOver(Edges(a), Weight)

\* Nothing goes out of an actor: it sent nothing, or nothing that weighs.
Dangling == {a \in Participants : OutWeight(a) = 0}

\* Fault: what is held by senders of weightless edges only is forgotten.
DanglingSumOfSilent == SumOf(rank, {a \in Participants : Edges(a) = {}})

DanglingSum == SumOf(rank, Dangling)

WeightProduct ==
  FoldFunctionOnSet(LAMBDA x, y : x * y, 1, [a \in Participants |-> OutWeight(a)],
                    Participants \ Dangling)

(***************************************************************************)
(* One round: everybody gets an equal part of what is not damped and of    *)
(* what the dangling actors hold; an edge carries its share of the rank of *)
(* its sender.  n, WeightProduct and DampBase are what scale grows by.     *)
(***************************************************************************)
NewRank(a) ==
  LET n == Cardinality(Participants)
      even == (DampBase - Damp) * scale + Damp * DanglingSum
      carried(i) == Damp * rank[traffic[i].from] * Weight(i)
                      * (WeightProduct \div OutWeight(traffic[i].from)) * n
  IN  even * WeightProduct
        + SumOver({i \in DOMAIN traffic :
                     traffic[i].to = a /\ traffic[i].from \notin Dangling}, carried)

Iterate ==
  /\ job = "pagerank"
  /\ round < Iterations
  /\ Participants # {}
  /\ results = <<>>
  /\ rank' = [a \in Participants |-> NewRank(a)]
  /\ scale' = scale * Cardinality(Participants) * DampBase * WeightProduct
  /\ round' = round + 1
  /\ UNCHANGED <<trafficVars, outDegree, inDegree, results>>
-----------------------------------------------------------------------------
(***************************************************************************)
(* toResults: sorted by score, equal scores in any order, ranks from 1.    *)
(* PageRank of no traffic returns nothing.                                 *)
(***************************************************************************)
Ranking(scores) ==
  {r \in [DOMAIN scores -> 1..Cardinality(DOMAIN scores)] :
     /\ IsInjective(r)
     /\ \A a, b \in DOMAIN scores : scores[a] > scores[b] => r[a] < r[b]}

ToResults ==
  /\ \/ job \in DegreeJobs /\ left = {}
     \/ job = "pagerank" /\ (round = Iterations \/ Participants = {})
  /\ results = <<>>
  /\ \E r \in Ranking(Scores) :
       results' = <<[a \in DOMAIN Scores |-> [score |-> Scores[a], rank |-> r[a]]]>>
  /\ UNCHANGED <<trafficVars, outDegree, inDegree, rank, scale, round>>

CentralityNext == (\E i \in left : AddEdge(i)) \/ Iterate \/ ToResults
-----------------------------------------------------------------------------
(***************************************************************************)
(* Ranks stay a distribution: whatever is passed on arrives, though        *)
(* actors may send nothing, send only what weighs nothing, write to        *)
(* themselves or be written to by nobody (analysis/centrality.go:187-203). *)
(***************************************************************************)
RankMassIsKept == job = "pagerank" => SumOf(rank, DOMAIN rank) = scale

(***************************************************************************)
(* Every weight is sent once and received once: degrees add up to twice    *)
(* the weight of the traffic, in- and out-degrees to once, and everyone    *)
(* who took part is listed.                                                *)
(***************************************************************************)
DegreesAddUp ==
  job \in DegreeJobs /\ results # <<>> =>
    LET weight == SumOver(DOMAIN traffic, Weight)
        listed == DOMAIN results[1]
    IN  /\ SumOver(listed, LAMBDA a : results[1][a].score)
             = IF job = "degree" THEN 2 * weight ELSE weight
        /\ job = "degree" => listed = Participants
=============================================================================
