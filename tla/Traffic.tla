------------------------------- MODULE Traffic -------------------------------
(***************************************************************************)
(* What the reports of package analysis have in common: an Analyzer asks   *)
(* the store once for all interactions and goes through its private copy   *)
(* one by one.  The copy is a walk over a map, so they come in any order.  *)
(* An interaction is a position in the copy.                               *)
(***************************************************************************)
EXTENDS Naturals, FiniteSets, FiniteSetsExt, Functions

CONSTANTS
  Actor,       \* actor IDs
  EdgeWeight,  \* EdgeWeight[t]: the profile's weight of edge type t
  Jobs,        \* reports to explore
  Traffics     \* for each the copies to explore: position -> [from, to, edgeType, time]

ASSUME TrafficAssumption ==
  /\ IsFiniteSet(Actor)
  /\ EdgeWeight \in [DOMAIN EdgeWeight -> Nat]
  /\ \A j \in Jobs : \A t \in Traffics[j] :
       /\ IsFiniteSet(DOMAIN t)
       /\ \A i \in DOMAIN t : /\ {t[i].from, t[i].to} \subseteq Actor
                              /\ t[i].edgeType \in DOMAIN EdgeWeight

VARIABLES
  job,      \* the report asked for
  traffic,  \* the copy
  left      \* interactions still to be counted

trafficVars == <<job, traffic, left>>

TrafficTyped == traffic \in Traffics[job] /\ left \subseteq DOMAIN traffic

TrafficInit ==
  /\ job \in Jobs
  /\ traffic \in Traffics[job]
  /\ left = DOMAIN traffic

\* Weight of an interaction under the profile of the analyzer.
Weight(i) == EdgeWeight[traffic[i].edgeType]

\* The next interaction of the walk.
Take(i) ==
  /\ i \in left
  /\ left' = left \ {i}
  /\ UNCHANGED <<job, traffic>>

Participants == {traffic[i].from : i \in DOMAIN traffic} \cup {traffic[i].to : i \in DOMAIN traffic}

-----------------------------------------------------------------------------
(***************************************************************************)
(* Go maps as partial functions: reading a key that is not there gives the *)
(* zero value, writing it adds it.                                         *)
(***************************************************************************)
Lookup(f, k, zero) == IF k \in DOMAIN f THEN f[k] ELSE zero
With(f, k, v) == [x \in DOMAIN f \cup {k} |-> IF x = k THEN v ELSE f[x]]
NoEntries == [x \in {} |-> 0]

SumOf(f, S) == FoldFunctionOnSet(LAMBDA x, y : x + y, 0, f, S)
SumOver(S, op(_)) == SumOf([x \in S |-> op(x)], S)
=============================================================================
