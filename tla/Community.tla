----------------------------- MODULE Community -----------------------------
(***************************************************************************)
(* analysis/community.go: Louvain (its local-moving phase is all there is) *)
(* and LabelPropagation.  Both visit the actors round by round and let     *)
(* each join a community of its neighbours, until a round changes nothing  *)
(* or the rounds run out; then they number the communities, sort them by   *)
(* size and build the result.                                              *)
(*                                                                         *)
(* Go maps are walked in random order, so actors are visited in any order  *)
(* and ties are broken any way; LabelPropagation fixes the order of visits *)
(* once.  A community is named by the actor that was alone in it at first. *)
(* Gains are compared after multiplying with the square of the total       *)
(* weight, which keeps them integers.                                      *)
(***************************************************************************)
EXTENDS Integers, Sequences, FiniteSets, SequencesExt, Functions

CONSTANTS
  Actor,       \* actor IDs
  Graphs,      \* interactions to explore: pair <<from, to>> -> summed weight
  Resolution,  \* Louvain's resolution
  MaxRounds    \* iterations allowed: 100 in Louvain

ASSUME ActorAssumption == IsFiniteSet(Actor)
ASSUME GraphsAssumption ==
  \A g \in Graphs : DOMAIN g \subseteq Actor \X Actor /\ g \in [DOMAIN g -> Nat]
ASSUME ResolutionAssumption == Resolution \in Nat
ASSUME MaxRoundsAssumption == MaxRounds \in Nat

VARIABLES
  interactions,  \* what the store returned
  algorithm,     \* "louvain" or "labels"
  order,         \* LabelPropagation's node list
  membership,    \* membership[a]: the community a is in
  visited,       \* actors visited in this round
  changed,       \* somebody moved in this round
  rounds,        \* rounds begun
  result         \* <<>>, or a sequence of one: what was returned

vars == <<interactions, algorithm, order, membership, visited, changed, rounds, result>>

Nodes == {e[1] : e \in DOMAIN interactions} \cup {e[2] : e \in DOMAIN interactions}
Orders(S) == {s \in [1..Cardinality(S) -> S] : ToSet(s) = S}

TypeOK ==
  /\ interactions \in Graphs
  /\ algorithm \in {"louvain", "labels"}
  /\ order \in IF algorithm = "labels" THEN Orders(Nodes) ELSE {<<>>}
  /\ membership \in [Nodes -> Nodes]
  /\ visited \subseteq Nodes
  /\ changed \in BOOLEAN
  /\ rounds \in 0..MaxRounds
  /\ Len(result) \in {0, 1}
-----------------------------------------------------------------------------
(***************************************************************************)
(* addEdge files a weight under both ends; an actor that writes to itself  *)
(* gets it twice.                                                          *)
(***************************************************************************)
Sent(a, b) == IF <<a, b>> \in DOMAIN interactions THEN interactions[<<a, b>>] ELSE 0
Weight(a, b) == Sent(a, b) + Sent(b, a)
Neighbours(a) ==
  {b \in Nodes : <<a, b>> \in DOMAIN interactions \/ <<b, a>> \in DOMAIN interactions}

SumOf(f, S) == FoldFunctionOnSet(LAMBDA x, y : x + y, 0, f, S)
Degree(a) == SumOf([b \in Nodes |-> Weight(a, b)], Nodes)
TotalWeight == SumOf(interactions, DOMAIN interactions)

WeightInto(a, c) ==
  SumOf([b \in Nodes |-> Weight(a, b)], {b \in Neighbours(a) : membership[b] = c})

Candidates(a) == {membership[b] : b \in Neighbours(a)}

\* The best of the options with a positive score, if there is one.
BestOf(options, score) ==
  {c \in options : score[c] > 0 /\ \A d \in options : score[d] <= score[c]}

\* modularityDelta: what a would gain by joining c.  What it would lose by
\* leaving its own community is not counted.
Gain(a, c) ==
  LET members == {b \in Nodes : membership[b] = c}
  IN  WeightInto(a, c) * TotalWeight
        - Resolution * SumOf([b \in Nodes |-> Degree(b)], members) * Degree(a)

BestMoves(a) ==
  LET others == Candidates(a) \ {membership[a]}
  IN  BestOf(others, [c \in others |-> Gain(a, c)])

MostVoted(a) ==
  BestOf(Candidates(a), [c \in Candidates(a) |-> WeightInto(a, c)])

\* Fault: an actor may join any community, not only one of its neighbours'.
ChoiceOfAny(a) == Nodes

Choice(a) ==
  LET best == IF algorithm = "louvain" THEN BestMoves(a) ELSE MostVoted(a)
  IN  IF best = {} THEN {membership[a]} ELSE best
-----------------------------------------------------------------------------
\* Everybody starts alone, as after a round in which something changed.
Init ==
  /\ interactions \in Graphs
  /\ algorithm \in {"louvain", "labels"}
  /\ order \in IF algorithm = "labels" THEN Orders(Nodes) ELSE {<<>>}
  /\ membership = [a \in Nodes |-> a]
  /\ visited = Nodes
  /\ changed = TRUE
  /\ rounds = 0
  /\ result = <<>>

RoundsLeft == rounds < MaxRounds

\* Fault: rounds are not counted.
SameRound == rounds

NextRound == rounds + 1

BeginRound ==
  /\ result = <<>>
  /\ visited = Nodes
  /\ changed
  /\ RoundsLeft
  /\ visited' = {}
  /\ changed' = FALSE
  /\ rounds' = NextRound
  /\ UNCHANGED <<interactions, algorithm, order, membership, result>>

\* Fault: only the last visit of a round decides whether it changed anything.
ChangedByLast(moved) == moved

ChangedSoFar(moved) == changed \/ moved

NextToVisit == IF algorithm = "labels" THEN {order[Cardinality(visited) + 1]}
                                       ELSE Nodes \ visited

Visit ==
  /\ result = <<>>
  /\ visited # Nodes
  /\ \E a \in NextToVisit : \E c \in Choice(a) :
       /\ membership' = [membership EXCEPT ![a] = c]
       /\ changed' = ChangedSoFar(c # membership[a])
       /\ visited' = visited \cup {a}
  /\ UNCHANGED <<interactions, algorithm, order, rounds, result>>

(***************************************************************************)
(* The result: communities get contiguous numbers in map order and their   *)
(* members are collected; then the communities are sorted by size, equal   *)
(* sizes in any order, and their IDs (position - 1) reassigned.  The       *)
(* membership that is returned keeps the numbers from before.              *)
(***************************************************************************)
MembersOf(c) == {a \in Nodes : membership[a] = c}
Classes == {MembersOf(c) : c \in Range(membership)}

\* Fault: communities of one size get one number.
NumberBySize(classes) ==
  {[s \in classes |-> Cardinality({d \in classes : Cardinality(d) > Cardinality(s)})]}

Numberings(classes) ==
  {f \in [classes -> 0..(Cardinality(classes) - 1)] : IsInjective(f)}

SortedBySize(classes) ==
  {s \in Orders(classes) :
     \A i, j \in DOMAIN s : i < j => Cardinality(s[i]) >= Cardinality(s[j])}

Build ==
  /\ result = <<>>
  /\ visited = Nodes
  /\ ~changed \/ ~RoundsLeft
  /\ \E number \in Numberings(Classes), sorted \in SortedBySize(Classes) :
       result' = <<[communities |-> sorted,
                    membership |-> [a \in Nodes |-> number[MembersOf(membership[a])]]]>>
  /\ UNCHANGED <<interactions, algorithm, order, membership, visited, changed, rounds>>
-----------------------------------------------------------------------------
Next == BeginRound \/ Visit \/ Build

Spec == Init /\ [][Next]_vars
-----------------------------------------------------------------------------
\* A set of actors nobody outside has anything to do with.
CutOff(C) == \A a \in C : Neighbours(a) \subseteq C

(***************************************************************************)
(* At no time do actors share a community who are not connected by any     *)
(* chain of interactions, though communities live on when the actor they   *)
(* began with has left, and joining looks at one neighbour's membership    *)
(* only.                                                                   *)
(***************************************************************************)
WithinComponents ==
  \A C \in SUBSET Nodes : CutOff(C) =>
    \A a \in C, b \in Nodes \ C : membership[a] # membership[b]

(***************************************************************************)
(* An algorithm that stopped because a round changed nothing left          *)
(* everybody content at once, whatever order the visits and ties came in:  *)
(* nobody gains by moving, nobody's label is outvoted.                     *)
(***************************************************************************)
StoppedMeansStable ==
  visited = Nodes /\ ~changed =>
    \A a \in Nodes :
      IF algorithm = "louvain" THEN BestMoves(a) = {}
      ELSE MostVoted(a) # {} => membership[a] \in MostVoted(a)

(***************************************************************************)
(* The result accounts for every actor once: the communities, largest      *)
(* first, are the classes of the returned membership, whose numbers are    *)
(* contiguous from 0.                                                      *)
(***************************************************************************)
ResultIsPartition ==
  /\ TypeOK
  /\ \A r \in ToSet(result) :
       /\ ToSet(r.communities) =
            {{b \in Nodes : r.membership[b] = r.membership[a]} : a \in Nodes}
       /\ Range(r.membership) = 0..(Len(r.communities) - 1)
       /\ \A i \in 1..(Len(r.communities) - 1) :
            Cardinality(r.communities[i]) >= Cardinality(r.communities[i + 1])

(***************************************************************************)
(* "Actor -> Community ID" (analysis/community.go:26): the number the      *)
(* membership gives an actor is the ID of the community that lists it.     *)
(***************************************************************************)
MembershipIsCommunityId ==
  \A r \in ToSet(result) : \A a \in Nodes : a \in r.communities[r.membership[a] + 1]
=============================================================================
