-------------------------- MODULE Community_proofs --------------------------
(***************************************************************************)
(* Machine-checked facts about Community, Bridges and GraphExport, for     *)
(* every set of interactions, every weight, every order of visits, every   *)
(* way to break a tie and everything that arrives in the meantime.         *)
(***************************************************************************)
EXTENDS CommunityReports, DataLemmas

LEMMA NeighboursAreMutual ==
  ASSUME NEW a \in Nodes, NEW b \in Neighbours(a)
  PROVE  b \in Nodes /\ a \in Neighbours(b)
  BY DEF Neighbours

(***************************************************************************)
(* A visited actor stays where it is or joins the community of a           *)
(* neighbour, whatever the gains and the votes are.                        *)
(***************************************************************************)
LEMMA ChoiceIsNearby ==
  ASSUME NEW a \in Nodes, NEW c \in Choice(a)
  PROVE  c = membership[a] \/ \E b \in Neighbours(a) : c = membership[b]
<1>1. BestMoves(a) \subseteq Candidates(a)
  BY DEF BestMoves, BestOf
<1>2. MostVoted(a) \subseteq Candidates(a)
  BY DEF MostVoted, BestOf
<1>. QED  BY <1>1, <1>2 DEF Choice, Candidates

(***************************************************************************)
(* The inductive invariant: an actor and the actor its community is named  *)
(* after are on the same side of every cut.                                *)
(***************************************************************************)
Named == membership \in [Nodes -> Nodes]
SameSide == \A C \in SUBSET Nodes : CutOff(C) =>
              \A a \in Nodes : a \in C <=> membership[a] \in C

Inv == Named /\ SameSide

LEMMA InvInit == Init => Inv
  BY DEF Init, Inv, Named, SameSide

LEMMA VisitInv ==
  ASSUME Inv, Visit
  PROVE  Inv'
<1>1. interactions' = interactions /\ Nodes' = Nodes
  BY DEF Visit, Nodes
<1>2. \A C : CutOff(C)' = CutOff(C)
  BY <1>1 DEF CutOff, Neighbours
<1>. PICK a \in NextToVisit : \E c \in Choice(a) : membership' = [membership EXCEPT ![a] = c]
  BY DEF Visit
<1>3. PICK c \in Choice(a) : membership' = [membership EXCEPT ![a] = c]
  OBVIOUS
<1>4. CASE a \notin Nodes
  <2>1. membership' = membership
    BY <1>3, <1>4 DEF Inv, Named
  <2>. QED  BY <1>1, <1>2, <2>1 DEF Inv, Named, SameSide
<1>5. CASE a \in Nodes
  <2>1. PICK b \in Nodes : c = membership[b] /\ (b = a \/ (b \in Neighbours(a) /\ a \in Neighbours(b)))
    BY <1>5, ChoiceIsNearby, NeighboursAreMutual
  <2>2. c \in Nodes
    BY <2>1 DEF Inv, Named
  <2>3. Named'
    BY <1>1, <1>3, <1>5, <2>2 DEF Inv, Named
  <2>4. ASSUME NEW C \in SUBSET Nodes, CutOff(C), NEW d \in Nodes
        PROVE  d \in C <=> membership'[d] \in C
    <3>1. membership[d] \in C <=> d \in C
      BY <2>4 DEF Inv, SameSide
    <3>2. membership[b] \in C <=> b \in C
      BY <2>1, <2>4 DEF Inv, SameSide
    <3>3. b \in C <=> a \in C
      BY <2>1, <2>4 DEF CutOff
    <3>4. membership'[d] = IF d = a THEN c ELSE membership[d]
      BY <1>3, <1>5 DEF Inv, Named
    <3>. QED  BY <2>1, <3>1, <3>2, <3>3, <3>4
  <2>5. SameSide'
    BY <1>1, <1>2, <2>4 DEF SameSide
  <2>. QED  BY <2>3, <2>5 DEF Inv
<1>. QED  BY <1>4, <1>5

LEMMA InvNext == Inv /\ [Next]_vars => Inv'
<1>. SUFFICES ASSUME Inv, [Next]_vars PROVE Inv'
  OBVIOUS
<1>1. CASE UNCHANGED <<interactions, membership>>
  BY <1>1 DEF Inv, Named, SameSide, CutOff, Neighbours, Nodes
<1>2. CASE BeginRound \/ Build \/ UNCHANGED vars
  BY <1>1, <1>2 DEF BeginRound, Build, vars
<1>. QED  BY <1>2, VisitInv DEF Next

(***************************************************************************)
(* No community ever reaches across a cut: both algorithms only group      *)
(* actors that a chain of interactions connects.                           *)
(***************************************************************************)
THEOREM CommunitiesAreConnected == Spec => []WithinComponents
<1>1. Inv => WithinComponents
  BY DEF Inv, Named, SameSide, WithinComponents
<1>. QED  BY <1>1, InvInit, InvNext, PTL DEF Spec
-----------------------------------------------------------------------------
(***************************************************************************)
(* While a round has changed nothing, everybody visited in it is content:  *)
(* the membership they saw is still the present one.                       *)
(***************************************************************************)
Content(a) == IF algorithm = "louvain" THEN BestMoves(a) = {}
              ELSE MostVoted(a) # {} => membership[a] \in MostVoted(a)

SoFarContent == ~changed => \A a \in visited \cap Nodes : Content(a)

Same == UNCHANGED <<interactions, algorithm, membership>>

LEMMA ContentSame ==
  ASSUME Same
  PROVE  Nodes' = Nodes /\ \A a \in Nodes : Content(a)' = Content(a)
<1>1. Nodes' = Nodes /\ TotalWeight' = TotalWeight
  BY DEF Same, Nodes, TotalWeight
<1>2. \A a : Neighbours(a)' = Neighbours(a)
  BY <1>1 DEF Same, Neighbours
<1>3. \A a, b : Weight(a, b)' = Weight(a, b)
  BY DEF Same, Weight, Sent
<1>4. \A a : Degree(a)' = Degree(a)
  BY <1>1, <1>3 DEF Degree
<1>5. \A a, c : WeightInto(a, c)' = WeightInto(a, c)
  BY <1>1, <1>2, <1>3 DEF WeightInto, Same
<1>6. \A a : Candidates(a)' = Candidates(a)
  BY <1>2 DEF Candidates, Same
<1>7. \A a, c : Gain(a, c)' = Gain(a, c)
  BY <1>1, <1>4, <1>5 DEF Gain, Same
<1>8. \A a : BestMoves(a)' = BestMoves(a)
  BY <1>6, <1>7 DEF BestMoves, BestOf, Same
<1>9. \A a : MostVoted(a)' = MostVoted(a)
  BY <1>5, <1>6 DEF MostVoted, BestOf
<1>. QED  BY <1>1, <1>8, <1>9 DEF Content, Same

LEMMA StayedMeansContent ==
  ASSUME NEW a \in Nodes, membership[a] \in Choice(a)
  PROVE  Content(a)
<1>1. CASE algorithm = "louvain"
  <2>1. membership[a] \notin BestMoves(a)
    BY DEF BestMoves, BestOf
  <2>. QED  BY <1>1, <2>1 DEF Choice, Content
<1>2. CASE algorithm # "louvain"
  BY <1>2 DEF Choice, Content
<1>. QED  BY <1>1, <1>2

LEMMA VisitContent ==
  ASSUME Named, SoFarContent, Visit, ~changed'
  PROVE  \A a \in visited' \cap Nodes' : Content(a)'
<1>. PICK a \in NextToVisit :
       \E c \in Choice(a) :
         /\ membership' = [membership EXCEPT ![a] = c]
         /\ changed' = ChangedSoFar(c # membership[a])
         /\ visited' = visited \cup {a}
  BY DEF Visit
<1>. PICK c \in Choice(a) :
         /\ membership' = [membership EXCEPT ![a] = c]
         /\ changed' = ChangedSoFar(c # membership[a])
         /\ visited' = visited \cup {a}
  OBVIOUS
<1>1. ~changed /\ c = membership[a]
  BY DEF ChangedSoFar
<1>2. membership' = membership
  BY <1>1 DEF Named
<1>3. Same
  BY <1>2 DEF Same, Visit
<1>4. \A d \in visited \cap Nodes : Content(d)
  BY <1>1 DEF SoFarContent
<1>5. a \in Nodes => Content(a)
  BY <1>1, StayedMeansContent
<1>. QED  BY <1>3, <1>4, <1>5, ContentSame

LEMMA SoFarNext == Named /\ SoFarContent /\ [Next]_vars => SoFarContent'
<1>. SUFFICES ASSUME Named, SoFarContent, [Next]_vars PROVE SoFarContent'
  OBVIOUS
<1>1. CASE Visit
  BY <1>1, VisitContent DEF SoFarContent
<1>2. CASE BeginRound
  BY <1>2 DEF BeginRound, SoFarContent
<1>3. CASE Build \/ UNCHANGED vars
  <2>1. Same /\ UNCHANGED <<visited, changed>>
    BY <1>3 DEF Build, Same, vars
  <2>. QED  BY <2>1, ContentSame DEF SoFarContent
<1>. QED  BY <1>1, <1>2, <1>3 DEF Next

(***************************************************************************)
(* An algorithm that stops by itself stops at a state in which nobody      *)
(* would move, for every order of visits and every way to break ties.      *)
(***************************************************************************)
THEOREM StopsStable == Spec => []StoppedMeansStable
<1>1. Init => SoFarContent
  BY DEF Init, SoFarContent
<1>2. Inv => Named
  BY DEF Inv
<1>3. SoFarContent => StoppedMeansStable
  BY DEF SoFarContent, StoppedMeansStable, Content
<1>. QED  BY <1>1, <1>2, <1>3, InvInit, InvNext, SoFarNext, PTL DEF Spec
-----------------------------------------------------------------------------
(***************************************************************************)
(* Type correctness; the membership's part is in Inv already.              *)
(***************************************************************************)
LEMMA NodesFinite ==
  ASSUME interactions \in Graphs
  PROVE  Nodes \subseteq Actor /\ Cardinality(Nodes) \in Nat
<1>1. Nodes \subseteq Actor
  BY GraphsAssumption DEF Nodes
<1>. QED  BY <1>1, ActorAssumption, FS_Subset, FS_CardinalityType

LEMMA OrderInRange ==
  ASSUME TypeOK, visited # Nodes, NEW a \in NextToVisit
  PROVE  a \in Nodes
<1>1. CASE algorithm = "labels"
  <2>1. IsFiniteSet(Nodes) /\ Cardinality(Nodes) \in Nat
    BY NodesFinite, ActorAssumption, FS_Subset DEF TypeOK
  <2>2. Cardinality(visited) \in Nat /\ Cardinality(visited) < Cardinality(Nodes)
    BY <2>1, FS_Subset, FS_CardinalityType DEF TypeOK
  <2>3. Cardinality(visited) + 1 \in 1..Cardinality(Nodes)
    BY <2>1, <2>2
  <2>4. order \in [1..Cardinality(Nodes) -> Nodes]
    BY <1>1 DEF TypeOK, Orders
  <2>. QED  BY <1>1, <2>3, <2>4 DEF NextToVisit
<1>2. CASE algorithm # "labels"
  BY <1>2 DEF NextToVisit
<1>. QED  BY <1>1, <1>2

LEMMA TypedInit == Init => TypeOK
  BY MaxRoundsAssumption DEF Init, TypeOK

LEMMA TypedNext == TypeOK /\ Inv' /\ [Next]_vars => TypeOK'
<1>. SUFFICES ASSUME TypeOK, Inv', [Next]_vars PROVE TypeOK'
  OBVIOUS
<1>1. CASE Visit
  <2>1. Nodes' = Nodes /\ Orders(Nodes)' = Orders(Nodes)
    BY <1>1 DEF Visit, Nodes, Orders
  <2>2. membership' \in [Nodes -> Nodes]
    BY <2>1 DEF Inv, Named
  <2>. PICK a \in NextToVisit : \E c \in Choice(a) :
             /\ changed' = ChangedSoFar(c # membership[a])
             /\ visited' = visited \cup {a}
    BY <1>1 DEF Visit
  <2>3. changed' \in BOOLEAN
    BY DEF ChangedSoFar, TypeOK
  <2>4. a \in Nodes
    BY <1>1, OrderInRange DEF Visit
  <2>. QED  BY <1>1, <2>1, <2>2, <2>3, <2>4 DEF Visit, TypeOK
<1>2. CASE BeginRound
  <2>1. rounds' \in 0..MaxRounds
    BY <1>2, MaxRoundsAssumption DEF BeginRound, NextRound, RoundsLeft, TypeOK
  <2>2. Nodes' = Nodes /\ Orders(Nodes)' = Orders(Nodes)
    BY <1>2 DEF BeginRound, Nodes, Orders
  <2>. QED  BY <1>2, <2>1, <2>2 DEF BeginRound, TypeOK
<1>3. CASE Build
  BY <1>3 DEF Build, TypeOK, Nodes
<1>4. CASE UNCHANGED vars
  BY <1>4 DEF vars, TypeOK, Nodes
<1>. QED  BY <1>1, <1>2, <1>3, <1>4 DEF Next

(***************************************************************************)
(* Every variable keeps its type: the rounds stay below their bound and    *)
(* every community is named after an actor of the graph.                   *)
(***************************************************************************)
THEOREM TypeCorrect == Spec => []TypeOK
  BY TypedInit, TypedNext, InvInit, InvNext, PTL DEF Spec
-----------------------------------------------------------------------------
(***************************************************************************)
(* What Build returned is still there: a numbering of the classes of the   *)
(* present membership and their list, sorted by size.                      *)
(***************************************************************************)
Numbered(r) ==
  \E number \in Numberings(Classes), sorted \in SortedBySize(Classes) :
    r = <<[communities |-> sorted,
           membership |-> [a \in Nodes |-> number[MembersOf(membership[a])]]]>>

Answer == result # <<>> => Numbered(result)

LEMMA AnswerInit == Init => Answer
  BY DEF Init, Answer

LEMMA AnswerNext == Answer /\ [Next]_vars => Answer'
<1>. SUFFICES ASSUME Answer, [Next]_vars PROVE Answer'
  OBVIOUS
<1>1. CASE Build
  <2>1. Nodes' = Nodes /\ Classes' = Classes /\ \A c : MembersOf(c)' = MembersOf(c)
    BY <1>1 DEF Build, Nodes, Classes, MembersOf
  <2>2. /\ Numberings(Classes)' = Numberings(Classes)
        /\ SortedBySize(Classes)' = SortedBySize(Classes)
    BY <2>1 DEF Numberings, SortedBySize, Orders
  <2>3. Numbered(result')
    BY <1>1 DEF Build, Numbered
  <2>. QED  BY <1>1, <2>1, <2>2, <2>3 DEF Build, Answer, Numbered
<1>2. CASE BeginRound \/ Visit
  BY <1>2 DEF BeginRound, Visit, Answer
<1>3. CASE UNCHANGED vars
  <2>1. Nodes' = Nodes /\ Classes' = Classes /\ \A c : MembersOf(c)' = MembersOf(c)
    BY <1>3 DEF vars, Nodes, Classes, MembersOf
  <2>2. /\ Numberings(Classes)' = Numberings(Classes)
        /\ SortedBySize(Classes)' = SortedBySize(Classes)
    BY <2>1 DEF Numberings, SortedBySize, Orders
  <2>. QED  BY <1>3, <2>1, <2>2 DEF vars, Answer, Numbered
<1>. QED  BY <1>1, <1>2, <1>3 DEF Next

(***************************************************************************)
(* Every actor is in the class of its own membership and in no other, and  *)
(* every class is that of an actor.                                        *)
(***************************************************************************)
ClassOf(a) == MembersOf(membership[a])

LEMMA ClassesCover ==
  ASSUME Named
  PROVE  /\ Classes = {ClassOf(a) : a \in Nodes}
         /\ \A a \in Nodes : a \in ClassOf(a)
         /\ \A C \in Classes : \A a \in C : a \in Nodes /\ C = ClassOf(a)
         /\ Classes \subseteq SUBSET Nodes
  BY DEF Named, Classes, ClassOf, MembersOf, Range

LEMMA ClassesFinite ==
  ASSUME Named, interactions \in Graphs
  PROVE  /\ IsFiniteSet(Nodes) /\ IsFiniteSet(Classes) /\ Cardinality(Classes) \in Nat
         /\ Cardinality(Classes) = 0 => Nodes = {}
<1>1. IsFiniteSet(Nodes)
  BY NodesFinite, ActorAssumption, FS_Subset
<1>. DEFINE class == [a \in Nodes |-> ClassOf(a)]
<1>2. class \in Surjection(Nodes, Classes)
  BY ClassesCover DEF Surjection
<1>3. IsFiniteSet(Classes)
  BY <1>1, <1>2, FS_Surjection
<1>4. Cardinality(Classes) = 0 => Classes = {}
  BY <1>3, FS_EmptySet
<1>. QED  BY <1>1, <1>3, <1>4, FS_CardinalityType, ClassesCover

(***************************************************************************)
(* A numbering from 0 without gaps uses every number, a list as long as    *)
(* the set it lists names nothing twice: both by counting.                 *)
(***************************************************************************)
LEMMA NumberingIsOnto ==
  ASSUME NEW S, IsFiniteSet(S), NEW f \in Numberings(S)
  PROVE  Range(f) = 0..(Cardinality(S) - 1)
<1>. DEFINE T == 0..(Cardinality(S) - 1)
<1>1. Cardinality(S) \in Nat
  BY FS_CardinalityType
<1>. DEFINE n == Cardinality(S)
<1>2. IsFiniteSet(T) /\ Cardinality(T) = Cardinality(S)
  <2>. HIDE DEF n
  <2>1. n \in Int /\ n - 1 \in Int /\ 0 \in Int
    BY <1>1 DEF n
  <2>2. IsFiniteSet(0..(n - 1))
    BY <2>1, FS_Interval
  <2>3. Cardinality(0..(n - 1)) = IF 0 > n - 1 THEN 0 ELSE (n - 1) - 0 + 1
    BY <2>1, FS_Interval
  <2>4. n >= 0
    BY <1>1 DEF n
  <2>5. Cardinality(0..(n - 1)) = n
    BY <2>1, <2>3, <2>4
  <2>. QED  BY <2>2, <2>5 DEF n
<1>3. f \in Injection(S, T)
  BY DEF Numberings, Injection
<1>4. f \in Surjection(S, T)
  BY <1>2, <1>3, FS_Injection
<1>. QED  BY <1>4 DEF Surjection, Range

LEMMA OrderNamesOnce ==
  ASSUME NEW S, IsFiniteSet(S), NEW s \in Orders(S)
  PROVE  /\ s \in [1..Cardinality(S) -> S] /\ Len(s) = Cardinality(S) /\ s \in Seq(S)
         /\ \A x \in S : \E i \in 1..Cardinality(S) : s[i] = x
         /\ \A i, j \in 1..Cardinality(S) : s[i] = s[j] => i = j
<1>1. Cardinality(S) \in Nat
  BY FS_CardinalityType
<1>2. s \in [1..Cardinality(S) -> S] /\ ToSet(s) = S
  BY DEF Orders
<1>3. s \in Seq(S) /\ Len(s) = Cardinality(S)
  BY <1>1, <1>2
<1>4. \A x \in S : \E i \in 1..Cardinality(S) : s[i] = x
  BY <1>2, <1>3, ElementIndex
<1>. DEFINE D == 1..Cardinality(S)
<1>5. s \in Surjection(D, S)
  BY <1>2, <1>4 DEF Surjection
<1>6. IsFiniteSet(D) /\ Cardinality(D) = Cardinality(S)
  BY <1>1, FS_Interval
<1>7. s \in Injection(D, S)
  BY <1>5, <1>6, FS_SurjSameCardinalityImpliesInj
<1>8. DOMAIN s = D
  BY <1>2
<1>9. \A i, j \in D : s[i] = s[j] => i = j
  BY <1>7, <1>8 DEF Injection, IsInjective
<1>. QED  BY <1>2, <1>3, <1>4, <1>9

(***************************************************************************)
(* A result, then: its list of communities partitions the actors, and its  *)
(* membership numbers them without gaps, alike exactly within a community. *)
(***************************************************************************)
Communities == result[1].communities
Numbers == result[1].membership

LEMMA ResultFacts ==
  ASSUME Named, interactions \in Graphs, Answer, result # <<>>
  PROVE  /\ result = <<[communities |-> Communities, membership |-> Numbers]>>
         /\ IsFiniteSet(Nodes)
         /\ Len(Communities) \in Nat
         /\ Communities \in Seq(Classes)
         /\ Numbers \in [Nodes -> 0..(Len(Communities) - 1)]
         /\ Range(Numbers) = 0..(Len(Communities) - 1)
         /\ \A a, b \in Nodes : Numbers[a] = Numbers[b] <=> ClassOf(a) = ClassOf(b)
         /\ ToSet(Communities) = Classes
         /\ \A C \in Classes : \E i \in 1..Len(Communities) : Communities[i] = C
         /\ \A i, j \in 1..Len(Communities) : Communities[i] = Communities[j] => i = j
         /\ \A i, j \in 1..Len(Communities) :
              i < j => Cardinality(Communities[i]) >= Cardinality(Communities[j])
         /\ Nodes # {} => Len(Communities) > 0
<1>. PICK number \in Numberings(Classes), sorted \in SortedBySize(Classes) :
       result = <<[communities |-> sorted,
                   membership |-> [a \in Nodes |-> number[ClassOf(a)]]]>>
  BY DEF Answer, Numbered, ClassOf
<1>1. Communities = sorted /\ Numbers = [a \in Nodes |-> number[ClassOf(a)]]
  BY DEF Communities, Numbers
<1>2. /\ IsFiniteSet(Nodes) /\ IsFiniteSet(Classes) /\ Cardinality(Classes) \in Nat
      /\ Cardinality(Classes) = 0 => Nodes = {}
  BY ClassesFinite
<1>3. sorted \in Orders(Classes)
  BY DEF SortedBySize
<1>4. /\ sorted \in [1..Cardinality(Classes) -> Classes]
      /\ Len(sorted) = Cardinality(Classes) /\ sorted \in Seq(Classes)
      /\ \A C \in Classes : \E i \in 1..Cardinality(Classes) : sorted[i] = C
      /\ \A i, j \in 1..Cardinality(Classes) : sorted[i] = sorted[j] => i = j
  BY <1>2, <1>3, OrderNamesOnce
<1>5. \A i, j \in 1..Cardinality(Classes) :
        i < j => Cardinality(sorted[i]) >= Cardinality(sorted[j])
  BY <1>4 DEF SortedBySize
<1>6. /\ number \in [Classes -> 0..(Cardinality(Classes) - 1)]
      /\ \A C, D \in Classes : number[C] = number[D] => C = D
  BY DEF Numberings, IsInjective
<1>7. Range(number) = 0..(Cardinality(Classes) - 1)
  BY <1>2, NumberingIsOnto
<1>8. \A a \in Nodes : ClassOf(a) \in Classes
  BY ClassesCover
<1>9. /\ Numbers \in [Nodes -> 0..(Cardinality(Classes) - 1)]
      /\ \A a, b \in Nodes : Numbers[a] = Numbers[b] <=> ClassOf(a) = ClassOf(b)
  BY <1>1, <1>6, <1>8
<1>10. Range(Numbers) = Range(number)
  <2>1. DOMAIN Numbers = Nodes /\ DOMAIN number = Classes
    BY <1>1, <1>6
  <2>2. \A a \in Nodes : Numbers[a] = number[ClassOf(a)]
    BY <1>1
  <2>3. \A C \in Classes : \E a \in Nodes : C = ClassOf(a)
    BY ClassesCover
  <2>. QED  BY <1>8, <2>1, <2>2, <2>3 DEF Range
<1>11. ToSet(sorted) = Classes
  BY <1>3 DEF Orders
<1>. QED  BY <1>1, <1>2, <1>4, <1>5, <1>7, <1>9, <1>10, <1>11

LEMMA AnswersPartition ==
  TypeOK /\ Answer => ResultIsPartition
<1>. SUFFICES ASSUME TypeOK, Answer, NEW r \in ToSet(result)
              PROVE  /\ ToSet(r.communities) =
                          {{b \in Nodes : r.membership[b] = r.membership[a]} : a \in Nodes}
                     /\ Range(r.membership) = 0..(Len(r.communities) - 1)
                     /\ \A i \in 1..(Len(r.communities) - 1) :
                          Cardinality(r.communities[i]) >= Cardinality(r.communities[i + 1])
  BY DEF ResultIsPartition
<1>1. Named /\ interactions \in Graphs
  BY DEF TypeOK, Named
<1>2. result # <<>>
  BY ElementsOfNone
<1>. DEFINE cs == Communities
            m == Numbers
<1>3. /\ result = <<[communities |-> cs, membership |-> m]>>
      /\ Len(cs) \in Nat
      /\ m \in [Nodes -> 0..(Len(cs) - 1)]
      /\ Range(m) = 0..(Len(cs) - 1)
      /\ \A a, b \in Nodes : m[a] = m[b] <=> ClassOf(a) = ClassOf(b)
      /\ ToSet(cs) = Classes
      /\ \A i, j \in 1..Len(cs) : i < j => Cardinality(cs[i]) >= Cardinality(cs[j])
  BY <1>1, <1>2, ResultFacts
<1>. HIDE DEF cs, m
<1>4. r = [communities |-> cs, membership |-> m]
  BY <1>3, ElementsOfOne
<1>5. ASSUME NEW a \in Nodes
      PROVE  ClassOf(a) = {b \in Nodes : m[b] = m[a]}
  <2>1. ClassOf(a) \in Classes /\ ClassOf(a) \subseteq Nodes
    BY <1>1, ClassesCover
  <2>2. \A b \in ClassOf(a) : ClassOf(b) = ClassOf(a)
    BY <1>1, <2>1, ClassesCover
  <2>3. \A b \in Nodes : ClassOf(b) = ClassOf(a) => b \in ClassOf(a)
    BY <1>1, ClassesCover
  <2>4. \A b \in Nodes : m[b] = m[a] <=> b \in ClassOf(a)
    BY <1>3, <2>2, <2>3
  <2>. QED  BY <2>1, <2>4
<1>6. ToSet(cs) = {{b \in Nodes : m[b] = m[a]} : a \in Nodes}
  <2>1. Classes = {ClassOf(a) : a \in Nodes}
    BY <1>1, ClassesCover
  <2>2. {ClassOf(a) : a \in Nodes} = {{b \in Nodes : m[b] = m[a]} : a \in Nodes}
    BY <1>5
  <2>. QED  BY <1>3, <2>1, <2>2
<1>7. \A i \in 1..(Len(cs) - 1) : Cardinality(cs[i]) >= Cardinality(cs[i + 1])
  BY <1>3
<1>. QED  BY <1>3, <1>4, <1>6, <1>7

(***************************************************************************)
(* Whatever the rounds were like, the result lists every actor once,       *)
(* largest community first, and numbers the communities without a gap.     *)
(***************************************************************************)
THEOREM ResultsArePartitions == Spec => []ResultIsPartition
  BY AnswersPartition, AnswerInit, AnswerNext, TypedInit, TypedNext, InvInit, InvNext, PTL
     DEF Spec
-----------------------------------------------------------------------------
(***************************************************************************)
(* Up to six colours are apart: the sixth of the circle tells the number.  *)
(***************************************************************************)
LEMMA HueTells ==
  ASSUME NEW n \in 1..6, NEW i \in 0..(n - 1), NEW j \in 0..(n - 1)
  PROVE  Hue(i % n, n) = Hue(j % n, n) <=> i = j
<1>1. i % n = i /\ j % n = j
  OBVIOUS
<1>2. (6 * i) \div n = (6 * j) \div n => i = j
  <2>1. CASE n = 1
    BY <2>1
  <2>2. CASE n = 2
    BY <2>2
  <2>3. CASE n = 3
    BY <2>3
  <2>4. CASE n = 4
    BY <2>4
  <2>5. CASE n = 5
    BY <2>5
  <2>6. CASE n = 6
    BY <2>6
  <2>. QED  BY <2>1, <2>2, <2>3, <2>4, <2>5, <2>6
<1>. QED  BY <1>1, <1>2 DEF Hue

Answered == Named /\ interactions \in Graphs /\ Answer

LEMMA GephiColours ==
  ASSUME Answered, result # <<>>, Len(Communities) <= 6, NEW nodes,
         nodes = [a \in Nodes |->
                    [community |-> CommunityOf(a),
                     colour |-> Hue(CommunityOf(a) % Colours, Colours)]]
  PROVE  \A a, b \in Nodes : nodes[a].colour = nodes[b].colour <=> Numbers[a] = Numbers[b]
<1>. DEFINE n == Len(Communities)
<1>1. n \in Nat /\ Numbers \in [Nodes -> 0..(n - 1)] /\ (Nodes # {} => n > 0)
  BY ResultFacts DEF Answered
<1>2. ASSUME NEW a \in Nodes
      PROVE  Numbers[a] \in 0..(n - 1) /\ nodes[a].colour = Hue(Numbers[a] % n, n)
  <2>1. n > 0
    BY <1>1
  <2>2. CommunityOf(a) = Numbers[a]
    BY <1>1 DEF CommunityOf, Numbers
  <2>3. Colours = n
    BY <1>1, <2>1 DEF Colours, Communities
  <2>. QED  BY <1>1, <2>2, <2>3
<1>. HIDE DEF n
<1>3. ASSUME NEW a \in Nodes, NEW b \in Nodes
      PROVE  nodes[a].colour = nodes[b].colour <=> Numbers[a] = Numbers[b]
  <2>1. n \in 1..6
    <3>1. n <= 6
      BY DEF n
    <3>. QED  BY <1>1, <3>1
  <2>2. Hue(Numbers[a] % n, n) = Hue(Numbers[b] % n, n) <=> Numbers[a] = Numbers[b]
    BY <1>2, <2>1, HueTells
  <2>. QED  BY <1>2, <2>2
<1>. QED  BY <1>3

(***************************************************************************)
(* After an import: every actor has one community.  The number of a group  *)
(* of actors need not be the ID of the group's node, but both number the   *)
(* same groups without a gap, which gives the swap of nodes.               *)
(***************************************************************************)
LEMMA IdsAreNumbers ==
  ASSUME Answered, result # <<>>
  PROVE  \A a \in Nodes : \E c \in CommunityNodes : c.id = Numbers[a]
<1>. TAKE a \in Nodes
<1>. DEFINE n == Len(Communities)
            k == Numbers[a]
            c == [id |-> CommunityId(k + 1), size |-> Cardinality(Communities[k + 1])]
<1>1. n \in Nat /\ Numbers \in [Nodes -> 0..(n - 1)] /\ DOMAIN Communities = 1..n
  BY ResultFacts DEF Answered
<1>2. k \in 0..(n - 1)
  BY <1>1
<1>. HIDE DEF k, n
<1>3. k + 1 \in DOMAIN Communities /\ CommunityId(k + 1) = k
  BY <1>1, <1>2 DEF CommunityId
<1>4. c \in CommunityNodes
  BY <1>3 DEF CommunityNodes, Communities
<1>. QED  BY <1>3, <1>4 DEF k

Imported ==
  [communities |-> CommunityNodes,
   members |-> {<<a, result[1].membership[a]>> :
                  a \in {b \in Nodes : \E c \in CommunityNodes :
                           c.id = result[1].membership[b]}}]

LEMMA ImportedMembers ==
  ASSUME Answered, result # <<>>
  PROVE  /\ Imported.members = {<<a, Numbers[a]>> : a \in Nodes}
         /\ \A c : MembersIn(Imported, c) = {a \in Nodes : Numbers[a] = c.id}
<1>1. Imported.members =
        {<<a, Numbers[a]>> : a \in {b \in Nodes : \E c \in CommunityNodes : c.id = Numbers[b]}}
  BY DEF Imported, Numbers
<1>2. {b \in Nodes : \E c \in CommunityNodes : c.id = Numbers[b]} = Nodes
  BY IdsAreNumbers
<1>3. Imported.members = {<<a, Numbers[a]>> : a \in Nodes}
  BY <1>1, <1>2
<1>4. ASSUME NEW c
      PROVE  MembersIn(Imported, c) = {a \in Nodes : Numbers[a] = c.id}
  <2>. DEFINE here == {q \in Imported.members : q[2] = c.id}
  <2>1. \A a \in Nodes : Numbers[a] = c.id => <<a, c.id>> \in here
    BY <1>3
  <2>2. \A q \in here : q[1] \in Nodes /\ Numbers[q[1]] = c.id
    BY <1>3
  <2>3. MembersIn(Imported, c) = {q[1] : q \in here}
    BY DEF MembersIn
  <2>. HIDE DEF here
  <2>4. \A a : a \in {q[1] : q \in here} => a \in Nodes /\ Numbers[a] = c.id
    BY <2>2
  <2>5. \A a \in Nodes : Numbers[a] = c.id => a \in {q[1] : q \in here}
    <3>1. SUFFICES ASSUME NEW a \in Nodes, Numbers[a] = c.id
                   PROVE  \E q \in here : a = q[1]
      OBVIOUS
    <3>2. <<a, c.id>> \in here /\ <<a, c.id>>[1] = a
      BY <2>1, <3>1
    <3>. QED  BY <3>2
  <2>. QED  BY <2>3, <2>4, <2>5
<1>. QED  BY <1>3, <1>4

LEMMA NodesSwap ==
  ASSUME Answered, result # <<>>
  PROVE  \E swap \in [CommunityNodes -> CommunityNodes] :
           /\ IsInjective(swap)
           /\ \A c \in CommunityNodes :
                /\ MembersIn(Imported, swap[c]) # {}
                /\ c.size = Cardinality(MembersIn(Imported, swap[c]))
<1>. DEFINE n == Len(Communities)
            group(c) == Communities[c.id + 1]
            some(c) == CHOOSE a \in Nodes : a \in group(c)
            nodeOf(k) == CHOOSE d \in CommunityNodes : d.id = k
            swap == [c \in CommunityNodes |-> nodeOf(Numbers[some(c)])]
<1>1. /\ n \in Nat /\ Communities \in Seq(Classes)
      /\ Numbers \in [Nodes -> 0..(n - 1)]
      /\ \A a, b \in Nodes : Numbers[a] = Numbers[b] <=> ClassOf(a) = ClassOf(b)
      /\ \A i, j \in 1..n : Communities[i] = Communities[j] => i = j
  BY ResultFacts DEF Answered
<1>2. /\ Classes = {ClassOf(a) : a \in Nodes}
      /\ \A a \in Nodes : a \in ClassOf(a)
      /\ \A C \in Classes : \A a \in C : a \in Nodes /\ C = ClassOf(a)
  BY ClassesCover DEF Answered
<1>3. ASSUME NEW c \in CommunityNodes
      PROVE  /\ c.id + 1 \in 1..n /\ group(c) \in Classes
             /\ c = [id |-> c.id, size |-> Cardinality(group(c))]
  <2>1. PICK i \in DOMAIN Communities :
          c = [id |-> CommunityId(i), size |-> Cardinality(Communities[i])]
    BY DEF CommunityNodes, Communities
  <2>2. i \in 1..n /\ c.id + 1 = i
    BY <1>1, <2>1 DEF CommunityId
  <2>. QED  BY <1>1, <2>1, <2>2
<1>. HIDE DEF n, group
<1>4. ASSUME NEW c \in CommunityNodes
      PROVE  some(c) \in Nodes /\ group(c) = ClassOf(some(c))
  <2>1. \E a \in Nodes : a \in group(c)
    BY <1>2, <1>3
  <2>. QED  BY <1>2, <1>3, <2>1
<1>. HIDE DEF some
<1>5. ASSUME NEW a \in Nodes
      PROVE  nodeOf(Numbers[a]) \in CommunityNodes /\ nodeOf(Numbers[a]).id = Numbers[a]
  BY IdsAreNumbers
<1>. HIDE DEF nodeOf
<1>6. swap \in [CommunityNodes -> CommunityNodes]
  BY <1>4, <1>5
<1>7. ASSUME NEW c \in CommunityNodes
      PROVE  /\ swap[c].id = Numbers[some(c)]
             /\ MembersIn(Imported, swap[c]) = group(c)
  <2>1. swap[c].id = Numbers[some(c)]
    BY <1>4, <1>5
  <2>2. MembersIn(Imported, swap[c]) = {a \in Nodes : ClassOf(a) = ClassOf(some(c))}
    BY <1>1, <1>4, <2>1, ImportedMembers
  <2>3. {a \in Nodes : ClassOf(a) = ClassOf(some(c))} = group(c)
    BY <1>2, <1>3, <1>4
  <2>. QED  BY <2>1, <2>2, <2>3
<1>8. ASSUME NEW c \in CommunityNodes, NEW d \in CommunityNodes, swap[c] = swap[d]
      PROVE  c = d
  <2>1. group(c) = group(d)
    BY <1>7, <1>8
  <2>2. c.id + 1 = d.id + 1
    BY <1>1, <1>3, <2>1 DEF group, n
  <2>3. c.id = d.id
    <3>1. c.id \in Int /\ d.id \in Int
      BY <1>1 DEF CommunityNodes, Communities, CommunityId
    <3>. QED  BY <2>2, <3>1
  <2>. QED  BY <1>3, <2>1, <2>3
<1>9. \A c \in CommunityNodes : c.size = Cardinality(group(c)) /\ group(c) # {}
  BY <1>2, <1>3
<1>. HIDE DEF swap
<1>10. DOMAIN swap = CommunityNodes /\ IsInjective(swap)
  BY <1>6, <1>8 DEF IsInjective
<1>11. \A c \in CommunityNodes :
         /\ MembersIn(Imported, swap[c]) # {}
         /\ c.size = Cardinality(MembersIn(Imported, swap[c]))
  BY <1>7, <1>9
<1>. QED  BY <1>6, <1>10, <1>11

LEMMA ImportFacts ==
  ASSUME Answered, result # <<>>
  PROVE  /\ \A a \in Nodes : Cardinality({p \in Imported.members : p[1] = a}) = 1
         /\ \E swap \in [Imported.communities -> Imported.communities] :
              /\ IsInjective(swap)
              /\ \A c \in Imported.communities :
                   /\ MembersIn(Imported, swap[c]) # {}
                   /\ c.size = Cardinality(MembersIn(Imported, swap[c]))
<1>1. ASSUME NEW a \in Nodes
      PROVE  Cardinality({p \in Imported.members : p[1] = a}) = 1
  <2>1. {p \in Imported.members : p[1] = a} = {<<a, Numbers[a]>>}
    BY ImportedMembers
  <2>. QED  BY <2>1, FS_Singleton
<1>2. Imported.communities = CommunityNodes
  BY DEF Imported
<1>. HIDE DEF Imported
<1>. QED  BY <1>1, <1>2, NodesSwap
-----------------------------------------------------------------------------
(***************************************************************************)
(* Bridges.  Every pair is filed under two actors, so that what is filed   *)
(* under all of them adds up to twice the pairs.                           *)
(***************************************************************************)
SumOfIsAddUp == \A f, S : SumOf(f, S) = AddUp(f, S)

LEMMA SumsAgree == SumOfIsAddUp
  BY DEF SumOfIsAddUp, SumOf, AddUp

LEMMA EndsAreFromPairs ==
  ASSUME NEW S, IsFiniteSet(S), NEW f, \A p \in S : f[p] \in Nat /\ f[p] > 0, NEW a
  PROVE  /\ EndsAt(f, a, S) \in Nat
         /\ EndsAt(f, a, S) > 0 <=> \E p \in S : a \in {p[1], p[2]}
         /\ Cardinality({p \in S : p[1] = a}) + Cardinality({p \in S : p[2] = a})
              <= EndsAt(f, a, S)
<1>. DEFINE X == {p \in S : p[1] = a}
            Y == {p \in S : p[2] = a}
<1>1. IsFiniteSet(X) /\ IsFiniteSet(Y)
  BY FS_Subset
<1>2. EndsAt(f, a, S) = AddUp(f, X) + AddUp(f, Y)
  BY SumsAgree DEF EndsAt, SumOfIsAddUp
<1>3. (\A p \in X : f[p] \in Nat /\ f[p] >= 1) /\ (\A p \in Y : f[p] \in Nat /\ f[p] >= 1)
  OBVIOUS
<1>4. (\E p \in S : a \in {p[1], p[2]}) <=> X # {} \/ Y # {}
  OBVIOUS
<1>. HIDE DEF X, Y
<1>5. AddUp(f, X) \in Nat /\ AddUp(f, Y) \in Nat
  BY <1>1, <1>3, SumIsNatural
<1>6. AddUp(f, X) >= Cardinality(X) /\ AddUp(f, Y) >= Cardinality(Y)
  BY <1>1, <1>3, SumIsAtLeastCount
<1>7. /\ Cardinality(X) \in Nat /\ Cardinality(Y) \in Nat
      /\ Cardinality(X) = 0 <=> X = {}
      /\ Cardinality(Y) = 0 <=> Y = {}
  BY <1>1, FS_CardinalityType, FS_EmptySet
<1>8. X = {} /\ Y = {} => AddUp(f, X) + AddUp(f, Y) = 0
  BY SumOfNone
<1>9. EndsAt(f, a, S) > 0 <=> X # {} \/ Y # {}
  BY <1>2, <1>5, <1>6, <1>7, <1>8
<1>10. Cardinality(X) + Cardinality(Y) <= EndsAt(f, a, S)
  BY <1>2, <1>5, <1>6, <1>7
<1>. QED  BY <1>2, <1>4, <1>5, <1>9, <1>10 DEF X, Y

LEMMA BothEndsAreFiled ==
  ASSUME NEW N, IsFiniteSet(N), NEW S, IsFiniteSet(S), S \subseteq N \X N,
         NEW f, \A p \in S : f[p] \in Nat,
         NEW g, \A a \in N : g[a] = EndsAt(f, a, S)
  PROVE  AddUp(g, N) = 2 * AddUp(f, S)
<1>. DEFINE from == [p \in S |-> p[1]]
            to == [p \in S |-> p[2]]
            sent == [a \in N |-> AddUp(f, {p \in S : from[p] = a})]
            received == [a \in N |-> AddUp(f, {p \in S : to[p] = a})]
<1>1. (\A p \in S : f[p] \in Int) /\ (\A p \in S : from[p] \in N) /\ (\A p \in S : to[p] \in N)
  OBVIOUS
<1>2. (\A a \in N : sent[a] = AddUp(f, {p \in S : from[p] = a}))
      /\ (\A a \in N : received[a] = AddUp(f, {p \in S : to[p] = a}))
  OBVIOUS
<1>3. \A a \in N : sent[a] \in Int /\ received[a] \in Int /\ g[a] = sent[a] + received[a]
  <2>. TAKE a \in N
  <2>. DEFINE X == {p \in S : p[1] = a}
              Y == {p \in S : p[2] = a}
  <2>1. {p \in S : from[p] = a} = X /\ {p \in S : to[p] = a} = Y
    OBVIOUS
  <2>2. IsFiniteSet(X) /\ IsFiniteSet(Y)
    BY FS_Subset
  <2>3. (\A p \in X : f[p] \in Int) /\ (\A p \in Y : f[p] \in Int)
    OBVIOUS
  <2>4. g[a] = AddUp(f, X) + AddUp(f, Y)
    BY SumsAgree DEF EndsAt, SumOfIsAddUp
  <2>5. sent[a] = AddUp(f, X) /\ received[a] = AddUp(f, Y)
    BY <1>2, <2>1
  <2>. HIDE DEF X, Y, sent, received
  <2>6. AddUp(f, X) \in Int /\ AddUp(f, Y) \in Int
    BY <2>2, <2>3, SumIsInteger
  <2>. QED  BY <2>4, <2>5, <2>6
<1>. HIDE DEF from, to, sent, received
<1>4. AddUp(sent, N) = AddUp(f, S)
  <2>1. Groups(f, S, from, sent, N)
    BY <1>1, <1>2 DEF Groups
  <2>. QED  BY <1>1, <2>1, SumByKey
<1>7. AddUp(received, N) = AddUp(f, S)
  <2>1. Groups(f, S, to, received, N)
    BY <1>1, <1>2 DEF Groups
  <2>. QED  BY <1>1, <2>1, SumByKey
<1>5. AddUp(g, N) = AddUp(sent, N) + AddUp(received, N)
  BY <1>3, SumOfSums
<1>6. AddUp(f, S) \in Int
  BY <1>1, SumIsInteger
<1>. QED  BY <1>4, <1>5, <1>6, <1>7

(***************************************************************************)
(* What the second query returns: counts of a finite set of pairs, every   *)
(* one of which has been heard of.                                         *)
(***************************************************************************)
LEMMA GrownCounts ==
  ASSUME interactions \in Graphs, NEW new \in SUBSET Arrivals
  PROVE  /\ IsFiniteSet(DOMAIN Grown(new)) /\ DOMAIN Grown(new) \subseteq Actor \X Actor
         /\ DOMAIN interactions \subseteq DOMAIN Grown(new)
         /\ \A p \in DOMAIN Grown(new) : Grown(new)[p] \in Nat /\ Grown(new)[p] > 0
<1>1. /\ DOMAIN interactions \subseteq Actor \X Actor
      /\ \A p \in DOMAIN interactions : interactions[p] \in Nat /\ interactions[p] > 0
  BY GraphsAssumption, CountsAssumption
<1>2. DOMAIN Grown(new) = DOMAIN interactions \cup new
  BY DEF Grown
<1>3. DOMAIN Grown(new) \subseteq Actor \X Actor
  BY <1>1, <1>2, ArrivalsAssumption
<1>4. IsFiniteSet(DOMAIN Grown(new))
  BY <1>3, ActorAssumption, FS_Product, FS_Subset
<1>5. \A p \in DOMAIN Grown(new) : Grown(new)[p] \in Nat /\ Grown(new)[p] > 0
  BY <1>1, <1>2 DEF Grown
<1>. QED  BY <1>2, <1>3, <1>4, <1>5

(***************************************************************************)
(* Whom a bridge connects: its own community and those at the other ends   *)
(* of its external edges.                                                  *)
(***************************************************************************)
Across(m, S) == {p \in S : m[p[1]] # m[p[2]]}
Met(a, S) == {p \in S : a \in {p[1], p[2]}}
Linked(m, S, a) == {m[p[1]] : p \in Met(a, S)} \cup {m[p[2]] : p \in Met(a, S)}

LEMMA ConnectedByEdges ==
  ASSUME NEW S, IsFiniteSet(S), NEW f, \A p \in S : f[p] \in Nat /\ f[p] > 0,
         NEW m, NEW a, Met(a, S) # {}
  PROVE  /\ m[a] \in Linked(m, S, a)
         /\ Cardinality(Linked(m, S, a)) > 1 <=> EndsAt(f, a, Across(m, S)) > 0
         /\ Cardinality(Linked(m, S, a)) <= 1 + EndsAt(f, a, Across(m, S))
<1>. DEFINE across == Across(m, S)
            met == Met(a, S)
            connected == Linked(m, S, a)
            X == {p \in across : p[1] = a}
            Y == {p \in across : p[2] = a}
            e == EndsAt(f, a, across)
            overX == [p \in X |-> m[p[2]]]
            overY == [p \in Y |-> m[p[1]]]
            P == {overX[p] : p \in X}
            Q == {overY[p] : p \in Y}
<1>. USE DEF Across, Met, Linked
<1>1. m[a] \in connected
  OBVIOUS
<1>2. IsFiniteSet(across) /\ \A p \in across : f[p] \in Nat /\ f[p] > 0
  BY FS_Subset
<1>3. /\ e \in Nat
      /\ e > 0 <=> \E p \in across : a \in {p[1], p[2]}
      /\ Cardinality(X) + Cardinality(Y) <= e
  BY <1>2, EndsAreFromPairs
<1>4. IsFiniteSet(X) /\ IsFiniteSet(Y)
  BY <1>2, FS_Subset
<1>5. overX \in Surjection(X, P) /\ overY \in Surjection(Y, Q)
  BY DEF Surjection
<1>6. connected \subseteq {m[a]} \cup (P \cup Q)
  <2>. SUFFICES ASSUME NEW p \in met, NEW c \in {m[p[1]], m[p[2]]}, c # m[a]
                PROVE  c \in P \cup Q
    OBVIOUS
  <2>1. p \in across
    OBVIOUS
  <2>2. CASE p[1] = a
    <3>1. p \in X /\ c = overX[p]
      BY <2>1, <2>2
    <3>. QED  BY <3>1
  <2>3. CASE p[2] = a
    <3>1. p \in Y /\ c = overY[p]
      BY <2>1, <2>3
    <3>. QED  BY <3>1
  <2>. QED  BY <2>2, <2>3
<1>7. P \cup Q # {} => e > 0
  BY <1>3
<1>8. e > 0 => \E c \in connected : c # m[a]
  <2>. SUFFICES ASSUME e > 0 PROVE \E c \in connected : c # m[a]
    OBVIOUS
  <2>1. PICK p \in across : a \in {p[1], p[2]}
    BY <1>3
  <2>2. p \in met /\ m[p[1]] # m[p[2]]
    BY <2>1
  <2>3. m[p[1]] \in connected /\ m[p[2]] \in connected
    BY <2>2
  <2>. QED  BY <2>2, <2>3
<1>. HIDE DEF X, Y, P, Q, e, overX, overY
<1>9. /\ IsFiniteSet(P) /\ Cardinality(P) <= Cardinality(X)
      /\ IsFiniteSet(Q) /\ Cardinality(Q) <= Cardinality(Y)
  BY <1>4, <1>5, FS_Surjection
<1>10. IsFiniteSet(P \cup Q) /\ Cardinality(P \cup Q) <= Cardinality(P) + Cardinality(Q)
  <2>1. IsFiniteSet(P \cap Q)
    BY <1>9, FS_Subset
  <2>2. Cardinality(P \cup Q) = Cardinality(P) + Cardinality(Q) - Cardinality(P \cap Q)
    BY <1>9, FS_Union
  <2>. QED  BY <1>9, <2>1, <2>2, FS_Union, FS_CardinalityType
<1>. DEFINE R == P \cup Q
            All == {m[a]} \cup R
<1>11. IsFiniteSet(All) /\ Cardinality(All) <= 1 + Cardinality(R)
  <2>. DEFINE own == m[a]
  <2>1. R \cup {own} = All
    OBVIOUS
  <2>2. IsFiniteSet(R) /\ Cardinality(R) \in Nat
    BY <1>10, FS_CardinalityType
  <2>. HIDE DEF R, All, own
  <2>3. /\ IsFiniteSet(R \cup {own})
        /\ Cardinality(R \cup {own}) = IF own \in R THEN Cardinality(R) ELSE Cardinality(R) + 1
    BY <2>2, FS_AddElement
  <2>. QED  BY <2>1, <2>2, <2>3
<1>12. IsFiniteSet(connected) /\ Cardinality(connected) <= Cardinality(All)
  <2>. HIDE DEF All
  <2>1. connected \in SUBSET All
    BY <1>6 DEF All
  <2>. QED  BY <1>11, <2>1, FS_Subset
<1>13. /\ Cardinality(X) \in Nat /\ Cardinality(Y) \in Nat /\ Cardinality(P) \in Nat
       /\ Cardinality(Q) \in Nat /\ Cardinality(R) \in Nat /\ Cardinality(All) \in Nat
       /\ Cardinality(connected) \in Nat
  BY <1>4, <1>9, <1>10, <1>11, <1>12, FS_CardinalityType
<1>14. Cardinality(connected) <= 1 + e
  <2>. HIDE DEF R, All
  <2>1. Cardinality(R) <= Cardinality(P) + Cardinality(Q)
    BY <1>10 DEF R
  <2>. QED  BY <1>3, <1>9, <1>11, <1>12, <1>13, <2>1
<1>15. ASSUME e > 0 PROVE Cardinality(connected) > 1
  <2>1. PICK c \in connected : c # m[a]
    BY <1>8, <1>15
  <2>2. Cardinality(connected) # 1
    <3>1. ASSUME NEW x, connected = {x} PROVE FALSE
      BY <1>1, <2>1, <3>1
    <3>. QED  BY <1>12, <3>1, FS_Singleton
  <2>3. Cardinality(connected) # 0
    BY <1>1, <1>12, FS_EmptySet
  <2>. QED  BY <1>13, <2>2, <2>3
<1>16. ASSUME Cardinality(connected) > 1 PROVE e > 0
  BY <1>3, <1>14, <1>16, <1>13
<1>. QED  BY <1>1, <1>14, <1>15, <1>16 DEF e

(***************************************************************************)
(* The rows DetectBridges returns, for any interactions that have arrived  *)
(* since.                                                                  *)
(***************************************************************************)
CountsEnds(rows, f, m) ==
  LET covered == {p \in DOMAIN f : {p[1], p[2]} \subseteq Nodes}
      across == {p \in covered : m[p[1]] # m[p[2]]}
  IN  /\ SumOf([a \in DOMAIN rows |-> rows[a].internal + rows[a].external], DOMAIN rows)
           = 2 * SumOf(f, covered)
      /\ SumOf([a \in DOMAIN rows |-> rows[a].external], DOMAIN rows)
           = 2 * SumOf(f, across)
      /\ \A a \in DOMAIN rows :
           /\ rows[a].community \in rows[a].connected
           /\ Cardinality(rows[a].connected) > 1 <=> rows[a].external > 0
           /\ Cardinality(rows[a].connected) <= 1 + rows[a].external
      /\ DOMAIN rows = Nodes

LEMMA RowsCountEnds ==
  ASSUME Answered, result # <<>>, NEW new \in SUBSET Arrivals
  PROVE  CountsEnds(Rows(Grown(new), Numbers), Grown(new), Numbers)
<1>. DEFINE f == Grown(new)
            m == Numbers
            rows == Rows(f, m)
            covered == {p \in DOMAIN f : {p[1], p[2]} \subseteq Nodes}
            inside == {p \in covered : m[p[1]] = m[p[2]]}
            across == {p \in covered : m[p[1]] # m[p[2]]}
            met(a) == {p \in covered : a \in {p[1], p[2]}}
            linked(a) == {m[p[1]] : p \in met(a)} \cup {m[p[2]] : p \in met(a)}
<1>1. /\ IsFiniteSet(DOMAIN f) /\ DOMAIN f \subseteq Actor \X Actor
      /\ DOMAIN interactions \subseteq DOMAIN f
      /\ \A p \in DOMAIN f : f[p] \in Nat /\ f[p] > 0
  BY GrownCounts DEF Answered
<1>2. IsFiniteSet(Nodes) /\ DOMAIN m = Nodes
  BY ResultFacts DEF Answered
<1>. HIDE DEF f, m
<1>3. /\ IsFiniteSet(covered) /\ IsFiniteSet(inside) /\ IsFiniteSet(across)
      /\ \A p \in covered : f[p] \in Nat /\ f[p] > 0
  BY <1>1, FS_Subset
<1>4. covered \subseteq Nodes \X Nodes
  BY <1>1
<1>5. covered \ inside = across /\ inside \cap across = {} /\ inside \cup across = covered
  OBVIOUS
<1>6. \A a \in Nodes : \E p \in covered : a \in {p[1], p[2]}
  <2>1. DOMAIN interactions \subseteq covered
    BY <1>1 DEF Nodes
  <2>. QED  BY <2>1 DEF Nodes
<1>7. rows = [a \in {b \in Nodes : EndsAt(f, b, inside) + EndsAt(f, b, across) > 0} |->
                [community |-> m[a],
                 internal |-> EndsAt(f, a, inside),
                 external |-> EndsAt(f, a, across),
                 connected |-> linked(a)]]
  <2>. DEFINE known == {p \in DOMAIN f : {p[1], p[2]} \subseteq DOMAIN m}
              same == {p \in known : m[p[1]] = m[p[2]]}
              other == known \ same
              near(a) == {p \in known : a \in {p[1], p[2]}}
              over(a) == {m[p[1]] : p \in near(a)} \cup {m[p[2]] : p \in near(a)}
  <2>1. rows = [a \in {b \in DOMAIN m : EndsAt(f, b, same) + EndsAt(f, b, other) > 0} |->
                  [community |-> m[a],
                   internal |-> EndsAt(f, a, same),
                   external |-> EndsAt(f, a, other),
                   connected |-> over(a)]]
    BY Zenon DEF Rows
  <2>2. known = covered
    BY <1>2
  <2>3. same = inside /\ other = across
    BY <1>5, <2>2
  <2>4. \A a : over(a) = linked(a)
    BY <2>2
  <2>. HIDE DEF rows, same, other, over, linked, inside, across, covered, known
  <2>. QED  BY <1>2, <2>1, <2>3, <2>4
<1>. HIDE DEF rows
<1>8. \A a \in Nodes :
        /\ EndsAt(f, a, inside) \in Nat /\ EndsAt(f, a, across) \in Nat
        /\ EndsAt(f, a, inside) + EndsAt(f, a, across) > 0
  <2>. TAKE a \in Nodes
  <2>1. /\ EndsAt(f, a, inside) \in Nat
        /\ EndsAt(f, a, inside) > 0 <=> \E p \in inside : a \in {p[1], p[2]}
    <3>1. \A p \in inside : f[p] \in Nat /\ f[p] > 0
      BY <1>3
    <3>. HIDE DEF inside
    <3>. QED  BY <1>3, <3>1, EndsAreFromPairs
  <2>2. /\ EndsAt(f, a, across) \in Nat
        /\ EndsAt(f, a, across) > 0 <=> \E p \in across : a \in {p[1], p[2]}
    <3>1. \A p \in across : f[p] \in Nat /\ f[p] > 0
      BY <1>3
    <3>. HIDE DEF across
    <3>. QED  BY <1>3, <3>1, EndsAreFromPairs
  <2>3. PICK p \in covered : a \in {p[1], p[2]}
    BY <1>6
  <2>4. p \in inside \/ p \in across
    OBVIOUS
  <2>. HIDE DEF inside, across
  <2>. QED  BY <2>1, <2>2, <2>3, <2>4
<1>9. DOMAIN rows = Nodes
  BY <1>7, <1>8
<1>10. \A a \in Nodes : /\ rows[a].community = m[a]
                        /\ rows[a].internal = EndsAt(f, a, inside)
                        /\ rows[a].external = EndsAt(f, a, across)
                        /\ rows[a].connected = linked(a)
  <2>. HIDE DEF linked, inside, across
  <2>. QED  BY <1>7, <1>8, <1>9
<1>11. ASSUME NEW a \in Nodes
       PROVE  /\ rows[a].community \in rows[a].connected
              /\ Cardinality(rows[a].connected) > 1 <=> rows[a].external > 0
              /\ Cardinality(rows[a].connected) <= 1 + rows[a].external
  <2>1. Met(a, covered) # {} /\ Across(m, covered) = across /\ Linked(m, covered, a) = linked(a)
    BY <1>6 DEF Met, Across, Linked
  <2>2. /\ m[a] \in Linked(m, covered, a)
        /\ Cardinality(Linked(m, covered, a)) > 1 <=> EndsAt(f, a, Across(m, covered)) > 0
        /\ Cardinality(Linked(m, covered, a)) <= 1 + EndsAt(f, a, Across(m, covered))
    <3>. HIDE DEF covered
    <3>. QED  BY <1>3, <2>1, ConnectedByEdges
  <2>. HIDE DEF linked, across, covered
  <2>. QED  BY <1>10, <2>1, <2>2
<1>. DEFINE both == [a \in Nodes |-> rows[a].internal + rows[a].external]
            within == [a \in Nodes |-> rows[a].internal]
            beyond == [a \in Nodes |-> rows[a].external]
<1>12. /\ \A a \in Nodes : within[a] = EndsAt(f, a, inside)
       /\ \A a \in Nodes : beyond[a] = EndsAt(f, a, across)
       /\ \A a \in Nodes : within[a] \in Int /\ beyond[a] \in Int /\ both[a] = within[a] + beyond[a]
  <2>. HIDE DEF inside, across
  <2>. QED  BY <1>8, <1>10
<1>. HIDE DEF both, within, beyond
<1>13. AddUp(within, Nodes) = 2 * AddUp(f, inside)
  <2>1. inside \subseteq Nodes \X Nodes /\ \A p \in inside : f[p] \in Nat
    BY <1>3, <1>4
  <2>2. \A a \in Nodes : within[a] = EndsAt(f, a, inside)
    BY <1>12
  <2>. HIDE DEF inside
  <2>. QED  BY <1>2, <1>3, <2>1, <2>2, BothEndsAreFiled
<1>14. AddUp(beyond, Nodes) = 2 * AddUp(f, across)
  <2>1. across \subseteq Nodes \X Nodes /\ \A p \in across : f[p] \in Nat
    BY <1>3, <1>4
  <2>2. \A a \in Nodes : beyond[a] = EndsAt(f, a, across)
    BY <1>12
  <2>. HIDE DEF across
  <2>. QED  BY <1>2, <1>3, <2>1, <2>2, BothEndsAreFiled
<1>15. AddUp(both, Nodes) = AddUp(within, Nodes) + AddUp(beyond, Nodes)
  <2>1. \A a \in Nodes : within[a] \in Int /\ beyond[a] \in Int /\ both[a] = within[a] + beyond[a]
    BY <1>12
  <2>. QED  BY <1>2, <2>1, SumOfSums
<1>16. /\ AddUp(f, inside) \in Int /\ AddUp(f, across) \in Int
       /\ AddUp(f, inside \cup across) = AddUp(f, inside) + AddUp(f, across)
  <2>1. \A p \in inside \cup across : f[p] \in Int
    BY <1>3
  <2>2. inside \cap across = {}
    BY <1>5
  <2>. HIDE DEF inside, across
  <2>. QED  BY <1>3, <2>1, <2>2, SumOfUnion
<1>17. AddUp(both, Nodes) = 2 * AddUp(f, covered)
  <2>1. AddUp(f, inside \cup across) = AddUp(f, covered)
    BY <1>5, Zenon
  <2>. HIDE DEF inside, across, covered
  <2>. QED  BY <1>13, <1>14, <1>15, <1>16, <2>1
<1>18. /\ SumOf(both, Nodes) = 2 * SumOf(f, covered)
       /\ SumOf(beyond, Nodes) = 2 * SumOf(f, across)
  <2>. HIDE DEF across, covered
  <2>. QED  BY <1>14, <1>17, SumsAgree DEF SumOfIsAddUp
<1>. QED
  <2>1. /\ both = [a \in DOMAIN rows |-> rows[a].internal + rows[a].external]
        /\ beyond = [a \in DOMAIN rows |-> rows[a].external]
    BY <1>9 DEF both, beyond
  <2>2. /\ SumOf([a \in DOMAIN rows |-> rows[a].internal + rows[a].external], DOMAIN rows)
             = 2 * SumOf(f, covered)
        /\ SumOf([a \in DOMAIN rows |-> rows[a].external], DOMAIN rows)
             = 2 * SumOf(f, across)
    <3>. HIDE DEF across, covered
    <3>. QED  BY <1>9, <1>18, <2>1
  <2>3. CountsEnds(rows, f, m)
    BY <1>9, <1>11, <2>2 DEF CountsEnds
  <2>. QED  BY <2>3 DEF f, m, rows
-----------------------------------------------------------------------------
(***************************************************************************)
(* Structural holes.  Weights are symmetric, positive exactly between      *)
(* neighbours, and an actor's total is what they add up to.                *)
(***************************************************************************)
LEMMA WeightFacts ==
  ASSUME interactions \in Graphs, NEW a \in Nodes, NEW b \in Nodes
  PROVE  /\ Weight(a, b) \in Nat /\ Weight(b, a) = Weight(a, b)
         /\ b \in Neighbours(a) <=> Weight(a, b) > 0
<1>1. \A p \in DOMAIN interactions : interactions[p] \in Nat /\ interactions[p] > 0
  BY GraphsAssumption, CountsAssumption
<1>2. /\ Sent(a, b) \in Nat /\ Sent(b, a) \in Nat
      /\ Sent(a, b) > 0 <=> <<a, b>> \in DOMAIN interactions
      /\ Sent(b, a) > 0 <=> <<b, a>> \in DOMAIN interactions
  BY <1>1 DEF Sent
<1>. QED  BY <1>2 DEF Weight, Neighbours

LEMMA TotalFacts ==
  ASSUME interactions \in Graphs, NEW a \in Nodes
  PROVE  /\ IsFiniteSet(Neighbours(a)) /\ Neighbours(a) \subseteq Nodes
         /\ TotalOf(a) = AddUp([b \in Nodes |-> Weight(a, b)], Neighbours(a))
         /\ TotalOf(a) \in Nat
         /\ \A b \in Nodes : Weight(a, b) <= TotalOf(a)
<1>. DEFINE w == [b \in Nodes |-> Weight(a, b)]
            N == Neighbours(a)
<1>1. IsFiniteSet(Nodes) /\ N \subseteq Nodes
  BY NodesFinite, ActorAssumption, FS_Subset DEF Neighbours
<1>2. IsFiniteSet(N)
  BY <1>1, FS_Subset
<1>3. \A b \in Nodes : w[b] = Weight(a, b) /\ w[b] \in Nat
  BY WeightFacts
<1>4. TotalOf(a) = AddUp(w, N)
  BY SumsAgree DEF TotalOf, SumOfIsAddUp
<1>. HIDE DEF w
<1>5. \A b \in N : w[b] \in Nat
  BY <1>1, <1>3
<1>6. TotalOf(a) \in Nat
  <2>. HIDE DEF N
  <2>. QED  BY <1>2, <1>4, <1>5, SumIsNatural
<1>7. ASSUME NEW b \in Nodes PROVE Weight(a, b) <= TotalOf(a)
  <2>1. CASE b \in N
    <3>. DEFINE E == {b}
    <3>1. E \in SUBSET N
      BY <2>1
    <3>2. AddUp(w, E) = w[b]
      BY <1>3, SumOfOne
    <3>. HIDE DEF E, N
    <3>3. AddUp(w, E) <= AddUp(w, N)
      BY <1>2, <1>5, <3>1, SumOfPart
    <3>. QED  BY <1>3, <1>4, <3>2, <3>3
  <2>2. CASE b \notin N
    BY <1>6, <2>2, WeightFacts
  <2>. QED  BY <2>1, <2>2
<1>. QED  BY <1>1, <1>2, <1>4, <1>6, <1>7 DEF w

(***************************************************************************)
(* What n takes up of a's attention through others is at most what a gives *)
(* to those others: none of them gives n more than n gets in all.          *)
(***************************************************************************)
LEMMA ShareIsAShare ==
  ASSUME interactions \in Graphs, NEW a \in Nodes, NEW n \in Neighbours(a)
  PROVE  0 < Share(a, n).num /\ Share(a, n).num <= Share(a, n).den
<1>. DEFINE through(m) == Weight(a, m) * Weight(n, m)
            mutual == {m \in Neighbours(a) \ {n} : Weight(n, m) > 0}
            others == Neighbours(a) \ {n}
            w == [b \in Nodes |-> Weight(a, b)]
            thru == [m \in mutual |-> through(m)]
            most == [m \in mutual |-> w[m] * TotalOf(n)]
            u == Weight(a, n)
            t == TotalOf(n)
            v == AddUp(w, others)
            s == AddUp(w, mutual)
            q == AddUp(thru, mutual)
<1>1. n \in Nodes
  BY DEF Neighbours
<1>2. /\ IsFiniteSet(Neighbours(a)) /\ Neighbours(a) \subseteq Nodes
      /\ TotalOf(a) = AddUp(w, Neighbours(a)) /\ TotalOf(a) \in Nat
      /\ t \in Nat /\ \A m \in Nodes : Weight(n, m) <= t
  BY <1>1, TotalFacts
<1>3. /\ u \in Nat /\ u > 0 /\ Weight(n, a) = u
      /\ \A m \in Nodes : Weight(a, m) \in Nat /\ Weight(n, m) \in Nat
  BY <1>1, WeightFacts
<1>4. t > 0
  BY <1>2, <1>3
<1>5. \A m \in Nodes : w[m] = Weight(a, m) /\ w[m] \in Nat
  BY <1>3
<1>6. IsFiniteSet(others) /\ mutual \subseteq others /\ others \subseteq Nodes /\ mutual \subseteq Nodes
  BY <1>2, FS_Subset
<1>7. IsFiniteSet(mutual)
  BY <1>6, FS_Subset
<1>8. Share(a, n).num = u * t + q /\ Share(a, n).den = TotalOf(a) * t
  BY SumsAgree DEF Share, SumOfIsAddUp
<1>9. \A m \in mutual : /\ thru[m] = Weight(a, m) * Weight(n, m) /\ most[m] = w[m] * t
  BY <1>6
<1>. HIDE DEF mutual, others, w, thru, most, u, t
<1>10. TotalOf(a) = u + v
  <2>1. others \cup {n} = Neighbours(a) /\ n \notin others
    BY DEF others
  <2>2. \A m \in others \cup {n} : w[m] \in Int
    BY <1>1, <1>5, <1>6
  <2>3. AddUp(w, others \cup {n}) = AddUp(w, others) + w[n]
    BY <1>6, <2>1, <2>2, SumOfOneMore
  <2>4. AddUp(w, others \cup {n}) = AddUp(w, Neighbours(a))
    BY <2>1, Zenon
  <2>5. w[n] = u
    BY <1>1, <1>5 DEF u
  <2>6. TotalOf(a) = AddUp(w, Neighbours(a)) /\ w[n] \in Int
    BY <1>1, <1>2, <1>5
  <2>7. v \in Int
    <3>1. \A m \in others : w[m] \in Int
      BY <2>2
    <3>. QED  BY <1>6, <3>1, SumIsInteger
  <2>. HIDE DEF v
  <2>8. TotalOf(a) = v + w[n]
    BY <2>3, <2>4, <2>6 DEF v
  <2>. QED  BY <2>5, <2>6, <2>7, <2>8
<1>11. v \in Nat /\ s \in Nat /\ s <= v
  <2>1. \A m \in others : w[m] \in Nat
    BY <1>5, <1>6
  <2>. QED  BY <1>6, <2>1, SumOfPart
<1>12. \A m \in mutual : thru[m] \in Nat /\ most[m] \in Nat /\ thru[m] <= most[m]
  <2>. TAKE m \in mutual
  <2>. DEFINE x == Weight(a, m)
              y == Weight(n, m)
  <2>1. x \in Nat /\ y \in Nat /\ y <= t /\ thru[m] = x * y /\ most[m] = x * t
    BY <1>2, <1>3, <1>5, <1>6, <1>9
  <2>. HIDE DEF x, y
  <2>2. x * y \in Nat /\ x * t \in Nat /\ x * y <= x * t
    BY <1>2, <2>1
  <2>. QED  BY <2>1, <2>2
<1>13. q \in Nat /\ q <= AddUp(most, mutual)
  <2>1. /\ \A m \in mutual : thru[m] \in Nat
        /\ \A m \in mutual : thru[m] \in Int /\ most[m] \in Int /\ thru[m] <= most[m]
    BY <1>12
  <2>. QED  BY <1>7, <2>1, SumIsNatural, SumIsMonotone
<1>14. AddUp(most, mutual) = s * t
  <2>1. (\A m \in mutual : w[m] \in Int) /\ (\A m \in mutual : most[m] = w[m] * t)
    BY <1>5, <1>6, <1>9
  <2>2. t \in Int
    BY <1>2
  <2>. QED  BY <1>7, <2>1, <2>2, SumOfMultiples
<1>. HIDE DEF v, s, q
<1>15. s * t <= v * t /\ (u + v) * t = u * t + v * t
  BY <1>2, <1>3, <1>11
<1>16. u * t > 0 /\ u * t \in Nat /\ v * t \in Nat /\ s * t \in Nat
  BY <1>2, <1>3, <1>4, <1>11
<1>17. TotalOf(a) * t = (u + v) * t
  BY <1>10
<1>18. 0 < u * t + q
  BY <1>13, <1>16
<1>19. u * t + q <= u * t + v * t
  BY <1>13, <1>14, <1>15, <1>16
<1>20. u * t + q <= TotalOf(a) * t
  BY <1>15, <1>17, <1>19
<1>. QED  BY <1>8, <1>18, <1>20
-----------------------------------------------------------------------------
(***************************************************************************)
(* A run of a command detects communities first, as Spec says, and then    *)
(* makes one report, from which on nothing changes.                        *)
(***************************************************************************)
LEMMA ReportsKeepSpec == ReportsSpec => Spec
<1>1. ReportsInit => Init
  BY DEF ReportsInit
<1>2. [ReportsNext]_<<vars, reportVars>> => [Next]_vars
  BY DEF ReportsNext, DetectBridges, StructuralHoles, ExportGephi, ExportNeo4j
<1>. QED  BY <1>1, <1>2, PTL DEF ReportsSpec, Spec

LEMMA AnsweredAlways == ReportsSpec => []Answered
<1>1. Inv /\ TypeOK /\ Answer => Answered
  BY DEF Answered, Inv, TypeOK
<1>2. Init => Inv /\ TypeOK /\ Answer
  BY InvInit, TypedInit, AnswerInit
<1>3. Inv /\ TypeOK /\ Answer /\ [Next]_vars => (Inv /\ TypeOK /\ Answer)'
  BY InvNext, TypedNext, AnswerNext
<1>. QED  BY <1>1, <1>2, <1>3, ReportsKeepSpec, PTL DEF Spec

Reports ==
  BridgesCountEnds /\ SharesAreShares /\ ColoursTellCommunities /\ ImportIsComplete

LEMMA ReportsStart == ReportsInit => Reports
  BY DEF ReportsInit, BridgesInit, ExportInit, Reports, BridgesCountEnds, SharesAreShares,
         ColoursTellCommunities, ImportIsComplete

LEMMA ReportsBeforeAny ==
  ASSUME bridges' = <<>>, holes' = <<>>, gexf' = <<>>, neo4j' = <<>>
  PROVE  Reports'
  BY DEF Reports, BridgesCountEnds, SharesAreShares, ColoursTellCommunities, ImportIsComplete

LEMMA ReportsFrozen ==
  ASSUME Reports, UNCHANGED <<interactions, result, stored, bridges, holes, gexf, neo4j>>
  PROVE  Reports'
<1>. Nodes' = Nodes
  BY DEF Nodes
<1>1. BridgesCountEnds'
  BY DEF Reports, BridgesCountEnds
<1>2. SharesAreShares'
  BY DEF Reports, SharesAreShares
<1>3. ColoursTellCommunities'
  BY DEF Reports, ColoursTellCommunities
<1>4. ImportIsComplete'
  BY DEF Reports, ImportIsComplete, MembersIn
<1>. QED  BY <1>1, <1>2, <1>3, <1>4 DEF Reports

LEMMA BridgesStep ==
  ASSUME Answered, DetectBridges
  PROVE  BridgesCountEnds'
<1>. PICK new \in SUBSET Arrivals :
       stored' = Grown(new) /\ bridges' = <<Rows(Grown(new), result[1].membership)>>
  BY DEF DetectBridges
<1>1. /\ result # <<>> /\ Nodes' = Nodes /\ result' = result
  BY DEF DetectBridges, Nodes, vars
<1>2. stored' = Grown(new) /\ bridges'[1] = Rows(Grown(new), Numbers) /\ result'[1].membership = Numbers
  BY <1>1 DEF Numbers
<1>3. CountsEnds(bridges'[1], stored', result'[1].membership)
  BY <1>1, <1>2, RowsCountEnds
<1>. HIDE DEF DetectBridges
<1>. QED  BY <1>1, <1>3 DEF BridgesCountEnds, CountsEnds

LEMMA HolesStep ==
  ASSUME Answered, StructuralHoles
  PROVE  SharesAreShares'
<1>1. holes'[1] = [a \in {b \in Nodes : Cardinality(Neighbours(b)) >= 2} |->
                     [n \in Neighbours(a) |-> Share(a, n)]]
  BY DEF StructuralHoles
<1>. QED  BY <1>1, ShareIsAShare DEF SharesAreShares, Answered

LEMMA GephiStep ==
  ASSUME Answered, ExportGephi
  PROVE  ColoursTellCommunities'
<1>. DEFINE nodes ==
       [a \in Nodes |-> [community |-> CommunityOf(a),
                         colour |-> Hue(CommunityOf(a) % Colours, Colours)]]
<1>1. result # <<>> /\ result' = result /\ gexf' = <<nodes>>
  BY DEF ExportGephi, vars
<1>2. gexf'[1] = nodes /\ DOMAIN nodes = Nodes
  BY <1>1
<1>3. result'[1].membership = Numbers /\ result'[1].communities = Communities
  BY <1>1 DEF Numbers, Communities
<1>4. Len(Communities) <= 6 =>
        \A a, b \in Nodes : nodes[a].colour = nodes[b].colour <=> Numbers[a] = Numbers[b]
  BY <1>1, GephiColours
<1>. HIDE DEF nodes
<1>. QED  BY <1>2, <1>3, <1>4 DEF ColoursTellCommunities

LEMMA Neo4jStep ==
  ASSUME Answered, ExportNeo4j
  PROVE  ImportIsComplete'
<1>1. result # <<>> /\ Nodes' = Nodes /\ neo4j'[1] = Imported
  BY DEF ExportNeo4j, Imported, vars, Nodes
<1>. QED  BY <1>1, ImportFacts DEF ImportIsComplete, MembersIn

LEMMA ReportsNextStep ==
  Answered /\ Reports /\ [ReportsNext]_<<vars, reportVars>> => Reports'
<1>. SUFFICES ASSUME Answered, Reports, [ReportsNext]_<<vars, reportVars>> PROVE Reports'
  OBVIOUS
<1>1. CASE UNCHANGED <<vars, reportVars>>
  BY <1>1, ReportsFrozen DEF vars, reportVars, bridgeVars, exportVars
<1>2. CASE NoReport /\ Next /\ UNCHANGED reportVars
  BY <1>2, ReportsBeforeAny DEF NoReport, reportVars, bridgeVars, exportVars
<1>3. CASE NoReport /\ DetectBridges /\ UNCHANGED exportVars
  <2>1. holes' = <<>> /\ gexf' = <<>> /\ neo4j' = <<>>
    BY <1>3 DEF NoReport, DetectBridges, exportVars
  <2>. QED  BY <1>3, <2>1, BridgesStep
            DEF Reports, SharesAreShares, ColoursTellCommunities, ImportIsComplete
<1>4. CASE NoReport /\ StructuralHoles /\ UNCHANGED exportVars
  <2>1. bridges' = <<>> /\ gexf' = <<>> /\ neo4j' = <<>>
    BY <1>4 DEF NoReport, StructuralHoles, exportVars
  <2>. QED  BY <1>4, <2>1, HolesStep
            DEF Reports, BridgesCountEnds, ColoursTellCommunities, ImportIsComplete
<1>5. CASE NoReport /\ ExportGephi /\ UNCHANGED bridgeVars
  <2>1. bridges' = <<>> /\ holes' = <<>> /\ neo4j' = <<>>
    BY <1>5 DEF NoReport, ExportGephi, bridgeVars
  <2>. QED  BY <1>5, <2>1, GephiStep
            DEF Reports, BridgesCountEnds, SharesAreShares, ImportIsComplete
<1>6. CASE NoReport /\ ExportNeo4j /\ UNCHANGED bridgeVars
  <2>1. bridges' = <<>> /\ holes' = <<>> /\ gexf' = <<>>
    BY <1>6 DEF NoReport, ExportNeo4j, bridgeVars
  <2>. QED  BY <1>6, <2>1, Neo4jStep
            DEF Reports, BridgesCountEnds, SharesAreShares, ColoursTellCommunities
<1>. QED  BY <1>1, <1>2, <1>3, <1>4, <1>5, <1>6 DEF ReportsNext

LEMMA ReportsAlways == ReportsSpec => []Reports
  BY ReportsStart, ReportsNextStep, AnsweredAlways, PTL DEF ReportsSpec

(***************************************************************************)
(* DetectBridges counts both ends of every interaction between actors of   *)
(* known communities, and no others, however far the store has grown; an   *)
(* actor reaches over exactly if it has an external edge.                  *)
(***************************************************************************)
THEOREM BothEndsAreCounted == ReportsSpec => []BridgesCountEnds
<1>1. Reports => BridgesCountEnds
  BY DEF Reports
<1>. QED  BY <1>1, ReportsAlways, PTL

(***************************************************************************)
(* In StructuralHoles nobody takes up more than an actor's whole           *)
(* attention, with whatever weights.                                       *)
(***************************************************************************)
THEOREM SharesNeverExceedOne == ReportsSpec => []SharesAreShares
<1>1. Reports => SharesAreShares
  BY DEF Reports
<1>. QED  BY <1>1, ReportsAlways, PTL

(***************************************************************************)
(* As long as there are at most six communities, nodes of the Gephi export *)
(* have one colour exactly if their actors are in one community.           *)
(***************************************************************************)
THEOREM SixCommunitiesSixColours == ReportsSpec => []ColoursTellCommunities
<1>1. Reports => ColoursTellCommunities
  BY DEF Reports
<1>. QED  BY <1>1, ReportsAlways, PTL

(***************************************************************************)
(* After a Neo4j import every actor belongs to exactly one community node, *)
(* and the sizes at the nodes are those of the groups that belong to them, *)
(* up to a swap of the nodes.                                              *)
(***************************************************************************)
THEOREM ImportsAreComplete == ReportsSpec => []ImportIsComplete
<1>1. Reports => ImportIsComplete
  BY DEF Reports
<1>. QED  BY <1>1, ReportsAlways, PTL
=============================================================================
