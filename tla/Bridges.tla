------------------------------ MODULE Bridges ------------------------------
(***************************************************************************)
(* analysis/bridges.go: DetectBridges, which takes the communities found   *)
(* before and asks the store once more, and StructuralHoles.  Between the  *)
(* two queries other goroutines may have stored interactions, of actors no *)
(* community knows among them.                                             *)
(*                                                                         *)
(* Every interaction weighs one here, so that the summed weights of a pair *)
(* are also the number of its interactions.                                *)
(***************************************************************************)
EXTENDS Community

CONSTANT Arrivals  \* pairs of which one more interaction may be stored

ASSUME ArrivalsAssumption == Arrivals \subseteq Actor \X Actor
\* A pair is only there because of its interactions.
ASSUME CountsAssumption == \A g \in Graphs : \A p \in DOMAIN g : g[p] > 0

VARIABLES
  stored,   \* pair -> interactions the second query returned
  bridges,  \* <<>>, or <<actor -> [community, internal, external, connected]>>
  holes     \* <<>>, or <<actor -> neighbour -> its share [num, den]>>

bridgeVars == <<stored, bridges, holes>>

NoPairs == [p \in {} |-> 0]
BridgesInit == stored = NoPairs /\ bridges = <<>> /\ holes = <<>>

Grown(new) ==
  [p \in DOMAIN interactions \cup new |->
     (IF p \in DOMAIN interactions THEN interactions[p] ELSE 0) + (IF p \in new THEN 1 ELSE 0)]
-----------------------------------------------------------------------------
\* Fault: an edge between two communities counts for its sender only.
EndsAtSender(f, a, S) == SumOf(f, {p \in S : p[1] = a})

\* What the pairs in S add to a; an interaction with oneself counts twice.
EndsAt(f, a, S) == SumOf(f, {p \in S : p[1] = a}) + SumOf(f, {p \in S : p[2] = a})

\* Interactions of actors without a community are passed over, actors
\* without a countable interaction are not listed.
Rows(f, m) ==
  LET covered == {p \in DOMAIN f : {p[1], p[2]} \subseteq DOMAIN m}
      inside == {p \in covered : m[p[1]] = m[p[2]]}
      across == covered \ inside
      met(a) == {p \in covered : a \in {p[1], p[2]}}
  IN  [a \in {b \in DOMAIN m : EndsAt(f, b, inside) + EndsAt(f, b, across) > 0} |->
         [community |-> m[a],
          internal |-> EndsAt(f, a, inside),
          external |-> EndsAt(f, a, across),
          connected |-> {m[p[1]] : p \in met(a)} \cup {m[p[2]] : p \in met(a)}]]

DetectBridges ==
  /\ result # <<>>
  /\ \E new \in SUBSET Arrivals :
       /\ stored' = Grown(new)
       /\ bridges' = <<Rows(Grown(new), result[1].membership)>>
  /\ UNCHANGED <<vars, holes>>
-----------------------------------------------------------------------------
\* Fault: the weights of the actor itself are left out of a neighbour's total.
TotalOfOthers(a) == SumOf([b \in Nodes |-> Weight(a, b)], Nodes \ {a})

TotalOf(a) == SumOf([b \in Nodes |-> Weight(a, b)], Neighbours(a))

\* p + indirect: what part of a's attention n takes up, by itself and
\* through the other neighbours of a it is in touch with.
Share(a, n) ==
  LET through(m) == Weight(a, m) * Weight(n, m)
      mutual == {m \in Neighbours(a) \ {n} : Weight(n, m) > 0}
  IN  [num |-> Weight(a, n) * TotalOf(n) + SumOf([m \in mutual |-> through(m)], mutual),
       den |-> TotalOf(a) * TotalOf(n)]

\* The constraint of an actor is the sum of the squares of these shares, its
\* score the inverse; actors with a single neighbour have none.
StructuralHoles ==
  /\ holes' = <<[a \in {b \in Nodes : Cardinality(Neighbours(b)) >= 2} |->
                   [n \in Neighbours(a) |-> Share(a, n)]]>>
  /\ UNCHANGED <<vars, stored, bridges>>
-----------------------------------------------------------------------------
(***************************************************************************)
(* Both ends of every interaction between actors of known communities are  *)
(* counted, and no others, though the store has grown since the            *)
(* communities were found; an actor reaches over to another community      *)
(* exactly if it has an external edge (analysis/bridges.go:58-89).         *)
(***************************************************************************)
BridgesCountEnds ==
  bridges # <<>> =>
    LET rows == bridges[1]
        m == result[1].membership
        covered == {p \in DOMAIN stored : {p[1], p[2]} \subseteq Nodes}
        across == {p \in covered : m[p[1]] # m[p[2]]}
    IN  /\ SumOf([a \in DOMAIN rows |-> rows[a].internal + rows[a].external], DOMAIN rows)
             = 2 * SumOf(stored, covered)
        /\ SumOf([a \in DOMAIN rows |-> rows[a].external], DOMAIN rows)
             = 2 * SumOf(stored, across)
        /\ \A a \in DOMAIN rows :
             /\ rows[a].community \in rows[a].connected
             /\ Cardinality(rows[a].connected) > 1 <=> rows[a].external > 0
             /\ Cardinality(rows[a].connected) <= 1 + rows[a].external
        /\ DOMAIN rows = Nodes

(***************************************************************************)
(* Nobody takes up more than the whole attention of an actor, directly and *)
(* through others together; so a constraint is positive and at most the    *)
(* number of neighbours, also where actors write to themselves             *)
(* (analysis/bridges.go:163-186).                                          *)
(***************************************************************************)
SharesAreShares ==
  holes # <<>> =>
    \A a \in DOMAIN holes[1] :
      \A n \in DOMAIN holes[1][a] :
        LET s == holes[1][a][n] IN 0 < s.num /\ s.num <= s.den
=============================================================================
