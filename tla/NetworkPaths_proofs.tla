------------------------- MODULE NetworkPaths_proofs -------------------------
(***************************************************************************)
(* Machine-checked facts about NetworkPaths: what the searches return, for *)
(* every graph and every order in which neighbours are met.                *)
(***************************************************************************)
EXTENDS NetworkPaths, DataLemmas, SequenceTheorems

(***************************************************************************)
(* The parts of the invariant.                                             *)
(***************************************************************************)
\* Every actor on the queue was found by somebody taken off it.
Typed ==
  /\ interactions \in Graphs
  /\ job \in Job
  /\ DOMAIN depth \subseteq Actor
  /\ \A a \in DOMAIN depth : depth[a] \in Nat /\ depth[a] < Cardinality(DOMAIN depth)
  /\ queue \in Seq(DOMAIN depth) /\ Len(queue) <= Cardinality(DOMAIN depth)
  /\ DOMAIN parent \subseteq DOMAIN depth
  /\ components \subseteq SUBSET Actor
  /\ sampled \subseteq Nodes
  /\ status \in {"running", "nil", "done"}
  /\ longest \in 0..Cardinality(Actor)
  /\ lengths \in [total : Nat, count : Nat]
  /\ walk \in Seq(Actor) /\ untried \in Seq(SUBSET Actor)
  /\ Len(untried) = Len(walk) /\ marked \subseteq Actor

\* Actors whose neighbours have been looked at.
Expanded == DOMAIN depth \ ToSet(queue)

\* The numbers kept are distances from r.
DistancesFrom(r) ==
  /\ r \in DOMAIN depth /\ depth[r] = 0
  /\ \A a \in DOMAIN depth :
       /\ a \in Within(r, depth[a])
       /\ depth[a] = 0 \/ a \notin Within(r, depth[a] - 1)

SingleSource == job.kind \in {"shortest", "ego", "diameter", "average"}

\* The queue is sorted by distance and covers two levels at most.
Levels ==
  SingleSource =>
    /\ \A i, j \in 1..Len(queue) : i <= j => depth[queue[i]] <= depth[queue[j]]
    /\ queue # <<>> => \A a \in DOMAIN depth : depth[a] <= depth[Head(queue)] + 1
    /\ DOMAIN depth # {} => \E r \in DOMAIN depth : DistancesFrom(r)
    /\ job.kind \in {"shortest", "ego"} => DistancesFrom(job.from)
    /\ \A a \in Expanded : ~AtHorizon(a) =>
         \A b \in Actor : Linked(a, b) => b \in DOMAIN depth /\ depth[b] <= depth[a] + 1
    /\ job.kind = "ego" => \A a \in DOMAIN depth : depth[a] <= job.depth

\* ShortestPath: the parents lead back to the start, one step at a time.
Parents ==
  job.kind = "shortest" =>
    /\ DOMAIN parent = DOMAIN depth \ {job.from}
    /\ \A b \in DOMAIN parent :
         parent[b] \in DOMAIN depth /\ Linked(parent[b], b) /\ depth[b] = depth[parent[b]] + 1
    /\ job.to \notin Expanded

\* ConnectedComponents: what is visited but not in a class yet.
Class == DOMAIN depth \ UNION components

Classes ==
  job.kind = "components" =>
    /\ \A a \in Expanded : \A b \in Actor : Linked(a, b) => b \in DOMAIN depth
    /\ components \subseteq {Reachable(a) : a \in Nodes}
    /\ UNION components \subseteq DOMAIN depth
    /\ ToSet(queue) \subseteq Class
    /\ Class # {} => \E r \in Nodes \cap Class : Class \subseteq Reachable(r)

\* AllPathsUpToDepth: a path not found yet leaves the walk at a neighbour
\* that has not been tried.
Paths ==
  {p \in UNION {[1..n -> Actor] : n \in 2..Min({job.depth + 1, Cardinality(Actor)})} :
     /\ p[1] = job.from /\ p[Len(p)] = job.to /\ IsInjective(p)
     /\ \A i \in 1..(Len(p) - 1) : Linked(p[i], p[i + 1])}

LeavesAt(p, i) ==
  i < Len(p) /\ (\A j \in 1..i : p[j] = walk[j]) /\ p[i + 1] \in untried[i]

Walking ==
  job.kind = "paths" =>
    /\ IsInjective(walk) /\ marked = ToSet(walk)
    /\ walk # <<>> => walk[1] = job.from
    /\ \A i \in 1..(Len(walk) - 1) : Linked(walk[i], walk[i + 1])
    /\ \A i \in 1..Len(walk) : untried[i] \subseteq Neighbours(walk[i])
    /\ found \subseteq Paths
    /\ \A p \in Paths : p \in found \/ \E i \in 1..Len(walk) : LeavesAt(p, i)

\* GraphDiameter, AveragePathLength: the sources whose searches are over and
\* entered into the figures.
Sampling == job.kind \in {"diameter", "average"}
Entered == {s \in sampled : ~ (s \in DOMAIN depth /\ depth[s] = 0)}
PairsFrom(S) == {q \in Nodes \X Nodes : q[1] # q[2] /\ q[2] \in Reachable(q[1]) /\ q[1] \in S}
Far(S) == [q \in PairsFrom(S) |-> Distance(q[1], q[2])]

Figures ==
  Sampling =>
    /\ \A a \in DOMAIN depth : depth[a] = 0 => a \in sampled
    /\ \A q \in PairsFrom(Entered) : Distance(q[1], q[2]) <= longest
    /\ longest = 0 \/ \E q \in PairsFrom(Entered) : Distance(q[1], q[2]) = longest
    /\ lengths.total = SumOf(Far(Nodes), PairsFrom(Entered))
    /\ lengths.count = Cardinality(PairsFrom(Entered))

Answered ==
  /\ job.kind = "shortest" =>
       /\ status = "nil" => queue = <<>>
       /\ status = "done" =>
            queue # <<>> /\ Head(queue) = job.to /\ answer = <<PathTo(job.to)>>
  /\ job.kind = "ego" =>
       /\ status = "nil" => job.from \notin Nodes
       /\ status = "done" =>
            /\ queue = <<>>
            /\ answer = <<[nodes |-> DOMAIN depth,
                           edges |-> {p \in (DOMAIN depth) \X (DOMAIN depth) :
                                        p[2] \in Neighbours(p[1])}]>>
  /\ job.kind = "components" /\ status # "running" =>
       /\ queue = <<>> /\ Nodes \subseteq DOMAIN depth
       /\ answer = <<components \cup ({Class} \ {{}})>>
  /\ Sampling /\ status # "running" =>
       /\ queue = <<>>
       /\ Cardinality(Nodes) >= 2 => Cardinality(sampled) = SampleSize
       /\ answer = <<IF job.kind = "diameter" THEN [longest |-> LongestSoFar]
                     ELSE LengthsSoFar>>
  /\ job.kind = "paths" /\ status # "running" => walk = <<>> /\ answer = <<found>>

Inv == Typed /\ Levels /\ Parents /\ Classes /\ Walking /\ Figures /\ Answered
-----------------------------------------------------------------------------
(***************************************************************************)
(* Graphs: the balls around an actor.                                      *)
(***************************************************************************)
LEMMA NeighboursAreLinked ==
  ASSUME interactions \in Graphs
  PROVE  /\ Nodes \subseteq Actor
         /\ \A a, b : b \in Neighbours(a) <=> Linked(a, b)
         /\ \A a, b : Linked(a, b) => Linked(b, a) /\ a \in Nodes /\ b \in Nodes
<1>1. interactions \subseteq Actor \X Actor
  BY GraphsAssumption
<1>2. Nodes \subseteq Actor
  BY <1>1 DEF Nodes
<1>3. \A a, b : Linked(a, b) => Linked(b, a) /\ a \in Nodes /\ b \in Nodes
  BY DEF Linked, Nodes
<1>4. \A a, b : b \in Neighbours(a) <=> Linked(a, b)
  BY <1>3 DEF Neighbours, Linked
<1>. QED  BY <1>2, <1>3, <1>4

LEMMA BallStep ==
  /\ Ball[0] = [a \in Actor |-> {a}]
  /\ \A k \in Nat : Ball[k + 1] =
       [a \in Actor |-> Ball[k][a] \cup {b \in Actor : \E c \in Ball[k][a] : Linked(c, b)}]
  /\ Ball \in [Nat -> [Actor -> SUBSET Actor]]
<1>. DEFINE S == [Actor -> SUBSET Actor]
            e == [a \in Actor |-> {a}]
            Wider(h) == [a \in Actor |-> h[a] \cup {b \in Actor : \E c \in h[a] : Linked(c, b)}]
            F == [h \in S |-> Wider(h)]
            Step(g, k) == IF k = 0 THEN e ELSE Wider(g[k - 1])
<1>1. e \in S /\ F \in [S -> S]
  OBVIOUS
<1>2. \E f \in [Nat -> S] : f[0] = e /\ \A k \in Nat : f[k + 1] = F[f[k]]
  <2>. HIDE DEF S, e, F
  <2>. QED  BY <1>1, IterationExists
<1>3. PICK f \in [Nat -> S] : f[0] = e /\ \A k \in Nat : f[k + 1] = F[f[k]]
  BY <1>2
<1>4. f = [k \in Nat |-> Step(f, k)]
  <2>1. ASSUME NEW k \in Nat PROVE f[k] = Step(f, k)
    <3>1. CASE k = 0
      BY <1>3, <3>1
    <3>2. CASE k # 0
      <4>1. k - 1 \in Nat /\ (k - 1) + 1 = k
        BY <3>2
      <4>2. f[k - 1] \in S /\ f[k] = F[f[k - 1]]
        BY <1>3, <4>1
      <4>3. F[f[k - 1]] = Wider(f[k - 1])
        <5>. HIDE DEF Wider, S
        <5>. QED  BY <4>2
      <4>. QED  BY <3>2, <4>2, <4>3
    <3>. QED  BY <3>1, <3>2
  <2>. HIDE DEF Step
  <2>. QED  BY <2>1
<1>5. Ball = CHOOSE g : g = [k \in Nat |-> Step(g, k)]
  BY DEF Ball
<1>6. Ball = [k \in Nat |-> Step(Ball, k)]
  <2>. HIDE DEF Step
  <2>. QED  BY <1>4, <1>5
<1>7. \A k \in Nat : Ball[k] = Step(Ball, k)
  <2>. HIDE DEF Step
  <2>. QED  BY <1>6
<1>8. Ball[0] = e
  BY <1>7
<1>9. ASSUME NEW k \in Nat PROVE Ball[k + 1] = Wider(Ball[k])
  <2>1. k + 1 \in Nat /\ k + 1 # 0 /\ (k + 1) - 1 = k
    OBVIOUS
  <2>2. Ball[k + 1] = Step(Ball, k + 1)
    BY <1>7, <2>1
  <2>. HIDE DEF Wider
  <2>. QED  BY <2>1, <2>2
<1>10. Ball \in [Nat -> S]
  <2>. DEFINE T == {k \in Nat : Ball[k] \in S}
  <2>1. 0 \in T
    BY <1>1, <1>8
  <2>2. ASSUME NEW k \in Nat, k \in T PROVE k + 1 \in T
    <3>1. Ball[k] \in S
      BY <2>2
    <3>2. Wider(Ball[k]) \in S
      BY <3>1
    <3>. HIDE DEF Wider
    <3>. QED  BY <1>9, <3>2
  <2>3. Nat \subseteq T
    <3>. HIDE DEF T
    <3>. QED  BY <2>1, <2>2, NatSetInduction
  <2>4. DOMAIN Ball = Nat
    BY <1>6
  <2>5. Ball = [k \in Nat |-> Ball[k]]
    <3>. HIDE DEF Step
    <3>. QED  BY <1>6
  <2>. HIDE DEF S
  <2>. QED  BY <2>3, <2>5
<1>. QED  BY <1>8, <1>9, <1>10

LEMMA WithinStep ==
  ASSUME NEW a \in Actor
  PROVE  /\ Within(a, 0) = {a}
         /\ \A k \in Nat :
              /\ Within(a, k) \subseteq Actor
              /\ Within(a, k + 1) = Within(a, k) \cup {b \in Actor : \E c \in Within(a, k) : Linked(c, b)}
<1>1. Ball[0][a] = {a}
  BY BallStep
<1>2. \A k \in Nat :
        /\ Ball[k][a] \subseteq Actor
        /\ Ball[k + 1][a] = Ball[k][a] \cup {b \in Actor : \E c \in Ball[k][a] : Linked(c, b)}
  BY BallStep
<1>. QED  BY <1>1, <1>2 DEF Within

LEMMA WithinGrows ==
  ASSUME NEW a \in Actor, NEW i \in Nat
  PROVE  \A j \in Nat : i <= j => Within(a, i) \subseteq Within(a, j)
<1>. DEFINE T == {j \in Nat : i <= j => Within(a, i) \subseteq Within(a, j)}
<1>1. 0 \in T
  <2>1. i <= 0 => i = 0
    OBVIOUS
  <2>. QED  BY <2>1
<1>2. ASSUME NEW j \in Nat, j \in T PROVE j + 1 \in T
  <2>1. SUFFICES ASSUME i <= j + 1 PROVE Within(a, i) \subseteq Within(a, j + 1)
    OBVIOUS
  <2>2. CASE i = j + 1
    BY <2>2
  <2>3. CASE i <= j
    <3>1. Within(a, i) \subseteq Within(a, j)
      BY <1>2, <2>3
    <3>. QED  BY <3>1, WithinStep
  <2>. QED  BY <2>1, <2>2, <2>3
<1>3. Nat \subseteq T
  <2>. HIDE DEF T
  <2>. QED  BY <1>1, <1>2, NatSetInduction
<1>. QED  BY <1>3

Closed(C) == \A x \in C : \A y \in Actor : Linked(x, y) => y \in C

LEMMA WithinClosed ==
  ASSUME NEW a \in Actor, NEW C, a \in C, Closed(C)
  PROVE  \A k \in Nat : Within(a, k) \subseteq C
<1>. DEFINE T == {k \in Nat : Within(a, k) \subseteq C}
<1>1. 0 \in T
  BY WithinStep
<1>2. ASSUME NEW k \in Nat, k \in T PROVE k + 1 \in T
  <2>1. Within(a, k) \subseteq C
    BY <1>2
  <2>2. Within(a, k + 1) = Within(a, k) \cup {b \in Actor : \E c \in Within(a, k) : Linked(c, b)}
    BY WithinStep
  <2>. QED  BY <2>1, <2>2 DEF Closed
<1>3. Nat \subseteq T
  <2>. HIDE DEF T
  <2>. QED  BY <1>1, <1>2, NatSetInduction
<1>. QED  BY <1>3

(***************************************************************************)
(* A ball that does not grow is closed; and it cannot grow more often than *)
(* there are actors.                                                       *)
(***************************************************************************)
LEMMA SettledIsClosed ==
  ASSUME NEW a \in Actor, NEW j \in Nat, Within(a, j + 1) = Within(a, j)
  PROVE  Closed(Within(a, j))
<1>1. Within(a, j + 1) = Within(a, j) \cup {b \in Actor : \E c \in Within(a, j) : Linked(c, b)}
  BY WithinStep
<1>. QED  BY <1>1 DEF Closed

LEMMA BallsSettle ==
  ASSUME NEW a \in Actor
  PROVE  \E j \in 0..Cardinality(Actor) : Within(a, j + 1) = Within(a, j)
<1>. DEFINE n == Cardinality(Actor)
<1>0. IsFiniteSet(Actor) /\ n \in Nat
  BY ActorAssumption, FS_CardinalityType
<1>1. SUFFICES ASSUME \A j \in 0..n : Within(a, j + 1) # Within(a, j) PROVE FALSE
  OBVIOUS
<1>2. \A k \in Nat : IsFiniteSet(Within(a, k)) /\ Cardinality(Within(a, k)) \in Nat
                     /\ Cardinality(Within(a, k)) <= n
  <2>. TAKE k \in Nat
  <2>1. Within(a, k) \in SUBSET Actor
    BY WithinStep
  <2>. QED  BY <1>0, <2>1, FS_Subset, FS_CardinalityType
<1>. DEFINE T == {k \in Nat : k <= n + 1 => Cardinality(Within(a, k)) > k}
<1>3. 0 \in T
  <2>1. Within(a, 0) = {a}
    BY WithinStep
  <2>2. Cardinality(Within(a, 0)) = 1
    BY <2>1, FS_Singleton
  <2>. QED  BY <2>2
<1>4. ASSUME NEW k \in Nat, k \in T PROVE k + 1 \in T
  <2>1. SUFFICES ASSUME k + 1 <= n + 1 PROVE Cardinality(Within(a, k + 1)) > k + 1
    OBVIOUS
  <2>. DEFINE c == Cardinality(Within(a, k))
              d == Cardinality(Within(a, k + 1))
  <2>2. c > k
    BY <1>0, <1>4, <2>1
  <2>3. Within(a, k) \subseteq Within(a, k + 1)
    BY WithinStep
  <2>4. Within(a, k) # Within(a, k + 1)
    BY <1>0, <1>1, <2>1
  <2>5. c \in Nat /\ d \in Nat /\ c <= d /\ c # d
    BY <1>2, <2>3, <2>4, FS_Subset
  <2>. HIDE DEF c, d
  <2>6. d > k + 1
    BY <2>2, <2>5
  <2>. QED  BY <2>6 DEF d
<1>5. n + 1 \in T
  <2>. HIDE DEF T
  <2>. QED  BY <1>0, <1>3, <1>4, NatSetInduction
<1>6. Cardinality(Within(a, n + 1)) > n + 1
  BY <1>0, <1>5
<1>. QED  BY <1>0, <1>2, <1>6

LEMMA ReachableIsAll ==
  ASSUME NEW a \in Actor
  PROVE  /\ Reachable(a) \subseteq Actor /\ a \in Reachable(a)
         /\ Closed(Reachable(a))
         /\ \A k \in Nat : Within(a, k) \subseteq Reachable(a)
         /\ \A C : a \in C /\ Closed(C) => Reachable(a) \subseteq C
<1>. DEFINE n == Cardinality(Actor)
<1>0. n \in Nat
  BY ActorAssumption, FS_CardinalityType
<1>1. PICK j \in 0..n : Within(a, j + 1) = Within(a, j)
  BY BallsSettle
<1>2. j \in Nat /\ j <= n
  BY <1>0
<1>3. Closed(Within(a, j))
  BY <1>1, <1>2, SettledIsClosed
<1>4. \A k \in Nat : a \in Within(a, k)
  <2>1. a \in Within(a, 0)
    BY WithinStep
  <2>. QED  BY <2>1, WithinGrows
<1>5. \A k \in Nat : Within(a, k) \subseteq Within(a, j)
  BY <1>2, <1>3, <1>4, WithinClosed
<1>6. Within(a, n) = Within(a, j)
  <2>1. Within(a, n) \subseteq Within(a, j)
    BY <1>0, <1>5
  <2>2. Within(a, j) \subseteq Within(a, n)
    BY <1>0, <1>2, WithinGrows
  <2>. QED  BY <2>1, <2>2
<1>7. Reachable(a) = Within(a, j)
  BY <1>6 DEF Reachable
<1>8. Reachable(a) \subseteq Actor
  BY <1>2, <1>7, WithinStep
<1>9. \A C : a \in C /\ Closed(C) => Reachable(a) \subseteq C
  BY <1>2, <1>7, WithinClosed
<1>. QED  BY <1>2, <1>3, <1>4, <1>5, <1>7, <1>8, <1>9

LEMMA ReachableIsMutual ==
  ASSUME interactions \in Graphs, NEW a \in Actor, NEW b \in Reachable(a)
  PROVE  a \in Reachable(b) /\ Reachable(b) = Reachable(a)
<1>1. \A x \in Actor : \A y \in Reachable(x) : y \in Actor /\ Reachable(y) \subseteq Reachable(x)
  BY ReachableIsAll
<1>. DEFINE C == {x \in Actor : a \in Reachable(x)}
<1>2. a \in C
  BY ReachableIsAll
<1>3. Closed(C)
  <2>1. SUFFICES ASSUME NEW x \in C, NEW y \in Actor, Linked(x, y) PROVE y \in C
    BY DEF Closed
  <2>2. Linked(y, x)
    BY <2>1, NeighboursAreLinked
  <2>3. x \in Reachable(y)
    <3>1. y \in Reachable(y) /\ Closed(Reachable(y))
      BY ReachableIsAll
    <3>. QED  BY <2>2, <3>1 DEF Closed
  <2>. QED  BY <1>1, <2>3
<1>4. b \in C
  <2>. HIDE DEF C
  <2>. QED  BY <1>2, <1>3, ReachableIsAll
<1>. QED  BY <1>1, <1>4

LEMMA DistanceIs ==
  ASSUME NEW a \in Actor, NEW b, NEW k \in 0..Cardinality(Actor), b \in Within(a, k),
         k = 0 \/ b \notin Within(a, k - 1)
  PROVE  Distance(a, b) = k
<1>. DEFINE n == Cardinality(Actor)
            Exact(i) == b \in Within(a, i) /\ (i = 0 \/ b \notin Within(a, i - 1))
<1>0. n \in Nat
  BY ActorAssumption, FS_CardinalityType
<1>1. ASSUME NEW i \in 0..n, NEW j \in 0..n, i < j, Exact(i), Exact(j) PROVE FALSE
  <2>1. i \in Nat /\ j - 1 \in Nat /\ i <= j - 1
    BY <1>0, <1>1
  <2>. QED  BY <1>1, <2>1, WithinGrows
<1>2. Exact(k) /\ k \in 0..n
  OBVIOUS
<1>3. Distance(a, b) = CHOOSE i \in 0..n : Exact(i)
  BY DEF Distance
<1>. HIDE DEF n, Exact
<1>4. ASSUME NEW i \in 0..n, Exact(i) PROVE i = k
  <2>1. i < k \/ k < i \/ i = k
    BY <1>0, <1>2
  <2>. QED  BY <1>1, <1>2, <1>4, <2>1
<1>. QED  BY <1>2, <1>3, <1>4
-----------------------------------------------------------------------------
(***************************************************************************)
(* Questions, and what a step that keeps the graph keeps.                  *)
(***************************************************************************)
LEMMA JobFields ==
  ASSUME job \in Job
  PROVE  /\ job.kind \in {"shortest", "ego", "components", "diameter", "average", "paths"}
         /\ job.kind \in {"shortest", "ego", "paths"} => job.from \in Actor
         /\ job.kind \in {"shortest", "paths"} => job.to \in Actor
         /\ job.kind \in {"ego", "paths"} => job.depth \in Nat
         /\ Sampling => job.sample \in 0..Cardinality(Actor)
<1>1. CASE job \in [kind : {"shortest"}, from : Actor, to : Actor]
  BY <1>1 DEF Sampling
<1>2. CASE job \in [kind : {"ego"}, from : Actor, depth : Depths]
  BY <1>2, DepthsAssumption DEF Sampling
<1>3. CASE job \in [kind : {"components"}]
  BY <1>3 DEF Sampling
<1>4. CASE job \in [kind : {"diameter", "average"}, sample : 0..Cardinality(Actor)]
  BY <1>4 DEF Sampling
<1>5. CASE job \in {[kind |-> "paths", from |-> e[1], to |-> e[2], depth |-> d] : e \in Ends, d \in Depths}
  <2>1. PICK e \in Ends, d \in Depths : job = [kind |-> "paths", from |-> e[1], to |-> e[2], depth |-> d]
    BY <1>5
  <2>2. e[1] \in Actor /\ e[2] \in Actor /\ d \in Nat
    BY DepthsAssumption
  <2>. QED  BY <2>1, <2>2 DEF Sampling
<1>. QED  BY <1>1, <1>2, <1>3, <1>4, <1>5 DEF Job

LEMMA SameGraph ==
  ASSUME interactions' = interactions
  PROVE  /\ Nodes' = Nodes
         /\ \A a : Neighbours(a)' = Neighbours(a)
         /\ \A a, b : Linked(a, b)' <=> Linked(a, b)
         /\ Ball' = Ball
         /\ \A a, k : Within(a, k)' = Within(a, k)
         /\ \A a : Reachable(a)' = Reachable(a)
         /\ \A a, b : Distance(a, b)' = Distance(a, b)
<1>1. Nodes' = Nodes
  BY DEF Nodes
<1>2. \A a : Neighbours(a)' = Neighbours(a)
  BY <1>1 DEF Neighbours
<1>3. \A a, b : Linked(a, b)' <=> Linked(a, b)
  BY DEF Linked
<1>4. Ball' = Ball
  BY DEF Ball, Linked
<1>5. \A a, k : Within(a, k)' = Within(a, k)
  BY <1>4 DEF Within
<1>6. \A a : Reachable(a)' = Reachable(a)
  BY <1>5 DEF Reachable
<1>7. \A a, b : Distance(a, b)' = Distance(a, b)
  BY <1>5 DEF Distance
<1>. QED  BY <1>1, <1>2, <1>3, <1>4, <1>5, <1>6, <1>7

\* Who may be counted.
LEMMA FiniteActors ==
  /\ IsFiniteSet(Actor) /\ Cardinality(Actor) \in Nat
  /\ \A S : S \subseteq Actor =>
       /\ IsFiniteSet(S) /\ Cardinality(S) \in Nat /\ Cardinality(S) <= Cardinality(Actor)
<1>1. IsFiniteSet(Actor) /\ Cardinality(Actor) \in Nat
  BY ActorAssumption, FS_CardinalityType
<1>. QED  BY <1>1, FS_Subset, FS_CardinalityType

(***************************************************************************)
(* What Expand does, in the words of its parts.                            *)
(***************************************************************************)
Fresh == IF AtHorizon(Current) THEN {} ELSE Unseen(Current)

LEMMA WhatExpandDoes ==
  ASSUME Typed, Expand
  PROVE  /\ queue # <<>> /\ Current \in DOMAIN depth /\ ~IsTarget(Current)
         /\ Tail(queue) \in Seq(DOMAIN depth) /\ Len(Tail(queue)) = Len(queue) - 1
         /\ ToSet(queue) = {Current} \cup ToSet(Tail(queue))
         /\ Fresh \subseteq Actor /\ Fresh \cap DOMAIN depth = {}
         /\ DOMAIN depth' = DOMAIN depth \cup Fresh
         /\ \A b \in DOMAIN depth : depth'[b] = depth[b]
         /\ \A b \in Fresh : depth'[b] = depth[Current] + 1
         /\ DOMAIN parent' = DOMAIN parent \cup Fresh
         /\ \A b \in Fresh : parent'[b] = Current
         /\ \A b \in DOMAIN parent \ Fresh : parent'[b] = parent[b]
         /\ \E order \in Seq(Fresh) :
              /\ Len(order) = Cardinality(Fresh) /\ ToSet(order) = Fresh
              /\ queue' = Tail(queue) \o order
<1>1. queue # <<>> /\ ~IsTarget(Current)
  BY DEF Expand
<1>2. /\ Current \in DOMAIN depth /\ Tail(queue) \in Seq(DOMAIN depth)
      /\ Len(Tail(queue)) = Len(queue) - 1 /\ ToSet(queue) = {Current} \cup ToSet(Tail(queue))
  BY <1>1, ElementsOfTail DEF Typed, Current
<1>3. Fresh \subseteq Actor /\ Fresh \cap DOMAIN depth = {}
  BY NeighboursAreLinked DEF Fresh, Unseen, Neighbours, Typed
<1>4. Reach(Current, Fresh) /\ \E order \in Orders(Fresh) : queue' = Tail(queue) \o order
  BY DEF Expand, Fresh
<1>. HIDE DEF Fresh
<1>5. /\ DOMAIN depth' = DOMAIN depth \cup Fresh
      /\ \A b \in DOMAIN depth : depth'[b] = depth[b]
      /\ \A b \in Fresh : depth'[b] = depth[Current] + 1
  BY <1>3, <1>4 DEF Reach
<1>6. /\ DOMAIN parent' = DOMAIN parent \cup Fresh
      /\ \A b \in Fresh : parent'[b] = Current
      /\ \A b \in DOMAIN parent \ Fresh : parent'[b] = parent[b]
  BY <1>4 DEF Reach
<1>7. PICK order \in Orders(Fresh) : queue' = Tail(queue) \o order
  BY <1>4
<1>8. order \in [1..Cardinality(Fresh) -> Fresh] /\ ToSet(order) = Fresh
  BY DEF Orders
<1>9. Cardinality(Fresh) \in Nat
  BY <1>3, FiniteActors
<1>10. order \in Seq(Fresh) /\ Len(order) = Cardinality(Fresh)
  BY <1>8, <1>9
<1>. QED  BY <1>1, <1>2, <1>3, <1>5, <1>6, <1>7, <1>8, <1>10

LEMMA WhatIsQueued ==
  ASSUME Typed, Expand
  PROVE  /\ ToSet(queue') = ToSet(Tail(queue)) \cup Fresh
         /\ Expanded' \subseteq Expanded \cup {Current}
<1>. DEFINE D == DOMAIN depth
            t == Tail(queue)
<1>1. PICK order \in Seq(Fresh) : ToSet(order) = Fresh /\ queue' = t \o order
  BY WhatExpandDoes
<1>2. t \in Seq(D) /\ DOMAIN depth' = D \cup Fresh /\ ToSet(queue) = {Current} \cup ToSet(t)
  BY WhatExpandDoes
<1>. HIDE DEF t, D, Fresh
<1>3. t \in Seq(D \cup Fresh) /\ order \in Seq(D \cup Fresh)
  BY <1>2
<1>4. ToSet(t \o order) = ToSet(t) \cup ToSet(order)
  BY <1>3, ElementsOfConcat
<1>5. ToSet(queue') = ToSet(t) \cup Fresh
  BY <1>1, <1>4
<1>6. Expanded' \subseteq Expanded \cup {Current}
  BY <1>2, <1>5 DEF Expanded, D
<1>. QED  BY <1>5, <1>6 DEF t
-----------------------------------------------------------------------------
(***************************************************************************)
(* Types.  A distance is smaller than the number of actors visited, so the *)
(* queue and the distances fit the graph.                                  *)
(***************************************************************************)
LEMMA TypedInit == ASSUME Init PROVE Typed
<1>1. /\ interactions \in Graphs /\ job \in Job /\ parent = Nowhere /\ components = {}
      /\ sampled = {} /\ longest = 0 /\ lengths = [total |-> 0, count |-> 0]
      /\ status \in {"running", "nil", "done"}
  BY DEF Init
<1>2. DOMAIN Nowhere = {} /\ \A a : DOMAIN OnlyFrom(a) = {a} /\ OnlyFrom(a)[a] = 0
  BY DEF Nowhere, OnlyFrom
<1>3. /\ queue \in Seq(DOMAIN depth) /\ Len(queue) <= Cardinality(DOMAIN depth)
      /\ DOMAIN depth \subseteq Actor
      /\ \A a \in DOMAIN depth : depth[a] \in Nat /\ depth[a] < Cardinality(DOMAIN depth)
  <2>1. CASE job.kind \in {"shortest", "ego"}
    <3>1. queue = <<job.from>> /\ depth = OnlyFrom(job.from) /\ job.from \in Actor
      BY <1>1, <2>1, JobFields DEF Init
    <3>2. DOMAIN depth = {job.from} /\ Cardinality({job.from}) = 1 /\ depth[job.from] = 0
      BY <1>2, <3>1, FS_Singleton
    <3>3. <<job.from>> \in Seq({job.from}) /\ Len(<<job.from>>) = 1
      OBVIOUS
    <3>. QED  BY <3>1, <3>2, <3>3
  <2>2. CASE job.kind \notin {"shortest", "ego"}
    <3>1. queue = <<>> /\ depth = Nowhere
      BY <2>2 DEF Init
    <3>2. DOMAIN depth = {} /\ Cardinality({}) = 0 /\ <<>> \in Seq({}) /\ Len(<<>>) = 0
      BY <1>2, <3>1, FS_EmptySet
    <3>. QED  BY <3>1, <3>2
  <2>. QED  BY <2>1, <2>2
<1>4. walk \in Seq(Actor) /\ untried \in Seq(SUBSET Actor) /\ Len(untried) = Len(walk)
      /\ marked \subseteq Actor
  <2>1. CASE job.kind = "paths"
    <3>1. /\ walk = <<job.from>> /\ untried = <<Neighbours(job.from)>> /\ marked = {job.from}
          /\ job.from \in Actor /\ Neighbours(job.from) \subseteq Actor
      BY <1>1, <2>1, JobFields, NeighboursAreLinked DEF Init, Neighbours
    <3>. QED  BY <3>1
  <2>2. CASE job.kind # "paths"
    BY <2>2 DEF Init
  <2>. QED  BY <2>1, <2>2
<1>. QED  BY <1>1, <1>2, <1>3, <1>4, FiniteActors DEF Typed

LEMMA LongestIsLargest ==
  ASSUME Typed
  PROVE  /\ LongestSoFar \in {longest} \cup {depth[a] : a \in DOMAIN depth}
         /\ \A a \in DOMAIN depth : LongestSoFar >= depth[a] /\ LongestSoFar >= longest
         /\ LongestSoFar \in 0..Cardinality(Actor)
         /\ DOMAIN depth # {} => LongestSoFar >= longest
<1>. DEFINE S == {longest} \cup {depth[a] : a \in DOMAIN depth}
            n == Cardinality(Actor)
<1>1. \A a \in DOMAIN depth : depth[a] \in 0..n
  <2>1. Cardinality(DOMAIN depth) \in Nat /\ Cardinality(DOMAIN depth) <= n /\ n \in Nat
    BY FiniteActors DEF Typed
  <2>. QED  BY <2>1 DEF Typed
<1>2. S \in SUBSET (0..n) /\ S # {} /\ n \in Nat
  BY <1>1, FiniteActors DEF Typed
<1>3. \E m \in S : \A k \in S : m >= k
  <2>. HIDE DEF S, n
  <2>. QED  BY <1>2, BoundedMaximum
<1>4. \E m \in S : \A a \in DOMAIN depth : m >= depth[a] /\ m >= longest
  BY <1>3
<1>5. LongestSoFar = CHOOSE m \in S : \A a \in DOMAIN depth : m >= depth[a] /\ m >= longest
  BY DEF LongestSoFar
<1>6. LongestSoFar \in S /\ \A a \in DOMAIN depth : LongestSoFar >= depth[a] /\ LongestSoFar >= longest
  <2>. HIDE DEF S
  <2>. QED  BY <1>4, <1>5
<1>. QED  BY <1>2, <1>6

LEMMA SumIsAddUp == \A f, S : SumOf(f, S) = AddUp(f, S)
  BY DEF SumOf, AddUp

LEMMA LengthsAreNaturals ==
  ASSUME Typed
  PROVE  /\ LengthsSoFar \in [total : Nat, count : Nat]
         /\ SumOf(depth, DOMAIN depth) \in Nat
         /\ LengthsSoFar.total = lengths.total + SumOf(depth, DOMAIN depth)
         /\ LengthsSoFar.count = lengths.count + Cardinality({a \in DOMAIN depth : depth[a] > 0})
<1>1. IsFiniteSet(DOMAIN depth) /\ \A a \in DOMAIN depth : depth[a] \in Nat
  BY FiniteActors DEF Typed
<1>2. AddUp(depth, DOMAIN depth) \in Nat
  BY <1>1, SumIsNatural
<1>3. Cardinality({a \in DOMAIN depth : depth[a] > 0}) \in Nat
  BY FiniteActors DEF Typed
<1>4. SumOf(depth, DOMAIN depth) \in Nat
  BY <1>2, SumIsAddUp
<1>. QED  BY <1>3, <1>4 DEF LengthsSoFar, Typed

LEMMA TypedExpand == ASSUME Typed, Expand PROVE Typed'
<1>1. UNCHANGED <<question, components, sampleVars, pathVars, status, answer>>
  BY DEF Expand
<1>2. interactions' = interactions
  BY <1>1 DEF question
<1>3. Nodes' = Nodes
  BY <1>2, SameGraph
<1>4. PICK order \in Seq(Fresh) :
        /\ Len(order) = Cardinality(Fresh) /\ ToSet(order) = Fresh
        /\ queue' = Tail(queue) \o order
  BY WhatExpandDoes
<1>. DEFINE D == DOMAIN depth
            t == Tail(queue)
<1>5. /\ DOMAIN depth' = D \cup Fresh /\ D \cap Fresh = {} /\ Fresh \subseteq Actor /\ D \subseteq Actor
      /\ \A b \in D : depth'[b] = depth[b]
      /\ \A b \in Fresh : depth'[b] = depth[Current] + 1
      /\ DOMAIN parent' = DOMAIN parent \cup Fresh
      /\ Current \in D /\ t \in Seq(D) /\ Len(t) = Len(queue) - 1
  BY WhatExpandDoes DEF Typed
<1>6. /\ Cardinality(D \cup Fresh) = Cardinality(D) + Cardinality(Fresh)
      /\ Cardinality(D) \in Nat /\ Cardinality(Fresh) \in Nat
      /\ IsFiniteSet(D) /\ IsFiniteSet(Fresh)
  <2>1. IsFiniteSet(D) /\ IsFiniteSet(Fresh) /\ Cardinality(D) \in Nat /\ Cardinality(Fresh) \in Nat
    BY <1>5, FiniteActors
  <2>2. Cardinality(D \cap Fresh) = 0
    BY <1>5, FS_EmptySet
  <2>. HIDE DEF D, Fresh
  <2>3. Cardinality(D \cup Fresh) = Cardinality(D) + Cardinality(Fresh) - Cardinality(D \cap Fresh)
    BY <2>1, FS_Union
  <2>. QED  BY <2>1, <2>2, <2>3
<1>7. queue' \in Seq(D \cup Fresh) /\ Len(queue') <= Cardinality(D \cup Fresh)
  <2>1. Len(queue) <= Cardinality(D) /\ queue # <<>> /\ queue \in Seq(D)
    BY WhatExpandDoes DEF Typed
  <2>2. Len(t) <= Cardinality(D)
    BY <1>5, <1>6, <2>1
  <2>3. t \in Seq(D \cup Fresh) /\ order \in Seq(D \cup Fresh)
    BY <1>5
  <2>. HIDE DEF D, t, Fresh
  <2>4. t \o order \in Seq(D \cup Fresh) /\ Len(t \o order) = Len(t) + Len(order)
    BY <2>3
  <2>. QED  BY <1>4, <1>6, <2>2, <2>3, <2>4 DEF t
<1>8. \A b \in D \cup Fresh : depth'[b] \in Nat /\ depth'[b] < Cardinality(D \cup Fresh)
  <2>1. \A b \in D : depth[b] \in Nat /\ depth[b] < Cardinality(D)
    BY DEF Typed
  <2>2. ASSUME NEW b \in D PROVE depth'[b] \in Nat /\ depth'[b] < Cardinality(D \cup Fresh)
    BY <1>5, <1>6, <2>1
  <2>3. ASSUME NEW b \in Fresh PROVE depth'[b] \in Nat /\ depth'[b] < Cardinality(D \cup Fresh)
    <3>1. Cardinality(Fresh) # 0
      <4>. HIDE DEF Fresh
      <4>. QED  BY <1>6, <2>3, FS_EmptySet
    <3>. QED  BY <1>5, <1>6, <2>1, <2>3, <3>1
  <2>. QED  BY <2>2, <2>3
<1>. HIDE DEF Fresh
<1>. QED
  BY <1>1, <1>2, <1>3, <1>5, <1>7, <1>8
  DEF Typed, question, sampleVars, pathVars

LEMMA OneSource ==
  ASSUME NEW a \in Actor
  PROVE  /\ <<a>> \in Seq({a}) /\ Len(<<a>>) = 1 /\ Head(<<a>>) = a /\ <<a>> # <<>>
         /\ Cardinality({a}) = 1
         /\ DOMAIN OnlyFrom(a) = {a} /\ OnlyFrom(a)[a] = 0
  BY FS_Singleton DEF OnlyFrom

LEMMA TypedNextComponent == ASSUME Typed, NextComponent PROVE Typed'
<1>1. UNCHANGED <<question, parent, sampleVars, pathVars, status, answer>>
  BY DEF NextComponent
<1>2. interactions' = interactions
  BY <1>1 DEF question
<1>3. Nodes' = Nodes /\ Nodes \subseteq Actor
  BY <1>2, SameGraph, NeighboursAreLinked DEF Typed
<1>4. PICK a \in Nodes \ DOMAIN depth :
        queue' = <<a>> /\ depth' = [b \in DOMAIN depth \cup {a} |-> IF b = a THEN 0 ELSE depth[b]]
  BY DEF NextComponent
<1>. DEFINE D == DOMAIN depth
<1>5. /\ DOMAIN depth' = D \cup {a} /\ depth'[a] = 0
      /\ \A b \in D : depth'[b] = depth[b]
  BY <1>4
<1>6. /\ IsFiniteSet(D) /\ Cardinality(D) \in Nat
      /\ Cardinality(D \cup {a}) = Cardinality(D) + 1
  <2>1. IsFiniteSet(D) /\ Cardinality(D) \in Nat /\ a \notin D
    BY <1>4, FiniteActors DEF Typed
  <2>. HIDE DEF D
  <2>. QED  BY <2>1, FS_AddElement
<1>7. queue' \in Seq(DOMAIN depth') /\ Len(queue') <= Cardinality(DOMAIN depth')
  <2>1. queue' \in Seq(D \cup {a}) /\ Len(queue') = 1
    BY <1>4
  <2>. QED  BY <1>5, <1>6, <2>1
<1>8. \A b \in D \cup {a} : depth'[b] \in Nat /\ depth'[b] < Cardinality(D \cup {a})
  BY <1>5, <1>6 DEF Typed
<1>9. components' \subseteq SUBSET Actor
  BY DEF NextComponent, Typed
<1>. QED
  BY <1>1, <1>2, <1>3, <1>5, <1>7, <1>8, <1>9
  DEF Typed, question, sampleVars, pathVars

LEMMA TypedNextSource == ASSUME Typed, NextSource PROVE Typed'
<1>1. UNCHANGED <<question, components, pathVars, status, answer>>
  BY DEF NextSource
<1>2. interactions' = interactions
  BY <1>1 DEF question
<1>3. Nodes' = Nodes /\ Nodes \subseteq Actor
  BY <1>2, SameGraph, NeighboursAreLinked DEF Typed
<1>4. PICK a \in Nodes \ sampled : queue' = <<a>> /\ depth' = OnlyFrom(a) /\ sampled' = sampled \cup {a}
  BY DEF NextSource
<1>5. longest' = LongestSoFar /\ lengths' = LengthsSoFar /\ parent' = Nowhere
  BY DEF NextSource
<1>6. DOMAIN parent' = {}
  BY <1>5 DEF Nowhere
<1>7. /\ queue' \in Seq(DOMAIN depth') /\ Len(queue') <= Cardinality(DOMAIN depth')
      /\ DOMAIN depth' \subseteq Actor
      /\ \A b \in DOMAIN depth' : depth'[b] \in Nat /\ depth'[b] < Cardinality(DOMAIN depth')
  <2>1. a \in Actor
    BY <1>3
  <2>2. /\ <<a>> \in Seq({a}) /\ Len(<<a>>) = 1 /\ Cardinality({a}) = 1
        /\ DOMAIN OnlyFrom(a) = {a} /\ OnlyFrom(a)[a] = 0
    BY <2>1, OneSource
  <2>3. DOMAIN depth' = {a} /\ depth'[a] = 0
    BY <1>4, <2>2
  <2>. QED  BY <1>4, <2>1, <2>2, <2>3
<1>8. longest' \in 0..Cardinality(Actor) /\ lengths' \in [total : Nat, count : Nat]
  BY <1>5, LongestIsLargest, LengthsAreNaturals
<1>9. sampled' \subseteq Nodes'
  BY <1>3, <1>4 DEF Typed
<1>. QED
  BY <1>1, <1>2, <1>6, <1>7, <1>8, <1>9
  DEF Typed, question, pathVars

LEMMA WalkIsSeq ==
  ASSUME Typed
  PROVE  /\ walk # <<>> => untried # <<>>
         /\ untried # <<>> => /\ Last(untried) = untried[Len(untried)]
                              /\ Last(untried) \in SUBSET Actor
                              /\ Len(untried) \in 1..Len(untried)
         /\ walk # <<>> => Last(walk) = walk[Len(walk)] /\ Last(walk) \in Actor
         /\ \A b : /\ Tried(b) \in Seq(SUBSET Actor) /\ Len(Tried(b)) = Len(untried)
                   /\ \A i \in 1..Len(untried) :
                        Tried(b)[i] = IF i = Len(untried) THEN untried[i] \ {b} ELSE untried[i]
         /\ Len(walk) \in Nat /\ Len(untried) = Len(walk)
<1>1. walk \in Seq(Actor) /\ untried \in Seq(SUBSET Actor) /\ Len(untried) = Len(walk)
  BY DEF Typed
<1>2. walk # <<>> => untried # <<>>
  BY <1>1
<1>3. untried # <<>> => /\ Last(untried) = untried[Len(untried)]
                        /\ Last(untried) \in SUBSET Actor
                        /\ Len(untried) \in 1..Len(untried)
  BY <1>1 DEF Last
<1>4. walk # <<>> => Last(walk) = walk[Len(walk)] /\ Last(walk) \in Actor
  BY <1>1 DEF Last
<1>5. ASSUME NEW b
      PROVE  /\ Tried(b) \in Seq(SUBSET Actor) /\ Len(Tried(b)) = Len(untried)
             /\ \A i \in 1..Len(untried) :
                  Tried(b)[i] = IF i = Len(untried) THEN untried[i] \ {b} ELSE untried[i]
  <2>1. \A i \in 1..Len(untried) : untried[i] \ {b} \in SUBSET Actor /\ untried[i] \in SUBSET Actor
    BY <1>1
  <2>2. DOMAIN untried = 1..Len(untried) /\ Len(untried) \in Nat
    BY <1>1
  <2>3. Tried(b) = [i \in 1..Len(untried) |->
                      IF i = Len(untried) THEN untried[i] \ {b} ELSE untried[i]]
    BY <2>2 DEF Tried
  <2>4. Tried(b) \in [1..Len(untried) -> SUBSET Actor]
    BY <2>1, <2>3
  <2>5. Tried(b) \in Seq(SUBSET Actor) /\ Len(Tried(b)) = Len(untried)
    <3>. HIDE DEF Tried
    <3>. QED  BY <2>2, <2>4
  <2>. QED  BY <2>3, <2>5
<1>6. Len(walk) \in Nat /\ Len(untried) = Len(walk)
  BY <1>1
<1>. HIDE DEF Tried
<1>. QED  BY <1>2, <1>3, <1>4, <1>5, <1>6, Zenon

LEMMA TypedDescend ==
  ASSUME Typed, walk # <<>>, NEW b \in Open, Descend(b) PROVE Typed'
<1>1. UNCHANGED <<question, searchVars, components, sampleVars, status, answer>>
  BY DEF Descend
<1>2. interactions' = interactions
  BY <1>1 DEF question
<1>3. Nodes' = Nodes
  BY <1>2, SameGraph
<1>4. b \in Actor
  BY WalkIsSeq DEF Open
<1>5. /\ walk' \in Seq(Actor) /\ untried' \in Seq(SUBSET Actor)
      /\ Len(untried') = Len(walk') /\ marked' \subseteq Actor
  <2>1. Tried(b) \in Seq(SUBSET Actor) /\ Len(Tried(b)) = Len(walk)
    BY WalkIsSeq
  <2>2. CASE TooDeep \/ b = job.to
    BY <2>1, <2>2 DEF Descend, Typed
  <2>3. CASE ~ (TooDeep \/ b = job.to)
    <3>1. /\ untried' = Append(Tried(b), Neighbours(b)) /\ walk' = Append(walk, b)
          /\ marked' = marked \cup {b}
      BY <2>3 DEF Descend
    <3>2. Neighbours(b) \in SUBSET Actor
      BY NeighboursAreLinked DEF Typed, Neighbours
    <3>3. walk \in Seq(Actor) /\ marked \subseteq Actor
      BY DEF Typed
    <3>. QED  BY <1>4, <2>1, <3>1, <3>2, <3>3
  <2>. QED  BY <2>2, <2>3
<1>. QED
  BY <1>1, <1>2, <1>3, <1>5
  DEF Typed, question, searchVars, sampleVars

LEMMA FrontOfSeq ==
  ASSUME NEW S, NEW s \in Seq(S), s # <<>>
  PROVE  /\ Front(s) \in Seq(S) /\ Len(Front(s)) = Len(s) - 1
         /\ \A i \in 1..(Len(s) - 1) : Front(s)[i] = s[i]
<1>. DEFINE m == Len(s) - 1
<1>1. m \in Nat /\ m <= Len(s)
  OBVIOUS
<1>2. \A i \in 1..m : s[i] \in S
  BY <1>1
<1>3. /\ SubSeq(s, 1, m) \in Seq(S)
      /\ Len(SubSeq(s, 1, m)) = IF 1 <= m THEN m - 1 + 1 ELSE 0
      /\ \A i \in 1..(m - 1 + 1) : SubSeq(s, 1, m)[i] = s[1 + i - 1]
  <2>. HIDE DEF m
  <2>1. m \in Int /\ 1 \in Int
    BY <1>1
  <2>. QED  BY <1>2, <2>1, SubSeqProperties
<1>4. /\ SubSeq(s, 1, m) \in Seq(S) /\ Len(SubSeq(s, 1, m)) = m
      /\ \A i \in 1..m : SubSeq(s, 1, m)[i] = s[i]
  <2>. DEFINE t == SubSeq(s, 1, m)
  <2>. HIDE DEF t, m
  <2>1. t \in Seq(S)
    BY <1>3 DEF t
  <2>2. Len(t) = IF 1 <= m THEN m - 1 + 1 ELSE 0
    BY <1>3 DEF t
  <2>3. Len(t) = m
    BY <1>1, <2>2
  <2>4. \A i \in 1..(m - 1 + 1) : t[i] = s[1 + i - 1]
    BY <1>3 DEF t
  <2>5. \A i \in 1..m : i \in 1..(m - 1 + 1) /\ 1 + i - 1 = i
    BY <1>1
  <2>6. \A i \in 1..m : t[i] = s[i]
    BY <2>4, <2>5
  <2>. QED  BY <2>1, <2>3, <2>6 DEF t
<1>5. Front(s) = SubSeq(s, 1, m)
  BY DEF Front
<1>. QED  BY <1>4, <1>5

LEMMA TypedAscend == ASSUME Typed, Ascend PROVE Typed'
<1>1. UNCHANGED <<question, searchVars, components, sampleVars, found, status, answer>>
  BY DEF Ascend
<1>2. interactions' = interactions
  BY <1>1 DEF question
<1>3. Nodes' = Nodes
  BY <1>2, SameGraph
<1>4. walk # <<>> /\ walk' = Front(walk) /\ untried' = Front(untried) /\ marked' \subseteq marked
  BY DEF Ascend, Unmark
<1>5. /\ walk' \in Seq(Actor) /\ untried' \in Seq(SUBSET Actor)
      /\ Len(untried') = Len(walk') /\ marked' \subseteq Actor
  <2>1. untried # <<>>
    BY <1>4, WalkIsSeq
  <2>. QED  BY <1>4, <2>1, FrontOfSeq DEF Typed
<1>. QED
  BY <1>1, <1>2, <1>3, <1>5
  DEF Typed, question, searchVars, sampleVars

LEMMA TypedKept ==
  ASSUME Typed, UNCHANGED <<question, searchVars, components, sampleVars, pathVars>>,
         status' \in {"running", "nil", "done"}
  PROVE  Typed'
<1>1. interactions' = interactions
  BY DEF question
<1>2. Nodes' = Nodes
  BY <1>1, SameGraph
<1>. QED
  BY <1>1, <1>2 DEF Typed, question, searchVars, sampleVars, pathVars

LEMMA TypedStep == Typed /\ [Next]_vars => Typed'
<1>. SUFFICES ASSUME Typed, [Next]_vars PROVE Typed'
  OBVIOUS
<1>1. CASE Expand  BY <1>1, TypedExpand
<1>2. CASE Found  BY <1>2, TypedKept DEF Found
<1>3. CASE NoPath  BY <1>3, TypedKept DEF NoPath
<1>4. CASE EgoNetwork  BY <1>4, TypedKept DEF EgoNetwork
<1>5. CASE NextComponent  BY <1>5, TypedNextComponent
<1>6. CASE AllComponents  BY <1>6, TypedKept DEF AllComponents
<1>7. CASE NextSource  BY <1>7, TypedNextSource
<1>8. CASE Diameter  BY <1>8, TypedKept DEF Diameter
<1>9. CASE walk # <<>> /\ \E b \in Open : Descend(b)
  BY <1>9, TypedDescend
<1>10. CASE Ascend  BY <1>10, TypedAscend
<1>11. CASE AllPaths  BY <1>11, TypedKept DEF AllPaths
<1>12. CASE UNCHANGED vars
  <2>1. UNCHANGED <<question, searchVars, components, sampleVars, pathVars>> /\ status' = status
    BY <1>12 DEF vars
  <2>2. status' \in {"running", "nil", "done"}
    BY <2>1 DEF Typed
  <2>. QED  BY <2>1, <2>2, TypedKept
<1>. QED
  BY <1>1, <1>2, <1>3, <1>4, <1>5, <1>6, <1>7, <1>8, <1>9, <1>10, <1>11, <1>12
  DEF Next, Search, EnumeratePaths

\* The type invariant is the part of Typed the runs state.
LEMMA TypedImpliesTypeOK == Typed => TypeOK
<1>. SUFFICES ASSUME Typed PROVE TypeOK
  OBVIOUS
<1>1. Cardinality(DOMAIN depth) \in Nat /\ Cardinality(DOMAIN depth) <= Cardinality(Actor)
      /\ Cardinality(Actor) \in Nat
  BY FiniteActors DEF Typed
<1>2. \A a \in DOMAIN depth : depth[a] \in 0..Cardinality(Actor)
  BY <1>1 DEF Typed
<1>3. queue \in Seq(Actor) /\ Len(queue) <= Cardinality(Actor)
  BY <1>1 DEF Typed
<1>4. queue \in SeqOf(Actor, Cardinality(Actor))
  <2>. DEFINE n == Cardinality(Actor)
  <2>. HIDE DEF n
  <2>1. n \in Nat /\ queue \in Seq(Actor) /\ Len(queue) <= n
    BY <1>1, <1>3 DEF n
  <2>2. queue \in SeqOf(Actor, n)
    BY <2>1, SeqOfIsSeq
  <2>. QED  BY <2>2 DEF n
<1>. QED  BY <1>2, <1>4 DEF Typed, TypeOK
-----------------------------------------------------------------------------
(***************************************************************************)
(* Breadth first: what has been visited, level by level.                   *)
(***************************************************************************)
StartsAt(a) ==
  /\ interactions \in Graphs /\ job \in Job
  /\ queue = <<a>> /\ depth = OnlyFrom(a)
  /\ job.kind \in {"shortest", "ego"} => job.from = a

AtSource == \E a \in Actor : StartsAt(a)

LEMMA LevelsAtStart == AtSource => Levels
<1>. SUFFICES ASSUME NEW a \in Actor, StartsAt(a), SingleSource PROVE Levels
  BY DEF Levels, AtSource
<1>1. queue = <<a>> /\ DOMAIN depth = {a} /\ depth[a] = 0
  BY OneSource DEF StartsAt
<1>2. Len(queue) = 1 /\ queue[1] = a /\ Head(queue) = a /\ queue # <<>>
  BY <1>1
<1>3. ToSet(queue) = {a}
  BY <1>1, ElementsOfOne
<1>4. DistancesFrom(a)
  BY <1>1, WithinStep DEF DistancesFrom
<1>5. \A i, j \in 1..Len(queue) : i <= j => depth[queue[i]] <= depth[queue[j]]
  BY <1>1, <1>2
<1>6. \A b \in DOMAIN depth : depth[b] <= depth[Head(queue)] + 1
  BY <1>1, <1>2
<1>7. Expanded = {}
  BY <1>1, <1>3 DEF Expanded
<1>8. job.kind = "ego" => \A b \in DOMAIN depth : depth[b] <= job.depth
  BY <1>1, JobFields DEF StartsAt
<1>9. job.kind \in {"shortest", "ego"} => DistancesFrom(job.from)
  BY <1>4 DEF StartsAt
<1>. QED  BY <1>1, <1>4, <1>5, <1>6, <1>7, <1>8, <1>9 DEF Levels

(***************************************************************************)
(* Up to the depth of the actor at the head of the queue, everyone within  *)
(* so many hops has been visited.                                          *)
(***************************************************************************)
LEMMA LevelsAreComplete ==
  ASSUME Typed, Levels, SingleSource, NEW r \in DOMAIN depth, DistancesFrom(r), NEW h \in Nat,
         \A x \in DOMAIN depth : depth[x] < h => x \in Expanded /\ ~AtHorizon(x)
  PROVE  \A k \in Nat : k <= h => Within(r, k) \subseteq {x \in DOMAIN depth : depth[x] <= k}
<1>. DEFINE T == {k \in Nat : k <= h => Within(r, k) \subseteq {x \in DOMAIN depth : depth[x] <= k}}
<1>0. r \in Actor /\ depth[r] = 0
  BY DEF Typed, DistancesFrom
<1>1. 0 \in T
  BY <1>0, WithinStep
<1>2. ASSUME NEW k \in Nat, k \in T PROVE k + 1 \in T
  <2>1. SUFFICES ASSUME k + 1 <= h, NEW b \in Within(r, k + 1)
                 PROVE  b \in DOMAIN depth /\ depth[b] <= k + 1
    OBVIOUS
  <2>2. \A x \in Within(r, k) : x \in DOMAIN depth /\ depth[x] <= k
    BY <1>2, <2>1
  <2>3. b \in Within(r, k) \/ (b \in Actor /\ \E c \in Within(r, k) : Linked(c, b))
    BY <1>0, WithinStep
  <2>4. CASE b \in Within(r, k)
    BY <2>2, <2>4 DEF Typed
  <2>5. CASE b \in Actor /\ \E c \in Within(r, k) : Linked(c, b)
    <3>1. PICK c \in Within(r, k) : Linked(c, b)
      BY <2>5
    <3>2. c \in DOMAIN depth /\ depth[c] <= k /\ depth[c] \in Nat
      BY <2>2 DEF Typed
    <3>3. c \in Expanded /\ ~AtHorizon(c)
      BY <2>1, <3>2
    <3>4. b \in DOMAIN depth /\ depth[b] <= depth[c] + 1
      BY <2>5, <3>1, <3>3 DEF Levels
    <3>. QED  BY <3>2, <3>4 DEF Typed
  <2>. QED  BY <2>3, <2>4, <2>5
<1>3. Nat \subseteq T
  <2>. HIDE DEF T
  <2>. QED  BY <1>1, <1>2, NatSetInduction
<1>. QED  BY <1>3

LEMMA HeadIsNearest ==
  ASSUME Typed, Levels, SingleSource, queue # <<>>
  PROVE  /\ Current \in DOMAIN depth /\ depth[Current] \in Nat
         /\ \A x \in ToSet(queue) : depth[x] >= depth[Current]
         /\ \A x \in DOMAIN depth : depth[x] \in Nat /\ depth[x] <= depth[Current] + 1
         /\ \A x \in DOMAIN depth :
              depth[x] < depth[Current] => x \in Expanded /\ ~AtHorizon(x)
<1>1. queue \in Seq(DOMAIN depth) /\ Len(queue) >= 1 /\ Current = queue[1]
  BY DEF Typed, Current
<1>2. Current \in DOMAIN depth /\ depth[Current] \in Nat
  BY <1>1 DEF Typed
<1>3. \A x \in ToSet(queue) : depth[x] >= depth[Current]
  <2>1. SUFFICES ASSUME NEW x \in ToSet(queue) PROVE depth[x] >= depth[Current]
    OBVIOUS
  <2>2. PICK i \in 1..Len(queue) : queue[i] = x
    BY <1>1, ElementIndex
  <2>3. 1 \in 1..Len(queue) /\ 1 <= i
    BY <1>1
  <2>4. depth[queue[1]] <= depth[queue[i]]
    BY <2>3 DEF Levels
  <2>. QED  BY <1>1, <2>2, <2>4 DEF Typed
<1>4. \A x \in DOMAIN depth : depth[x] \in Nat /\ depth[x] <= depth[Current] + 1
  BY DEF Levels, Current, Typed
<1>5. ASSUME NEW x \in DOMAIN depth, depth[x] < depth[Current] PROVE x \in Expanded /\ ~AtHorizon(x)
  <2>1. x \notin ToSet(queue)
    BY <1>2, <1>3, <1>4, <1>5
  <2>2. job.kind = "ego" => depth[Current] <= job.depth /\ job.depth \in Nat
    BY <1>2, JobFields DEF Levels, Typed
  <2>. QED  BY <1>2, <1>4, <1>5, <2>1, <2>2 DEF Expanded, AtHorizon
<1>. QED  BY <1>2, <1>3, <1>4, <1>5

LEMMA FreshIsFarther ==
  ASSUME Typed, Levels, Expand, SingleSource, NEW r \in DOMAIN depth, DistancesFrom(r),
         NEW b \in Fresh
  PROVE  b \in Within(r, depth[Current] + 1) /\ b \notin Within(r, depth[Current])
<1>. DEFINE d == depth[Current]
<1>1. queue # <<>> /\ b \in Actor /\ b \notin DOMAIN depth /\ r \in Actor
  BY WhatExpandDoes DEF Typed
<1>2. Current \in DOMAIN depth /\ d \in Nat
  BY <1>1, HeadIsNearest
<1>3. Linked(Current, b)
  BY NeighboursAreLinked DEF Fresh, Unseen, Typed
<1>4. Current \in Within(r, d)
  BY <1>2 DEF DistancesFrom
<1>5. b \in Within(r, d + 1)
  <2>. HIDE DEF d
  <2>. QED  BY <1>1, <1>2, <1>3, <1>4, WithinStep
<1>6. \A x \in DOMAIN depth : depth[x] < d => x \in Expanded /\ ~AtHorizon(x)
  BY <1>1, HeadIsNearest
<1>7. \A k \in Nat : k <= d => Within(r, k) \subseteq {x \in DOMAIN depth : depth[x] <= k}
  <2>. HIDE DEF d
  <2>. QED  BY <1>2, <1>6, LevelsAreComplete
<1>8. d <= d
  BY <1>2
<1>. QED  BY <1>1, <1>2, <1>5, <1>7, <1>8

LEMMA LevelsExpand == ASSUME Typed, Levels, Expand PROVE Levels'
<1>1. interactions' = interactions /\ job' = job
  BY DEF Expand, question
<1>2. SUFFICES ASSUME SingleSource PROVE Levels'
  BY <1>1 DEF Levels, SingleSource
<1>3. /\ \A a, b : Linked(a, b)' <=> Linked(a, b)
      /\ \A a, k : Within(a, k)' = Within(a, k)
  BY <1>1, SameGraph
<1>4. PICK order \in Seq(Fresh) :
        /\ Len(order) = Cardinality(Fresh) /\ ToSet(order) = Fresh
        /\ queue' = Tail(queue) \o order
  BY WhatExpandDoes
<1>. DEFINE D == DOMAIN depth
            d == depth[Current]
            t == Tail(queue)
<1>5. /\ DOMAIN depth' = D \cup Fresh /\ D \cap Fresh = {} /\ Fresh \subseteq Actor /\ D \subseteq Actor
      /\ \A b \in D : depth'[b] = depth[b]
      /\ \A b \in Fresh : depth'[b] = d + 1
      /\ Current \in D /\ t \in Seq(D) /\ Len(t) = Len(queue) - 1 /\ queue # <<>>
      /\ ToSet(queue) = {Current} \cup ToSet(t)
  BY WhatExpandDoes DEF Typed
<1>6. /\ d \in Nat
      /\ \A x \in ToSet(queue) : depth[x] >= d
      /\ \A x \in D : depth[x] \in Nat /\ depth[x] <= d + 1
  BY <1>2, <1>5, HeadIsNearest
<1>7. \A x \in D \cup Fresh : depth'[x] \in Nat /\ depth'[x] <= d + 1
  <2>. HIDE DEF d, D, Fresh
  <2>. QED  BY <1>5, <1>6
<1>8. /\ Len(queue') = Len(t) + Len(order)
      /\ \A i \in 1..Len(t) : queue'[i] = t[i] /\ t[i] \in ToSet(t) /\ t[i] \in D
      /\ \A i \in 1..Len(queue') : i \notin 1..Len(t) => queue'[i] \in Fresh
  <2>0. t \in Seq(D \cup Fresh) /\ order \in Seq(D \cup Fresh) /\ order \in Seq(Fresh)
    BY <1>5
  <2>. HIDE DEF t, D, Fresh
  <2>1. \A i \in 1..Len(t) : t[i] \in ToSet(t) /\ t[i] \in D
    BY <1>5, ElementIndex
  <2>2. queue' = t \o order
    BY <1>4 DEF t
  <2>3. Len(t \o order) = Len(t) + Len(order) /\ Len(t) \in Nat /\ Len(order) \in Nat
    BY <2>0
  <2>4. \A i \in 1..Len(t) : (t \o order)[i] = t[i]
    BY <2>0
  <2>5. \A i \in 1..(Len(t) + Len(order)) : i \notin 1..Len(t) =>
          i - Len(t) \in 1..Len(order) /\ (t \o order)[i] = order[i - Len(t)]
    BY <2>0
  <2>6. \A i \in 1..Len(order) : order[i] \in Fresh
    BY <2>0
  <2>. QED  BY <2>1, <2>2, <2>3, <2>4, <2>5, <2>6
<1>9. Len(t) \in Nat /\ Len(order) \in Nat /\ Len(queue) >= 1
  BY <1>5 DEF Typed
<1>10. \A i \in 1..Len(t) : t[i] = queue[i + 1] /\ i + 1 \in 1..Len(queue)
  BY <1>5 DEF Typed
<1>11. ASSUME NEW i \in 1..Len(queue'), NEW j \in 1..Len(queue'), i <= j
       PROVE  depth'[queue'[i]] <= depth'[queue'[j]]
  <2>1. CASE i \notin 1..Len(t)
    <3>1. j \notin 1..Len(t)
      BY <1>9, <1>11, <2>1
    <3>. QED  BY <1>5, <1>6, <1>8, <2>1, <3>1
  <2>2. CASE i \in 1..Len(t) /\ j \notin 1..Len(t)
    <3>1. queue'[i] \in D /\ queue'[j] \in Fresh
      BY <1>8, <2>2
    <3>. HIDE DEF D, Fresh, d
    <3>2. depth'[queue'[j]] = d + 1 /\ depth'[queue'[i]] <= d + 1
      BY <1>5, <1>7, <3>1
    <3>. QED  BY <3>2
  <2>3. CASE i \in 1..Len(t) /\ j \in 1..Len(t)
    <3>1. depth[queue[i + 1]] <= depth[queue[j + 1]]
      <4>1. i + 1 \in 1..Len(queue) /\ j + 1 \in 1..Len(queue) /\ i + 1 <= j + 1
        BY <1>10, <1>11, <2>3
      <4>. QED  BY <1>2, <4>1 DEF Levels
    <3>2. depth'[queue'[i]] = depth[queue[i + 1]] /\ depth'[queue'[j]] = depth[queue[j + 1]]
      <4>1. ASSUME NEW k \in 1..Len(t) PROVE depth'[queue'[k]] = depth[queue[k + 1]]
        <5>1. queue'[k] = t[k] /\ t[k] \in D /\ t[k] = queue[k + 1]
          BY <1>8, <1>10
        <5>. QED  BY <1>5, <5>1
      <4>. HIDE DEF t
      <4>. QED  BY <2>3, <4>1
    <3>. QED  BY <3>1, <3>2
  <2>. QED  BY <2>1, <2>2, <2>3
<1>12. ASSUME queue' # <<>>, NEW x \in D \cup Fresh PROVE depth'[x] <= depth'[Head(queue')] + 1
  <2>1. Head(queue') = queue'[1] /\ 1 \in 1..Len(queue')
    <3>1. Typed'
      BY TypedExpand
    <3>2. queue' \in Seq(DOMAIN depth')
      BY <3>1 DEF Typed
    <3>. QED  BY <1>12, <3>2
  <2>2. depth'[queue'[1]] \in Nat /\ depth'[queue'[1]] >= d
    <3>1. CASE 1 \in 1..Len(t)
      <4>1. queue'[1] \in ToSet(queue) /\ queue'[1] \in D
        BY <1>5, <1>8, <3>1
      <4>. QED  BY <1>5, <1>6, <4>1
    <3>2. CASE 1 \notin 1..Len(t)
      <4>1. queue'[1] \in Fresh
        BY <1>8, <2>1, <3>2
      <4>. QED  BY <1>5, <1>6, <4>1
    <3>. QED  BY <3>1, <3>2
  <2>. HIDE DEF d
  <2>. QED  BY <1>6, <1>7, <1>12, <2>1, <2>2
<1>13. ASSUME NEW r \in D, DistancesFrom(r) PROVE DistancesFrom(r)'
  <2>1. r \in DOMAIN depth' /\ depth'[r] = 0
    BY <1>5, <1>13 DEF DistancesFrom
  <2>2. ASSUME NEW x \in D
        PROVE x \in Within(r, depth'[x]) /\ (depth'[x] = 0 \/ x \notin Within(r, depth'[x] - 1))
    BY <1>5, <1>13, <2>2 DEF DistancesFrom
  <2>3. ASSUME NEW x \in Fresh
        PROVE x \in Within(r, depth'[x]) /\ (depth'[x] = 0 \/ x \notin Within(r, depth'[x] - 1))
    <3>1. x \in Within(r, d + 1) /\ x \notin Within(r, d)
      BY <1>2, <1>13, <2>3, FreshIsFarther
    <3>2. depth'[x] = d + 1 /\ depth'[x] - 1 = d
      BY <1>5, <1>6, <2>3
    <3>. QED  BY <3>1, <3>2
  <2>. HIDE DEF Fresh
  <2>. QED  BY <1>3, <1>5, <2>1, <2>2, <2>3 DEF DistancesFrom
<1>14. DOMAIN depth' # {} => \E r \in DOMAIN depth' : DistancesFrom(r)'
  <2>1. PICK r \in D : DistancesFrom(r)
    BY <1>2, <1>5 DEF Levels
  <2>. QED  BY <1>5, <1>13, <2>1
<1>15. job.kind \in {"shortest", "ego"} => DistancesFrom(job.from)'
  <2>1. job.kind \in {"shortest", "ego"} => DistancesFrom(job.from) /\ job.from \in D
    BY <1>2 DEF Levels, DistancesFrom
  <2>2. ASSUME job.kind \in {"shortest", "ego"} PROVE DistancesFrom(job.from)'
    <3>1. \A r \in D : DistancesFrom(r) => DistancesFrom(r)'
      BY <1>13
    <3>2. DistancesFrom(job.from) /\ job.from \in D
      BY <2>1, <2>2
    <3>. DEFINE f == job.from
    <3>3. f' = f
      BY <1>1
    <3>. HIDE DEF f
    <3>4. DistancesFrom(f)'
      BY <1>1, <1>3, <3>1, <3>2, <3>3 DEF f, DistancesFrom
    <3>. QED  BY <3>4 DEF f
  <2>. QED  BY <2>2
<1>16. ASSUME NEW a \in Expanded', ~AtHorizon(a)', NEW b \in Actor, Linked(a, b)
       PROVE  b \in D \cup Fresh /\ depth'[b] <= depth'[a] + 1
  <2>1. ToSet(queue') = ToSet(t) \cup Fresh
    BY WhatIsQueued
  <2>2. a \in D /\ a \notin ToSet(t)
    BY <1>5, <1>16, <2>1 DEF Expanded
  <2>3. ~AtHorizon(a) /\ depth'[a] = depth[a]
    BY <1>1, <1>5, <1>16, <2>2 DEF AtHorizon
  <2>4. CASE a = Current
    <3>1. b \in Neighbours(a)
      BY <1>16, NeighboursAreLinked DEF Typed
    <3>2. b \in D \/ b \in Fresh
      BY <2>3, <2>4, <3>1 DEF Fresh, Unseen
    <3>. HIDE DEF Fresh, D
    <3>. QED  BY <1>7, <2>3, <2>4, <3>2
  <2>5. CASE a # Current
    <3>1. a \in Expanded
      BY <1>5, <2>2, <2>5 DEF Expanded
    <3>2. b \in D /\ depth[b] <= depth[a] + 1
      BY <1>2, <1>16, <2>3, <3>1 DEF Levels
    <3>. QED  BY <1>5, <2>3, <3>2
  <2>. QED  BY <2>4, <2>5
<1>17. job.kind = "ego" => \A x \in D \cup Fresh : depth'[x] <= job.depth
  <2>1. SUFFICES ASSUME job.kind = "ego", NEW x \in D \cup Fresh PROVE depth'[x] <= job.depth
    OBVIOUS
  <2>2. CASE x \in D
    BY <1>2, <1>5, <2>1, <2>2 DEF Levels
  <2>3. CASE x \in Fresh
    <3>1. ~AtHorizon(Current) /\ job.depth \in Nat
      BY <2>1, <2>3, JobFields DEF Fresh, Typed
    <3>2. d < job.depth
      BY <1>6, <2>1, <3>1 DEF AtHorizon
    <3>. QED  BY <1>5, <1>6, <2>3, <3>1, <3>2
  <2>. QED  BY <2>2, <2>3
<1>. HIDE DEF Fresh
<1>18. \A a \in Expanded' : ~AtHorizon(a)' =>
          \A b \in Actor : Linked(a, b)' => b \in DOMAIN depth' /\ depth'[b] <= depth'[a] + 1
  BY <1>3, <1>5, <1>16
<1>. QED
  BY <1>1, <1>5, <1>11, <1>12, <1>14, <1>15, <1>17, <1>18 DEF Levels

LEMMA Steps ==
  ASSUME [Next]_vars
  PROVE  /\ question' = question
         /\ \/ Expand
            \/ NextComponent
            \/ NextSource
            \/ UNCHANGED <<searchVars, components, sampleVars>>
         /\ \/ walk # <<>> /\ \E b \in Open : Descend(b)
            \/ Ascend
            \/ UNCHANGED pathVars
<1>1. CASE Expand  BY <1>1 DEF Expand
<1>2. CASE Found  BY <1>2 DEF Found
<1>3. CASE NoPath  BY <1>3 DEF NoPath
<1>4. CASE EgoNetwork  BY <1>4 DEF EgoNetwork
<1>5. CASE NextComponent  BY <1>5 DEF NextComponent
<1>6. CASE AllComponents  BY <1>6 DEF AllComponents
<1>7. CASE NextSource  BY <1>7 DEF NextSource
<1>8. CASE Diameter  BY <1>8 DEF Diameter
<1>9. CASE walk # <<>> /\ \E b \in Open : Descend(b)
  BY <1>9 DEF Descend
<1>10. CASE Ascend  BY <1>10 DEF Ascend
<1>11. CASE AllPaths  BY <1>11 DEF AllPaths
<1>12. CASE UNCHANGED vars  BY <1>12 DEF vars
<1>. QED
  BY <1>1, <1>2, <1>3, <1>4, <1>5, <1>6, <1>7, <1>8, <1>9, <1>10, <1>11, <1>12
  DEF Next, Search, EnumeratePaths

LEMMA LevelsInit == ASSUME Init PROVE Levels
<1>1. Typed
  BY TypedInit
<1>2. CASE job.kind \in {"shortest", "ego"}
  <2>1. job.from \in Actor
    BY <1>1, <1>2, JobFields DEF Typed
  <2>2. StartsAt(job.from)
    BY <1>2 DEF Init, StartsAt
  <2>. QED  BY <2>1, <2>2, LevelsAtStart DEF AtSource
<1>3. CASE job.kind \notin {"shortest", "ego"}
  <2>1. queue = <<>> /\ DOMAIN depth = {}
    BY <1>3 DEF Init, Nowhere
  <2>2. \A i, j \in 1..Len(queue) : i <= j => depth[queue[i]] <= depth[queue[j]]
    <3>1. 1..Len(queue) = {}
      BY <2>1
    <3>. QED  BY <3>1
  <2>. QED  BY <1>3, <2>1, <2>2 DEF Levels, Expanded
<1>. QED  BY <1>2, <1>3

LEMMA LevelsStep == Typed /\ Levels /\ [Next]_vars => Levels'
<1>. SUFFICES ASSUME Typed, Levels, [Next]_vars PROVE Levels'
  OBVIOUS
<1>1. CASE Expand  BY <1>1, LevelsExpand
<1>2. CASE NextComponent
  BY <1>2 DEF NextComponent, question, Levels, SingleSource
<1>3. CASE NextSource
  <2>1. PICK s \in Nodes \ sampled : queue' = <<s>> /\ depth' = OnlyFrom(s)
    BY <1>3 DEF NextSource
  <2>2. interactions' = interactions /\ job' = job /\ job.kind \in {"diameter", "average"}
    BY <1>3 DEF NextSource, question
  <2>3. s \in Actor
    BY NeighboursAreLinked DEF Typed
  <2>4. StartsAt(s)'
    BY <2>1, <2>2 DEF StartsAt, Typed, OnlyFrom
  <2>5. AtSource'
    BY <2>3, <2>4 DEF AtSource
  <2>. QED  BY <2>5, LevelsAtStart, PTL
<1>4. CASE UNCHANGED <<searchVars, components, sampleVars>>
  <2>1. /\ interactions' = interactions /\ job' = job
        /\ queue' = queue /\ depth' = depth
    BY <1>4, Steps DEF question, searchVars
  <2>2. /\ \A a, b : Linked(a, b)' <=> Linked(a, b)
        /\ \A a, k : Within(a, k)' = Within(a, k)
    BY <2>1, SameGraph
  <2>3. SingleSource' <=> SingleSource
    BY <2>1 DEF SingleSource
  <2>4. Expanded' = Expanded
    BY <2>1 DEF Expanded
  <2>5. \A a : AtHorizon(a)' <=> AtHorizon(a)
    BY <2>1 DEF AtHorizon
  <2>6. \A r : DistancesFrom(r)' <=> DistancesFrom(r)
    BY <2>1, <2>2 DEF DistancesFrom
  <2>7. DistancesFrom(job.from)' <=> DistancesFrom(job.from)
    BY <2>1, <2>2 DEF DistancesFrom
  <2>. QED  BY <2>1, <2>2, <2>3, <2>4, <2>5, <2>6, <2>7 DEF Levels
<1>. QED  BY <1>1, <1>2, <1>3, <1>4, Steps

LEMMA ParentsInit == ASSUME Init PROVE Parents
<1>1. SUFFICES ASSUME job.kind = "shortest" PROVE Parents
  BY DEF Parents
<1>2. queue = <<job.from>> /\ DOMAIN depth = {job.from} /\ DOMAIN parent = {}
  BY <1>1 DEF Init, OnlyFrom, Nowhere
<1>3. Expanded = {}
  BY <1>2, ElementsOfOne DEF Expanded
<1>. QED  BY <1>2, <1>3 DEF Parents

LEMMA ParentsStep == Typed /\ Levels /\ Parents /\ [Next]_vars => Parents'
<1>. SUFFICES ASSUME Typed, Levels, Parents, [Next]_vars PROVE Parents'
  OBVIOUS
<1>1. interactions' = interactions /\ job' = job
  BY Steps DEF question
<1>2. \A a, b : Linked(a, b)' <=> Linked(a, b)
  BY <1>1, SameGraph
<1>3. SUFFICES ASSUME job.kind = "shortest" PROVE Parents'
  BY <1>1 DEF Parents
<1>4. CASE Expand
  <2>. DEFINE D == DOMAIN depth
              d == depth[Current]
  <2>2. /\ DOMAIN depth' = D \cup Fresh /\ D \cap Fresh = {}
        /\ \A b \in D : depth'[b] = depth[b]
        /\ \A b \in Fresh : depth'[b] = d + 1
        /\ DOMAIN parent' = DOMAIN parent \cup Fresh
        /\ \A b \in Fresh : parent'[b] = Current
        /\ \A b \in DOMAIN parent \ Fresh : parent'[b] = parent[b]
        /\ Current \in D /\ ~IsTarget(Current)
    BY <1>4, WhatExpandDoes
  <2>3. job.from \in D
    BY <1>3 DEF Levels, DistancesFrom, SingleSource
  <2>4. DOMAIN parent' = DOMAIN depth' \ {job.from}
    BY <1>3, <2>2, <2>3 DEF Parents
  <2>5. ASSUME NEW b \in Fresh
        PROVE  parent'[b] \in D /\ Linked(parent'[b], b) /\ depth'[b] = depth'[parent'[b]] + 1
    <3>1. b \in Neighbours(Current)
      BY <2>5 DEF Fresh, Unseen
    <3>2. Linked(Current, b)
      BY <3>1, NeighboursAreLinked DEF Typed
    <3>. QED  BY <2>2, <2>5, <3>2
  <2>6. ASSUME NEW b \in DOMAIN parent
        PROVE  parent'[b] \in D /\ Linked(parent'[b], b) /\ depth'[b] = depth'[parent'[b]] + 1
    <3>1. b \in D /\ b \notin Fresh /\ parent[b] \in D /\ Linked(parent[b], b) /\ depth[b] = depth[parent[b]] + 1
      BY <1>3, <2>2 DEF Parents
    <3>. QED  BY <2>2, <3>1
  <2>7. job.to \notin Expanded'
    <3>1. job.to # Current
      BY <1>3, <2>2 DEF IsTarget
    <3>2. Expanded' \subseteq Expanded \cup {Current}
      BY <1>4, WhatIsQueued
    <3>. QED  BY <1>3, <3>1, <3>2 DEF Parents
  <2>. HIDE DEF Fresh
  <2>8. \A b \in DOMAIN parent' :
          parent'[b] \in DOMAIN depth' /\ Linked(parent'[b], b) /\ depth'[b] = depth'[parent'[b]] + 1
    BY <2>2, <2>5, <2>6
  <2>. QED  BY <1>1, <1>2, <2>4, <2>7, <2>8 DEF Parents
<1>5. CASE NextComponent
  BY <1>3, <1>5 DEF NextComponent
<1>6. CASE NextSource
  BY <1>3, <1>6 DEF NextSource
<1>7. CASE UNCHANGED <<searchVars, components, sampleVars>>
  <2>1. queue' = queue /\ depth' = depth /\ parent' = parent
    BY <1>7 DEF searchVars
  <2>2. Expanded' = Expanded
    BY <2>1 DEF Expanded
  <2>. QED  BY <1>1, <1>2, <2>1, <2>2 DEF Parents
<1>. QED  BY <1>4, <1>5, <1>6, <1>7, Steps

(***************************************************************************)
(* The parents lead from the target back to the start, and the distance    *)
(* falls by one at each.                                                   *)
(***************************************************************************)
LEMMA PathBack ==
  ASSUME Typed, Levels, Parents, job.kind = "shortest", job.to \in DOMAIN depth
  PROVE  LET path == PathTo(job.to) IN
           /\ path \in Seq(DOMAIN depth) /\ Len(path) = depth[job.to] + 1
           /\ path[1] = job.from /\ path[Len(path)] = job.to
           /\ \A i \in 1..(Len(path) - 1) : Linked(path[i], path[i + 1])
<1>. DEFINE D == DOMAIN depth
            n == depth[job.to]
            F == [x \in D |-> IF x = job.from THEN job.from ELSE parent[x]]
            Step(g, k) == IF k = 0 THEN job.to
                          ELSE IF g[k - 1] = job.from THEN job.from ELSE parent[g[k - 1]]
            up == CHOOSE g : g = [k \in Nat |-> Step(g, k)]
            First(k) == up[k] = job.from /\ \A j \in 0..(k - 1) : up[j] # job.from
            length == CHOOSE k \in 0..Cardinality(Actor) : First(k)
<1>1. /\ job.from \in D /\ depth[job.from] = 0 /\ DOMAIN parent = D \ {job.from}
      /\ \A x \in D : depth[x] \in Nat /\ depth[x] < Cardinality(D)
      /\ \A x \in D : x # job.from =>
           parent[x] \in D /\ Linked(parent[x], x) /\ depth[x] = depth[parent[x]] + 1
  <2>1. DistancesFrom(job.from)
    BY DEF Levels, SingleSource
  <2>. QED  BY <2>1 DEF Parents, DistancesFrom, Typed
<1>2. F \in [D -> D]
  BY <1>1
<1>3. \E f \in [Nat -> D] : f[0] = job.to /\ \A k \in Nat : f[k + 1] = F[f[k]]
  <2>. DEFINE e == job.to
  <2>1. e \in D
    OBVIOUS
  <2>. HIDE DEF F, D, e, Step, up, n, First, length
  <2>2. \E f \in [Nat -> D] : f[0] = e /\ \A k \in Nat : f[k + 1] = F[f[k]]
    BY <1>2, <2>1, IterationExists, SMTT(60)
  <2>. QED  BY <2>2 DEF e
<1>4. PICK f \in [Nat -> D] : f[0] = job.to /\ \A k \in Nat : f[k + 1] = F[f[k]]
  BY <1>3
<1>5. f = [k \in Nat |-> Step(f, k)]
  <2>1. ASSUME NEW k \in Nat PROVE f[k] = Step(f, k)
    <3>1. CASE k = 0
      BY <1>4, <3>1
    <3>2. CASE k # 0
      <4>1. k - 1 \in Nat /\ (k - 1) + 1 = k
        BY <3>2
      <4>2. f[k - 1] \in D /\ f[k] = F[f[k - 1]]
        BY <1>4, <4>1
      <4>. QED  BY <3>2, <4>2
    <3>. QED  BY <3>1, <3>2
  <2>. HIDE DEF Step, D
  <2>. QED  BY <2>1
<1>6. up = [k \in Nat |-> Step(up, k)]
  <2>. HIDE DEF Step
  <2>. QED  BY <1>5
<1>7. PathTo(job.to) = [i \in 1..(length + 1) |-> up[length + 1 - i]]
  BY DEF PathTo
<1>. HIDE DEF up
<1>8. \A k \in Nat : up[k] = Step(up, k)
  <2>. HIDE DEF Step
  <2>. QED  BY <1>6
<1>. DEFINE T == {k \in Nat : k <= n => up[k] \in D /\ depth[up[k]] = n - k}
<1>9. n \in Nat /\ n \in 0..Cardinality(Actor) /\ n <= Cardinality(Actor) /\ Cardinality(Actor) \in Nat
  <2>1. Cardinality(D) \in Nat /\ Cardinality(D) <= Cardinality(Actor) /\ Cardinality(Actor) \in Nat
    BY FiniteActors DEF Typed
  <2>. QED  BY <1>1, <2>1
<1>10. 0 \in T
  BY <1>8, <1>9
<1>11. ASSUME NEW k \in Nat, k + 1 <= n, up[k] \in D, depth[up[k]] = n - k
       PROVE  /\ up[k] # job.from /\ up[k + 1] = parent[up[k]]
              /\ up[k + 1] \in D /\ depth[up[k + 1]] = n - (k + 1)
              /\ Linked(up[k + 1], up[k])
  <2>1. up[k] # job.from
    BY <1>1, <1>9, <1>11
  <2>2. k + 1 \in Nat /\ k + 1 # 0 /\ (k + 1) - 1 = k
    OBVIOUS
  <2>3. up[k + 1] = parent[up[k]]
    BY <1>8, <2>1, <2>2
  <2>4. depth[parent[up[k]]] \in Nat /\ parent[up[k]] \in D /\ depth[up[k]] = depth[parent[up[k]]] + 1
    BY <1>1, <1>11, <2>1
  <2>. HIDE DEF n, D
  <2>5. depth[up[k + 1]] = n - (k + 1)
    BY <1>9, <1>11, <2>3, <2>4
  <2>6. Linked(up[k + 1], up[k])
    BY <1>1, <1>11, <2>1, <2>3
  <2>. QED  BY <2>1, <2>3, <2>4, <2>5, <2>6
<1>12. ASSUME NEW k \in Nat, k \in T PROVE k + 1 \in T
  <2>1. SUFFICES ASSUME k + 1 <= n PROVE up[k + 1] \in D /\ depth[up[k + 1]] = n - (k + 1)
    OBVIOUS
  <2>2. k <= n
    BY <1>9, <2>1
  <2>3. up[k] \in D /\ depth[up[k]] = n - k
    BY <1>12, <2>2
  <2>. QED  BY <1>11, <2>1, <2>3
<1>13. \A k \in Nat : k <= n => up[k] \in D /\ depth[up[k]] = n - k
  <2>1. Nat \subseteq T
    <3>. HIDE DEF T
    <3>. QED  BY <1>10, <1>12, NatSetInduction
  <2>. QED  BY <2>1
<1>14. up[n] = job.from
  <2>1. up[n] \in D /\ depth[up[n]] = 0
    <3>1. n <= n /\ n - n = 0
      BY <1>9
    <3>. HIDE DEF n, D
    <3>. QED  BY <1>9, <1>13, <3>1
  <2>2. up[n] # job.from => depth[up[n]] = depth[parent[up[n]]] + 1 /\ depth[parent[up[n]]] \in Nat
    <3>. HIDE DEF n
    <3>. QED  BY <1>1, <2>1
  <2>. HIDE DEF n, D
  <2>. QED  BY <2>1, <2>2
<1>15. \A k \in Nat : k < n => up[k] # job.from
  <2>. HIDE DEF n, D
  <2>. QED  BY <1>1, <1>9, <1>13
<1>16. length = n
  <2>1. First(n)
    <3>. HIDE DEF n
    <3>. QED  BY <1>9, <1>14, <1>15
  <2>2. ASSUME NEW k \in 0..Cardinality(Actor), First(k) PROVE k = n
    <3>1. ~ (k < n)
      <4>. HIDE DEF n
      <4>. QED  BY <1>9, <1>15, <2>2
    <3>2. ~ (n < k)
      <4>1. n < k => n \in 0..(k - 1)
        <5>. HIDE DEF n
        <5>. QED  BY <1>9
      <4>. HIDE DEF n
      <4>. QED  BY <1>14, <2>2, <4>1
    <3>. HIDE DEF n, First
    <3>. QED  BY <1>9, <3>1, <3>2
  <2>. HIDE DEF n, First
  <2>. QED  BY <1>9, <2>1, <2>2
<1>. DEFINE path == [i \in 1..(n + 1) |-> up[n + 1 - i]]
<1>17. PathTo(job.to) = path
  <2>. HIDE DEF length
  <2>. QED  BY <1>7, <1>16
<1>. HIDE DEF n
<1>18. \A i \in 1..(n + 1) : n + 1 - i \in Nat /\ n + 1 - i <= n /\ path[i] = up[n + 1 - i] /\ path[i] \in D
  <2>. HIDE DEF D
  <2>1. \A i \in 1..(n + 1) : n + 1 - i \in Nat /\ n + 1 - i <= n
    BY <1>9
  <2>. QED  BY <1>13, <2>1
<1>19. path \in Seq(D) /\ Len(path) = n + 1
  <2>1. path \in [1..(n + 1) -> D]
    <3>1. \A i \in 1..(n + 1) : up[n + 1 - i] \in D
      BY <1>18
    <3>. HIDE DEF D
    <3>. QED  BY <3>1
  <2>2. n + 1 \in Nat
    BY <1>9
  <2>. HIDE DEF path, D
  <2>. QED  BY <2>1, <2>2
<1>20. path[1] = job.from
  <2>1. 1 \in 1..(n + 1) /\ n + 1 - 1 = n
    BY <1>9
  <2>. QED  BY <1>14, <2>1
<1>21. path[n + 1] = job.to
  <2>1. n + 1 \in 1..(n + 1) /\ n + 1 - (n + 1) = 0
    BY <1>9
  <2>2. up[0] = job.to
    BY <1>8
  <2>. QED  BY <2>1, <2>2
<1>22. ASSUME NEW i \in 1..n PROVE Linked(path[i], path[i + 1])
  <2>. DEFINE k == n - i
  <2>1. k \in Nat /\ k + 1 <= n /\ k <= n /\ n + 1 - i = k + 1 /\ n + 1 - (i + 1) = k
        /\ i \in 1..(n + 1) /\ i + 1 \in 1..(n + 1)
    BY <1>9
  <2>2. path[i] = up[k + 1] /\ path[i + 1] = up[k]
    BY <2>1
  <2>. HIDE DEF k, path, D
  <2>. QED  BY <1>11, <1>13, <2>1, <2>2
<1>23. Len(path) - 1 = n /\ path \in Seq(DOMAIN depth)
  BY <1>9, <1>19
<1>. HIDE DEF path
<1>. QED  BY <1>17, <1>19, <1>20, <1>21, <1>22, <1>23 DEF n
-----------------------------------------------------------------------------
(***************************************************************************)
(* The answers of ShortestPath and EgoNetwork.                             *)
(***************************************************************************)
LEMMA ShortestIsFound ==
  ASSUME Typed, Levels, Parents, job.kind = "shortest", job.to \in DOMAIN depth
  PROVE  LET path == PathTo(job.to) IN
           /\ path[1] = job.from /\ path[Len(path)] = job.to
           /\ \A i \in 1..(Len(path) - 1) : Linked(path[i], path[i + 1])
           /\ Len(path) - 1 = Distance(job.from, job.to)
<1>. DEFINE n == depth[job.to]
            f == job.from
            to == job.to
            path == PathTo(job.to)
<1>1. f \in Actor /\ DistancesFrom(f) /\ to \in DOMAIN depth
  BY JobFields DEF Typed, Levels, SingleSource
<1>2. n \in 0..Cardinality(Actor)
  <2>1. Cardinality(DOMAIN depth) \in Nat /\ Cardinality(DOMAIN depth) <= Cardinality(Actor)
        /\ Cardinality(Actor) \in Nat
    BY FiniteActors DEF Typed
  <2>. QED  BY <2>1 DEF Typed
<1>3. to \in Within(f, n) /\ (n = 0 \/ to \notin Within(f, n - 1))
  BY <1>1 DEF DistancesFrom
<1>4. Distance(f, to) = n
  <2>. HIDE DEF n, f, to
  <2>. QED  BY <1>1, <1>2, <1>3, DistanceIs
<1>5. /\ Len(path) = n + 1 /\ path[1] = job.from /\ path[Len(path)] = job.to
      /\ \A i \in 1..(Len(path) - 1) : Linked(path[i], path[i + 1])
  BY PathBack
<1>6. Len(path) - 1 = n
  <2>. HIDE DEF path, n
  <2>. QED  BY <1>2, <1>5
<1>. HIDE DEF path, n
<1>. QED  BY <1>4, <1>5, <1>6 DEF path

LEMMA UnreachedWhenExhausted ==
  ASSUME Typed, Levels, Parents, job.kind = "shortest", queue = <<>>
  PROVE  job.to \notin Reachable(job.from)
<1>. DEFINE f == job.from
<1>1. f \in Actor /\ f \in DOMAIN depth
  BY JobFields DEF Typed, Levels, SingleSource, DistancesFrom
<1>2. Expanded = DOMAIN depth
  BY ElementsOfNone DEF Expanded
<1>3. Closed(DOMAIN depth)
  BY <1>2 DEF Closed, Levels, SingleSource, AtHorizon
<1>4. Reachable(f) \subseteq DOMAIN depth
  <2>. HIDE DEF f
  <2>. QED  BY <1>1, <1>3, ReachableIsAll
<1>. QED  BY <1>2, <1>4 DEF Parents

LEMMA EgoIsWithin ==
  ASSUME Typed, Levels, job.kind = "ego", queue = <<>>
  PROVE  DOMAIN depth = Within(job.from, job.depth)
<1>. DEFINE f == job.from
            h == job.depth
<1>1. f \in Actor /\ h \in Nat /\ SingleSource
  BY JobFields DEF Typed, SingleSource
<1>2. DistancesFrom(f) /\ f \in DOMAIN depth
  BY <1>1 DEF Levels, DistancesFrom
<1>3. ASSUME NEW x \in DOMAIN depth PROVE x \in Within(f, h)
  <2>1. depth[x] \in Nat /\ depth[x] <= h /\ x \in Within(f, depth[x])
    BY <1>1, <1>2 DEF Levels, DistancesFrom, Typed
  <2>. HIDE DEF f, h
  <2>. QED  BY <1>1, <2>1, WithinGrows
<1>4. Expanded = DOMAIN depth
  BY ElementsOfNone DEF Expanded
<1>5. \A x \in DOMAIN depth : depth[x] < h => x \in Expanded /\ ~AtHorizon(x)
  BY <1>1, <1>4 DEF AtHorizon, Typed
<1>6. \A k \in Nat : k <= h => Within(f, k) \subseteq {x \in DOMAIN depth : depth[x] <= k}
  <2>. HIDE DEF f, h
  <2>. QED  BY <1>1, <1>2, <1>5, LevelsAreComplete
<1>7. Within(f, h) \subseteq DOMAIN depth
  <2>1. h <= h
    BY <1>1
  <2>. HIDE DEF f, h
  <2>. QED  BY <1>1, <1>6, <2>1
<1>. QED  BY <1>3, <1>7
-----------------------------------------------------------------------------
(***************************************************************************)
(* Components: a class that has been searched to the end is everyone its   *)
(* first actor reaches.                                                    *)
(***************************************************************************)
LEMMA ClassIsReachable ==
  ASSUME Typed, Classes, job.kind = "components", queue = <<>>
  PROVE  /\ components \cup ({Class} \ {{}}) \subseteq {Reachable(a) : a \in Nodes}
         /\ UNION (components \cup ({Class} \ {{}})) = DOMAIN depth
<1>1. /\ \A a \in DOMAIN depth : \A b \in Actor : Linked(a, b) => b \in DOMAIN depth
      /\ components \subseteq {Reachable(a) : a \in Nodes}
      /\ UNION components \subseteq DOMAIN depth
      /\ Class # {} => \E r \in Nodes \cap Class : Class \subseteq Reachable(r)
  BY ElementsOfNone DEF Classes, Expanded
<1>2. UNION (components \cup ({Class} \ {{}})) = DOMAIN depth
  BY <1>1 DEF Class
<1>3. ASSUME Class # {} PROVE \E r \in Nodes : Class = Reachable(r)
  <2>1. PICK r \in Nodes \cap Class : Class \subseteq Reachable(r)
    BY <1>1, <1>3
  <2>2. r \in Actor /\ Class \subseteq Actor
    BY NeighboursAreLinked DEF Typed, Class
  <2>3. Closed(Class)
    <3>1. SUFFICES ASSUME NEW x \in Class, NEW y \in Actor, Linked(x, y), y \notin Class PROVE FALSE
      BY DEF Closed
    <3>2. x \in DOMAIN depth /\ x \notin UNION components /\ y \in DOMAIN depth /\ y \in UNION components
      BY <1>1, <3>1 DEF Class
    <3>3. PICK b \in Nodes : y \in Reachable(b) /\ Reachable(b) \in components
      BY <1>1, <3>2
    <3>4. b \in Actor /\ Linked(y, x) /\ x \in Actor
      BY <2>2, <3>1, NeighboursAreLinked DEF Typed
    <3>5. x \in Reachable(b)
      BY <3>3, <3>4, ReachableIsAll DEF Closed
    <3>. QED  BY <3>2, <3>3, <3>5
  <2>4. Reachable(r) \subseteq Class
    BY <2>2, <2>3, <2>1, ReachableIsAll
  <2>5. Class = Reachable(r)
    BY <2>1, <2>4, Zenon
  <2>. QED  BY <2>5
<1>4. components \cup ({Class} \ {{}}) \subseteq {Reachable(a) : a \in Nodes}
  BY <1>1, <1>3
<1>. QED  BY <1>2, <1>4

LEMMA AllClassesFound ==
  ASSUME Typed, Classes, job.kind = "components", queue = <<>>, Nodes \subseteq DOMAIN depth
  PROVE  components \cup ({Class} \ {{}}) = {Reachable(a) : a \in Nodes}
<1>. DEFINE C == components \cup ({Class} \ {{}})
<1>1. C \subseteq {Reachable(a) : a \in Nodes} /\ UNION C = DOMAIN depth
  BY ClassIsReachable
<1>. HIDE DEF C
<1>2. ASSUME NEW a \in Nodes PROVE Reachable(a) \in C
  <2>1. PICK S \in C : a \in S
    BY <1>1
  <2>2. PICK b \in Nodes : S = Reachable(b)
    BY <1>1
  <2>3. b \in Actor /\ interactions \in Graphs
    BY NeighboursAreLinked DEF Typed
  <2>4. Reachable(a) = Reachable(b)
    BY <2>1, <2>2, <2>3, ReachableIsMutual
  <2>. QED  BY <2>2, <2>4
<1>3. C = {Reachable(a) : a \in Nodes}
  BY <1>1, <1>2
<1>. QED  BY <1>3 DEF C

LEMMA ClassesInit == ASSUME Init PROVE Classes
<1>1. SUFFICES ASSUME job.kind = "components" PROVE Classes
  BY DEF Classes
<1>2. queue = <<>> /\ DOMAIN depth = {} /\ components = {}
  BY <1>1 DEF Init, Nowhere
<1>. QED  BY <1>2, ElementsOfNone DEF Classes, Expanded, Class

LEMMA ClassesStep == Typed /\ Classes /\ [Next]_vars => Classes'
<1>. SUFFICES ASSUME Typed, Classes, [Next]_vars PROVE Classes'
  OBVIOUS
<1>1. interactions' = interactions /\ job' = job
  BY Steps DEF question
<1>2. /\ Nodes' = Nodes
      /\ \A a, b : Linked(a, b)' <=> Linked(a, b)
      /\ \A a : Reachable(a)' = Reachable(a)
  BY <1>1, SameGraph
<1>3. SUFFICES ASSUME job.kind = "components" PROVE Classes'
  BY <1>1 DEF Classes
<1>. DEFINE D == DOMAIN depth
<1>4. CASE Expand
  <2>1. /\ DOMAIN depth' = D \cup Fresh /\ D \cap Fresh = {} /\ Fresh \subseteq Actor
        /\ Current \in D /\ ToSet(queue) = {Current} \cup ToSet(Tail(queue))
    BY <1>4, WhatExpandDoes
  <2>2. /\ ToSet(queue') = ToSet(Tail(queue)) \cup Fresh
        /\ Expanded' \subseteq Expanded \cup {Current}
    BY <1>4, WhatIsQueued
  <2>3. components' = components
    BY <1>4 DEF Expand
  <2>4. Fresh = Neighbours(Current) \ D
    BY <1>3 DEF Fresh, AtHorizon, Unseen
  <2>5. \A b : b \in Neighbours(Current) <=> Linked(Current, b)
    BY NeighboursAreLinked DEF Typed
  <2>. HIDE DEF Fresh
  <2>6. ASSUME NEW a \in Expanded', NEW b \in Actor, Linked(a, b) PROVE b \in DOMAIN depth'
    <3>1. CASE a = Current
      BY <2>1, <2>4, <2>5, <2>6, <3>1
    <3>2. CASE a \in Expanded
      BY <1>3, <2>1, <2>6, <3>2 DEF Classes
    <3>. QED  BY <2>2, <3>1, <3>2
  <2>7. UNION components \subseteq D /\ ToSet(queue) \subseteq Class
    BY <1>3 DEF Classes
  <2>8. Class' = Class \cup Fresh
    BY <2>1, <2>3, <2>7 DEF Class
  <2>9. ToSet(queue') \subseteq Class'
    BY <2>1, <2>2, <2>7, <2>8
  <2>10. \E r \in Nodes \cap Class' : Class' \subseteq Reachable(r)
    <3>1. Current \in Class
      BY <2>1, <2>7
    <3>2. PICK r \in Nodes \cap Class : Class \subseteq Reachable(r)
      BY <1>3, <3>1 DEF Classes
    <3>3. r \in Actor
      BY NeighboursAreLinked DEF Typed
    <3>4. Closed(Reachable(r)) /\ Current \in Reachable(r)
      BY <3>1, <3>2, <3>3, ReachableIsAll
    <3>5. Fresh \subseteq Reachable(r)
      BY <2>1, <2>4, <2>5, <3>4 DEF Closed
    <3>. QED  BY <2>8, <3>2, <3>5
  <2>11. UNION components' \subseteq DOMAIN depth'
    BY <2>1, <2>3, <2>7
  <2>12. components' \subseteq {Reachable(a) : a \in Nodes}
    BY <1>3, <2>3 DEF Classes
  <2>. QED  BY <1>1, <1>2, <2>6, <2>9, <2>10, <2>11, <2>12 DEF Classes
<1>5. CASE NextComponent
  <2>1. PICK a \in Nodes \ DOMAIN depth :
          queue' = <<a>> /\ depth' = [b \in DOMAIN depth \cup {a} |-> IF b = a THEN 0 ELSE depth[b]]
    BY <1>5 DEF NextComponent
  <2>2. DOMAIN depth' = D \cup {a} /\ ToSet(queue') = {a} /\ a \in Actor
    <3>1. a \in Actor
      BY NeighboursAreLinked DEF Typed
    <3>2. ToSet(<<a>>) = {a}
      BY ElementsOfOne
    <3>. QED  BY <2>1, <3>1, <3>2
  <2>3. queue = <<>> /\ components' = components \cup ({Class} \ {{}})
    BY <1>5 DEF NextComponent, Class
  <2>4. components' \subseteq {Reachable(b) : b \in Nodes} /\ UNION components' = D
    <3>. DEFINE C == components \cup ({Class} \ {{}})
    <3>1. C \subseteq {Reachable(b) : b \in Nodes} /\ UNION C = D
      BY <1>3, <2>3, ClassIsReachable
    <3>. HIDE DEF C
    <3>. QED  BY <2>3, <3>1 DEF C
  <2>5. \A x \in D : \A b \in Actor : Linked(x, b) => b \in D
    BY <1>3, <2>3, ElementsOfNone DEF Classes, Expanded
  <2>6. Expanded' \subseteq D
    BY <2>2 DEF Expanded
  <2>7. Class' = {a}
    BY <2>1, <2>2, <2>4 DEF Class
  <2>8. a \in Reachable(a)
    BY <2>2, ReachableIsAll
  <2>. HIDE DEF D
  <2>9. \A x \in Expanded' : \A b \in Actor : Linked(x, b)' => b \in DOMAIN depth'
    BY <1>2, <2>2, <2>5, <2>6
  <2>10. \E r \in Nodes' \cap Class' : Class' \subseteq Reachable(r)'
    BY <1>2, <2>1, <2>7, <2>8
  <2>11. components' \subseteq {Reachable(b)' : b \in Nodes'}
    BY <1>2, <2>4
  <2>12. UNION components' \subseteq DOMAIN depth'
    BY <2>2, <2>4
  <2>13. ToSet(queue') \subseteq Class'
    BY <2>2, <2>7
  <2>. QED  BY <2>9, <2>10, <2>11, <2>12, <2>13 DEF Classes
<1>6. CASE NextSource
  BY <1>3, <1>6 DEF NextSource
<1>7. CASE UNCHANGED <<searchVars, components, sampleVars>>
  <2>1. queue' = queue /\ depth' = depth /\ components' = components
    BY <1>7 DEF searchVars
  <2>2. Expanded' = Expanded /\ Class' = Class
    BY <2>1 DEF Expanded, Class
  <2>. QED  BY <1>1, <1>2, <2>1, <2>2 DEF Classes
<1>. QED  BY <1>4, <1>5, <1>6, <1>7, Steps
-----------------------------------------------------------------------------
(***************************************************************************)
(* Figures: the source whose search is over accounts for its pairs.        *)
(***************************************************************************)
LEMMA DistanceExists ==
  ASSUME NEW a \in Actor, NEW b \in Reachable(a)
  PROVE  /\ Distance(a, b) \in 0..Cardinality(Actor)
         /\ b \in Within(a, Distance(a, b))
         /\ a # b => Distance(a, b) >= 1
<1>. DEFINE n == Cardinality(Actor)
            Exact(k) == b \in Within(a, k) /\ (k = 0 \/ b \notin Within(a, k - 1))
            T == {k \in Nat : k <= n => b \notin Within(a, k)}
<1>0. n \in Nat
  BY FiniteActors
<1>1. \E k \in 0..n : Exact(k)
  <2>1. SUFFICES ASSUME \A k \in 0..n : ~Exact(k) PROVE FALSE
    OBVIOUS
  <2>2. 0 \in T
    BY <1>0, <2>1
  <2>3. ASSUME NEW k \in Nat, k \in T PROVE k + 1 \in T
    <3>1. SUFFICES ASSUME k + 1 <= n PROVE b \notin Within(a, k + 1)
      OBVIOUS
    <3>2. k + 1 \in 0..n /\ (k + 1) - 1 = k /\ k <= n
      BY <1>0, <3>1
    <3>3. b \notin Within(a, k)
      BY <2>3, <3>2
    <3>. QED  BY <2>1, <3>2, <3>3
  <2>4. Nat \subseteq T
    <3>. HIDE DEF T
    <3>. QED  BY <2>2, <2>3, NatSetInduction
  <2>5. n <= n
    BY <1>0
  <2>. HIDE DEF n
  <2>. QED  BY <1>0, <2>4, <2>5 DEF Reachable, n
<1>2. Distance(a, b) \in 0..n /\ Exact(Distance(a, b))
  <2>1. Distance(a, b) = CHOOSE k \in 0..n : Exact(k)
    BY DEF Distance
  <2>. HIDE DEF n, Exact
  <2>. QED  BY <1>1, <2>1
<1>3. a # b => Distance(a, b) # 0
  <2>1. Within(a, 0) = {a}
    BY WithinStep
  <2>. QED  BY <1>2, <2>1
<1>4. a # b => Distance(a, b) >= 1
  <2>. DEFINE d == Distance(a, b)
  <2>. HIDE DEF d, n
  <2>1. d \in 0..n /\ (a # b => d # 0)
    BY <1>2, <1>3 DEF d
  <2>. QED  BY <1>0, <2>1 DEF d
<1>. QED  BY <1>2, <1>4

LEMMA PairsAreFinite ==
  ASSUME Typed
  PROVE  /\ \A S : IsFiniteSet(PairsFrom(S)) /\ PairsFrom(S) \subseteq PairsFrom(Nodes)
         /\ \A q \in PairsFrom(Nodes) :
              /\ q[1] \in Actor /\ q[2] \in Reachable(q[1]) /\ q[1] # q[2]
              /\ Far(Nodes)[q] = Distance(q[1], q[2])
              /\ Far(Nodes)[q] \in Nat /\ Far(Nodes)[q] >= 1
              /\ Distance(q[1], q[2]) \in 0..Cardinality(Actor)
<1>1. Nodes \subseteq Actor /\ IsFiniteSet(Nodes)
  BY NeighboursAreLinked, FiniteActors DEF Typed
<1>2. IsFiniteSet(Nodes \X Nodes)
  BY <1>1, FS_Product
<1>3. \A S : PairsFrom(S) \in SUBSET (Nodes \X Nodes) /\ PairsFrom(S) \subseteq PairsFrom(Nodes)
  BY DEF PairsFrom
<1>4. \A S : IsFiniteSet(PairsFrom(S))
  BY <1>2, <1>3, FS_Subset
<1>5. ASSUME NEW q \in PairsFrom(Nodes)
      PROVE  /\ q[1] \in Actor /\ q[2] \in Reachable(q[1]) /\ q[1] # q[2]
             /\ Far(Nodes)[q] = Distance(q[1], q[2])
             /\ Far(Nodes)[q] \in Nat /\ Far(Nodes)[q] >= 1
             /\ Distance(q[1], q[2]) \in 0..Cardinality(Actor)
  <2>1. q[1] \in Actor /\ q[2] \in Reachable(q[1]) /\ q[1] # q[2]
    BY <1>1 DEF PairsFrom
  <2>2. Far(Nodes)[q] = Distance(q[1], q[2])
    BY DEF Far
  <2>3. Distance(q[1], q[2]) \in 0..Cardinality(Actor) /\ Distance(q[1], q[2]) >= 1
    BY <2>1, DistanceExists
  <2>. QED  BY <2>1, <2>2, <2>3, FiniteActors
<1>. QED  BY <1>3, <1>4, <1>5

LEMMA SourceReached ==
  ASSUME Typed, Levels, Figures, Sampling, queue = <<>>, NEW r \in DOMAIN depth, DistancesFrom(r)
  PROVE  /\ r \in Nodes /\ r \in Actor /\ r \in sampled /\ depth[r] = 0
         /\ Entered = sampled \ {r}
         /\ DOMAIN depth = Reachable(r) /\ DOMAIN depth \subseteq Nodes
         /\ \A x \in DOMAIN depth :
              /\ Distance(r, x) = depth[x] /\ depth[x] \in Nat
              /\ x # r <=> depth[x] > 0
<1>. DEFINE D == DOMAIN depth
<1>1. SingleSource /\ interactions \in Graphs /\ \A x : ~AtHorizon(x)
  BY DEF Sampling, SingleSource, AtHorizon, Typed
<1>2. r \in sampled /\ r \in Nodes /\ r \in Actor /\ depth[r] = 0
  BY <1>1, NeighboursAreLinked DEF Figures, DistancesFrom, Typed
<1>3. Closed(D) /\ Closed(Nodes)
  <2>1. Expanded = D
    BY ElementsOfNone DEF Expanded
  <2>2. Closed(D)
    BY <1>1, <2>1 DEF Closed, Levels
  <2>. QED  BY <1>1, <2>2, NeighboursAreLinked DEF Closed
<1>4. ASSUME NEW x \in D
      PROVE  /\ depth[x] \in Nat /\ depth[x] \in 0..Cardinality(Actor)
             /\ x \in Within(r, depth[x]) /\ (depth[x] = 0 \/ x \notin Within(r, depth[x] - 1))
  <2>1. Cardinality(D) \in Nat /\ Cardinality(D) <= Cardinality(Actor)
    BY FiniteActors DEF Typed
  <2>2. depth[x] \in Nat /\ depth[x] < Cardinality(D)
    BY DEF Typed
  <2>. QED  BY <2>1, <2>2, FiniteActors DEF DistancesFrom
<1>5. D = Reachable(r) /\ D \subseteq Nodes
  <2>1. Reachable(r) \subseteq D /\ Reachable(r) \subseteq Nodes
    <3>. HIDE DEF D
    <3>1. r \in D
      BY DEF D
    <3>. QED  BY <1>2, <1>3, <3>1, ReachableIsAll
  <2>2. D \subseteq Reachable(r)
    <3>. HIDE DEF D
    <3>. QED  BY <1>2, <1>4, ReachableIsAll
  <2>. QED  BY <2>1, <2>2
<1>6. ASSUME NEW x \in D PROVE Distance(r, x) = depth[x] /\ (x # r <=> depth[x] > 0)
  <2>1. Distance(r, x) = depth[x]
    BY <1>2, <1>4, DistanceIs
  <2>2. depth[x] = 0 => x = r
    <3>1. Within(r, 0) = {r}
      BY <1>2, WithinStep
    <3>. QED  BY <1>4, <3>1
  <2>. QED  BY <1>2, <1>4, <2>1, <2>2
<1>7. Entered = sampled \ {r}
  BY <1>2, <1>4, <1>6 DEF Entered
<1>. QED  BY <1>2, <1>4, <1>5, <1>6, <1>7

LEMMA SourceCounted ==
  ASSUME Typed, Levels, Figures, Sampling, queue = <<>>, NEW r \in DOMAIN depth, DistancesFrom(r)
  PROVE  /\ AddUp(Far(Nodes), PairsFrom({r})) = AddUp(depth, DOMAIN depth)
         /\ Cardinality(PairsFrom({r})) = Cardinality({a \in DOMAIN depth : depth[a] > 0})
         /\ \A q \in PairsFrom({r}) : q[1] = r /\ q[2] \in DOMAIN depth /\ Distance(q[1], q[2]) = depth[q[2]]
         /\ \A x \in DOMAIN depth : depth[x] # 0 => <<r, x>> \in PairsFrom({r})
<1>. DEFINE D == DOMAIN depth
            E == {a \in D : depth[a] > 0}
            h == [x \in E |-> <<r, x>>]
            P == PairsFrom({r})
            F == Far(Nodes)
<1>1. /\ r \in Nodes /\ r \in Actor /\ depth[r] = 0 /\ r \in D
      /\ D = Reachable(r) /\ D \subseteq Nodes
      /\ \A x \in D : Distance(r, x) = depth[x] /\ depth[x] \in Nat /\ (x # r <=> depth[x] > 0)
  BY SourceReached
<1>2. \A x \in E : h[x] = <<r, x>> /\ h[x][1] = r /\ h[x][2] = x /\ h[x] \in P
  <2>1. \A x \in E : h[x] = <<r, x>> /\ h[x][1] = r /\ h[x][2] = x
    OBVIOUS
  <2>2. ASSUME NEW x \in E PROVE <<r, x>> \in P
    BY <1>1 DEF PairsFrom
  <2>. HIDE DEF h, P
  <2>. QED  BY <2>1, <2>2
<1>3. \A q \in P : q[1] = r /\ q[2] \in E /\ q = <<r, q[2]>>
  <2>1. SUFFICES ASSUME NEW q \in P PROVE q[1] = r /\ q[2] \in E /\ q = <<r, q[2]>>
    OBVIOUS
  <2>2. q \in Nodes \X Nodes /\ q[1] = r /\ q[2] # r /\ q[2] \in Reachable(r)
    BY DEF PairsFrom
  <2>3. q = <<r, q[2]>>
    BY <2>2
  <2>4. q[2] \in E
    BY <1>1, <2>2
  <2>. QED  BY <2>2, <2>3, <2>4
<1>4. P = {h[x] : x \in E}
  <2>1. \A q \in P : \E x \in E : q = h[x]
    <3>. HIDE DEF E, P, h
    <3>. QED  BY <1>2, <1>3
  <2>. HIDE DEF E, P, h
  <2>. QED  BY <1>2, <2>1
<1>5. \A x, y \in E : h[x] = h[y] => x = y
  <2>. HIDE DEF E, P, h
  <2>. QED  BY <1>2
<1>6. IsFiniteSet(D) /\ IsFiniteSet(E) /\ E \subseteq Actor
  BY FiniteActors DEF Typed
<1>7. P \subseteq PairsFrom(Nodes) /\ IsFiniteSet(P)
  BY PairsAreFinite
<1>8. \A x \in E : F[h[x]] = depth[x] /\ depth[x] \in Int
  <2>1. SUFFICES ASSUME NEW x \in E PROVE F[h[x]] = depth[x] /\ depth[x] \in Int
    OBVIOUS
  <2>2. h[x] \in PairsFrom(Nodes) /\ h[x][1] = r /\ h[x][2] = x
    <3>. HIDE DEF h, P
    <3>. QED  BY <1>2, <1>7
  <2>3. F[h[x]] = Distance(h[x][1], h[x][2])
    <3>. HIDE DEF h
    <3>. QED  BY <2>2, PairsAreFinite
  <2>4. F[h[x]] = Distance(r, x)
    <3>. HIDE DEF h, F
    <3>. QED  BY <2>2, <2>3
  <2>. HIDE DEF h, F
  <2>. QED  BY <1>1, <2>4
<1>9. AddUp(F, P) = AddUp(depth, E)
  <2>. HIDE DEF F, P, E, h
  <2>1. AddUp(F, {h[x] : x \in E}) = AddUp(depth, E)
    BY <1>5, <1>6, <1>8, SumOfMoved
  <2>. QED  BY <1>4, <2>1
<1>10. AddUp(depth, D) = AddUp(depth, E)
  <2>1. D = E \cup {r} /\ r \notin E /\ \A y \in E \cup {r} : depth[y] \in Int
    BY <1>1
  <2>. HIDE DEF D, E
  <2>2. AddUp(depth, E \cup {r}) = AddUp(depth, E) + depth[r] /\ AddUp(depth, E) \in Int
    BY <1>6, <2>1, SumOfOneMore
  <2>3. AddUp(depth, E \cup {r}) = AddUp(depth, E)
    BY <1>1, <2>2
  <2>. QED  BY <2>1, <2>3
<1>11. Cardinality(P) = Cardinality(E)
  <2>. HIDE DEF P, E, h
  <2>1. h \in [E -> P]
    BY <1>2 DEF h
  <2>2. h \in Injection(E, P)
    BY <1>5, <2>1 DEF Injection, IsInjective
  <2>3. h \in Surjection(E, P)
    BY <1>4, <2>1 DEF Surjection
  <2>4. ExistsBijection(E, P)
    BY <2>2, <2>3 DEF ExistsBijection, Bijection
  <2>. QED  BY <1>6, <2>4, FS_Bijection
<1>12. ASSUME NEW q \in P PROVE q[1] = r /\ q[2] \in D /\ Distance(q[1], q[2]) = depth[q[2]]
  <2>1. q[1] = r /\ q[2] \in E
    BY <1>3
  <2>. QED  BY <1>1, <2>1
<1>13. ASSUME NEW x \in D, depth[x] # 0 PROVE <<r, x>> \in P
  <2>1. x \in E /\ h[x] = <<r, x>>
    BY <1>1, <1>13
  <2>. HIDE DEF E, P, h
  <2>. QED  BY <1>2, <2>1
<1>. QED  BY <1>9, <1>10, <1>11, <1>12, <1>13

LEMMA FiguresComplete ==
  ASSUME Typed, Levels, Figures, Sampling, queue = <<>>
  PROVE  /\ \A q \in PairsFrom(sampled) : Distance(q[1], q[2]) <= LongestSoFar
         /\ LongestSoFar = 0 \/ \E q \in PairsFrom(sampled) : Distance(q[1], q[2]) = LongestSoFar
         /\ LengthsSoFar.total = SumOf(Far(Nodes), PairsFrom(sampled))
         /\ LengthsSoFar.count = Cardinality(PairsFrom(sampled))
<1>. DEFINE D == DOMAIN depth
            F == Far(Nodes)
            L == LongestSoFar
<1>1. /\ \A q \in PairsFrom(Entered) : Distance(q[1], q[2]) <= longest
      /\ longest = 0 \/ \E q \in PairsFrom(Entered) : Distance(q[1], q[2]) = longest
      /\ lengths.total = SumOf(F, PairsFrom(Entered))
      /\ lengths.count = Cardinality(PairsFrom(Entered))
  BY DEF Figures
<1>2. /\ L \in {longest} \cup {depth[a] : a \in D}
      /\ \A a \in D : L >= depth[a] /\ L >= longest
      /\ L \in 0..Cardinality(Actor) /\ longest \in 0..Cardinality(Actor) /\ Cardinality(Actor) \in Nat
  BY LongestIsLargest, FiniteActors DEF Typed
<1>3. /\ LengthsSoFar.total = lengths.total + SumOf(depth, D)
      /\ LengthsSoFar.count = lengths.count + Cardinality({a \in D : depth[a] > 0})
      /\ lengths.total \in Nat /\ lengths.count \in Nat
  BY LengthsAreNaturals DEF Typed
<1>4. CASE D = {}
  <2>1. Entered = sampled
    BY <1>4 DEF Entered
  <2>2. L = longest
    BY <1>2, <1>4
  <2>3. SumOf(depth, D) = 0 /\ {a \in D : depth[a] > 0} = {}
    BY <1>4, SumIsAddUp, SumOfNone
  <2>4. Cardinality({a \in D : depth[a] > 0}) = 0
    BY <2>3, FS_EmptySet
  <2>. HIDE DEF D, F
  <2>. QED  BY <1>1, <1>3, <2>1, <2>2, <2>3, <2>4 DEF F
<1>5. CASE D # {}
  <2>1. PICK r \in D : DistancesFrom(r)
    BY <1>5 DEF Levels, Sampling, SingleSource
  <2>2. /\ r \in sampled /\ Entered = sampled \ {r}
        /\ AddUp(F, PairsFrom({r})) = AddUp(depth, D)
        /\ Cardinality(PairsFrom({r})) = Cardinality({a \in D : depth[a] > 0})
        /\ \A q \in PairsFrom({r}) : q[1] = r /\ q[2] \in D /\ Distance(q[1], q[2]) = depth[q[2]]
        /\ \A x \in D : depth[x] # 0 => <<r, x>> \in PairsFrom({r})
    BY <2>1, SourceReached, SourceCounted
  <2>. DEFINE old == PairsFrom(Entered)
              new == PairsFrom({r})
  <2>3. PairsFrom(sampled) = old \cup new /\ old \cap new = {}
    BY <2>2 DEF PairsFrom
  <2>4. /\ IsFiniteSet(old) /\ IsFiniteSet(new)
        /\ old \subseteq PairsFrom(Nodes) /\ new \subseteq PairsFrom(Nodes)
    BY PairsAreFinite
  <2>5. \A q \in PairsFrom(Nodes) : F[q] \in Nat /\ Distance(q[1], q[2]) \in 0..Cardinality(Actor)
    BY PairsAreFinite
  <2>. HIDE DEF old, new, F, D, L
  <2>6. ASSUME NEW q \in old \cup new PROVE Distance(q[1], q[2]) <= L
    <3>1. CASE q \in old
      <4>1. Distance(q[1], q[2]) <= longest /\ longest <= L
        BY <1>1, <1>2, <1>5, <3>1 DEF old
      <4>. QED  BY <1>2, <2>4, <2>5, <3>1, <4>1
    <3>2. CASE q \in new
      BY <1>2, <2>2, <3>2 DEF new
    <3>. QED  BY <2>6, <3>1, <3>2
  <2>7. L = 0 \/ \E q \in PairsFrom(sampled) : Distance(q[1], q[2]) = L
    <3>1. CASE L = longest
      BY <1>1, <2>3, <3>1 DEF old
    <3>2. CASE L # longest
      <4>1. PICK x \in D : L = depth[x]
        BY <1>2, <3>2
      <4>2. ASSUME L # 0 PROVE \E q \in PairsFrom(sampled) : Distance(q[1], q[2]) = L
        <5>. DEFINE q == <<r, x>>
        <5>1. q \in new /\ q[1] = r /\ q[2] = x
          BY <2>2, <4>1, <4>2 DEF new
        <5>2. Distance(q[1], q[2]) = depth[q[2]]
          <6>. HIDE DEF q
          <6>. QED  BY <2>2, <5>1 DEF new
        <5>. HIDE DEF q
        <5>. QED  BY <2>3, <4>1, <5>1, <5>2
      <4>. QED  BY <4>2
    <3>. QED  BY <3>1, <3>2
  <2>8. AddUp(F, old \cup new) = AddUp(F, old) + AddUp(F, new)
    BY <2>3, <2>4, <2>5, SumOfUnion
  <2>9. SumOf(F, old \cup new) = lengths.total + SumOf(depth, D)
    BY <1>1, <2>2, <2>8, SumIsAddUp DEF old, new
  <2>10. Cardinality(old \cup new) = Cardinality(old) + Cardinality(new)
    <3>1. Cardinality(old \cup new) = Cardinality(old) + Cardinality(new) - Cardinality(old \cap new)
      BY <2>4, FS_Union
    <3>2. Cardinality(old \cap new) = 0
      BY <2>3, FS_EmptySet
    <3>3. Cardinality(old) \in Nat /\ Cardinality(new) \in Nat
      BY <2>4, FS_CardinalityType
    <3>. QED  BY <3>1, <3>2, <3>3
  <2>11. LengthsSoFar.total = SumOf(F, PairsFrom(sampled))
    BY <1>3, <2>3, <2>9
  <2>12. LengthsSoFar.count = Cardinality(PairsFrom(sampled))
    BY <1>1, <1>3, <2>2, <2>3, <2>10 DEF old, new
  <2>13. \A q \in PairsFrom(sampled) : Distance(q[1], q[2]) <= L
    BY <2>3, <2>6
  <2>. QED  BY <2>7, <2>11, <2>12, <2>13 DEF F, L
<1>. QED  BY <1>4, <1>5

LEMMA FiguresInit == ASSUME Init PROVE Figures
<1>1. SUFFICES ASSUME Sampling PROVE Figures
  BY DEF Figures
<1>2. DOMAIN depth = {} /\ sampled = {} /\ longest = 0 /\ lengths = [total |-> 0, count |-> 0]
  BY <1>1 DEF Init, Nowhere, Sampling
<1>3. PairsFrom(Entered) = {}
  BY <1>2 DEF PairsFrom, Entered
<1>4. SumOf(Far(Nodes), PairsFrom(Entered)) = 0 /\ Cardinality(PairsFrom(Entered)) = 0
  BY <1>3, SumIsAddUp, SumOfNone, FS_EmptySet
<1>. QED  BY <1>2, <1>3, <1>4 DEF Figures

LEMMA SamePairs ==
  ASSUME interactions' = interactions
  PROVE  /\ \A S : PairsFrom(S)' = PairsFrom(S)
         /\ Far(Nodes)' = Far(Nodes)
<1>1. /\ Nodes' = Nodes
      /\ \A a : Reachable(a)' = Reachable(a)
      /\ \A a, b : Distance(a, b)' = Distance(a, b)
  BY SameGraph
<1>2. \A S : PairsFrom(S)' = PairsFrom(S)
  BY <1>1 DEF PairsFrom
<1>3. PairsFrom(Nodes)' = PairsFrom(Nodes)
  BY <1>1 DEF PairsFrom
<1>4. Far(Nodes)' = Far(Nodes)
  BY <1>1, <1>3 DEF Far
<1>. QED  BY <1>2, <1>4

LEMMA FiguresKept ==
  ASSUME Figures, interactions' = interactions, job' = job, sampled' = sampled,
         longest' = longest, lengths' = lengths, Entered' = Entered,
         \A a \in DOMAIN depth' : depth'[a] = 0 => a \in DOMAIN depth /\ depth[a] = 0
  PROVE  Figures'
<1>1. SUFFICES ASSUME Sampling PROVE Figures'
  BY DEF Figures, Sampling
<1>2. PairsFrom(Entered)' = PairsFrom(Entered) /\ PairsFrom(Nodes)' = PairsFrom(Nodes)
  BY SameGraph DEF PairsFrom
<1>3. Far(Nodes)' = Far(Nodes) /\ \A a, b : Distance(a, b)' = Distance(a, b)
  BY SamePairs, SameGraph
<1>4. /\ \A a \in DOMAIN depth : depth[a] = 0 => a \in sampled
      /\ \A q \in PairsFrom(Entered) : Distance(q[1], q[2]) <= longest
      /\ longest = 0 \/ \E q \in PairsFrom(Entered) : Distance(q[1], q[2]) = longest
      /\ lengths.total = SumOf(Far(Nodes), PairsFrom(Entered))
      /\ lengths.count = Cardinality(PairsFrom(Entered))
  BY <1>1 DEF Figures
<1>5. SumOf(Far(Nodes), PairsFrom(Entered))' = SumOf(Far(Nodes), PairsFrom(Entered))
  BY <1>2, <1>3
<1>. QED  BY <1>2, <1>3, <1>4, <1>5 DEF Figures

LEMMA FiguresStep == Typed /\ Levels /\ Figures /\ [Next]_vars => Figures'
<1>. SUFFICES ASSUME Typed, Levels, Figures, [Next]_vars PROVE Figures'
  OBVIOUS
<1>1. interactions' = interactions /\ job' = job
  BY Steps DEF question
<1>2. SUFFICES ASSUME Sampling PROVE Figures'
  BY <1>1 DEF Figures, Sampling
<1>3. CASE Expand
  <2>1. /\ DOMAIN depth' = DOMAIN depth \cup Fresh /\ Fresh \cap DOMAIN depth = {}
        /\ \A b \in DOMAIN depth : depth'[b] = depth[b]
        /\ \A b \in Fresh : depth'[b] = depth[Current] + 1
        /\ Current \in DOMAIN depth
    BY <1>3, WhatExpandDoes
  <2>2. sampled' = sampled /\ longest' = longest /\ lengths' = lengths
    BY <1>3 DEF Expand, sampleVars
  <2>3. depth[Current] \in Nat
    BY <2>1 DEF Typed
  <2>. HIDE DEF Fresh
  <2>4. \A b \in Fresh : depth'[b] # 0
    BY <2>1, <2>3
  <2>5. \A a : a \in DOMAIN depth' /\ depth'[a] = 0 <=> a \in DOMAIN depth /\ depth[a] = 0
    BY <2>1, <2>4
  <2>6. Entered' = Entered
    BY <2>2, <2>5 DEF Entered
  <2>. QED  BY <1>1, <2>2, <2>5, <2>6, FiguresKept
<1>4. CASE NextComponent
  BY <1>2, <1>4 DEF NextComponent, Sampling
<1>5. CASE NextSource
  <2>1. PICK s \in Nodes \ sampled : depth' = OnlyFrom(s) /\ sampled' = sampled \cup {s}
    BY <1>5 DEF NextSource
  <2>2. queue = <<>> /\ longest' = LongestSoFar /\ lengths' = LengthsSoFar
    BY <1>5 DEF NextSource
  <2>3. DOMAIN depth' = {s} /\ depth'[s] = 0
    BY <2>1 DEF OnlyFrom
  <2>4. Entered' = sampled
    BY <2>1, <2>3 DEF Entered
  <2>5. PairsFrom(Entered)' = PairsFrom(sampled) /\ PairsFrom(Nodes)' = PairsFrom(Nodes)
    BY <1>1, <2>4, SameGraph DEF PairsFrom
  <2>6. Far(Nodes)' = Far(Nodes) /\ \A a, b : Distance(a, b)' = Distance(a, b)
    BY <1>1, SamePairs, SameGraph
  <2>7. /\ \A q \in PairsFrom(sampled) : Distance(q[1], q[2]) <= LongestSoFar
        /\ LongestSoFar = 0 \/ \E q \in PairsFrom(sampled) : Distance(q[1], q[2]) = LongestSoFar
        /\ LengthsSoFar.total = SumOf(Far(Nodes), PairsFrom(sampled))
        /\ LengthsSoFar.count = Cardinality(PairsFrom(sampled))
    BY <1>2, <2>2, FiguresComplete
  <2>8. SumOf(Far(Nodes), PairsFrom(Entered))' = SumOf(Far(Nodes), PairsFrom(sampled))
    BY <2>5, <2>6
  <2>9. \A a \in DOMAIN depth' : depth'[a] = 0 => a \in sampled'
    BY <2>1, <2>3
  <2>. QED  BY <2>2, <2>5, <2>6, <2>7, <2>8, <2>9 DEF Figures
<1>6. CASE UNCHANGED <<searchVars, components, sampleVars>>
  <2>1. depth' = depth /\ sampled' = sampled /\ longest' = longest /\ lengths' = lengths
    BY <1>6 DEF searchVars, sampleVars
  <2>2. Entered' = Entered
    BY <2>1 DEF Entered
  <2>. QED  BY <1>1, <2>1, <2>2, FiguresKept
<1>. QED  BY <1>3, <1>4, <1>5, <1>6, Steps
-----------------------------------------------------------------------------
(***************************************************************************)
(* All paths: whatever is left untried along the walk will be tried.       *)
(***************************************************************************)
LEMMA SmallerOfTwo ==
  ASSUME NEW a \in Nat, NEW b \in Nat
  PROVE  Min({a, b}) \in {a, b} /\ Min({a, b}) <= a /\ Min({a, b}) <= b
<1>1. \E x \in {a, b} : \A y \in {a, b} : x <= y
  BY a <= b \/ b <= a
<1>2. Min({a, b}) = CHOOSE x \in {a, b} : \A y \in {a, b} : x <= y
  BY DEF Min
<1>. QED  BY <1>1, <1>2

LEMMA WhatPathsAre ==
  ASSUME Typed, job.kind = "paths"
  PROVE  \A p : p \in Paths <=>
           /\ p \in Seq(Actor) /\ Len(p) >= 2 /\ Len(p) <= job.depth + 1
           /\ p[1] = job.from /\ p[Len(p)] = job.to
           /\ \A i, j \in 1..Len(p) : p[i] = p[j] => i = j
           /\ \A i \in 1..(Len(p) - 1) : Linked(p[i], p[i + 1])
<1>. DEFINE c == Cardinality(Actor)
            m == Min({job.depth + 1, c})
            Good(p) == /\ p[1] = job.from /\ p[Len(p)] = job.to
                       /\ \A i \in 1..(Len(p) - 1) : Linked(p[i], p[i + 1])
            Apart(p) == \A i, j \in 1..Len(p) : p[i] = p[j] => i = j
<1>1. job.depth \in Nat /\ c \in Nat /\ job.depth + 1 \in Nat
  BY JobFields, FiniteActors DEF Typed
<1>2. m \in Nat /\ m <= job.depth + 1 /\ m <= c /\ m \in {job.depth + 1, c}
  <2>. DEFINE d == job.depth + 1
  <2>. HIDE DEF d, c
  <2>1. Min({d, c}) \in {d, c} /\ Min({d, c}) <= d /\ Min({d, c}) <= c
    BY <1>1, SmallerOfTwo DEF d
  <2>. QED  BY <1>1, <2>1 DEF d
<1>3. \A p : p \in Paths <=>
        (\E n \in 2..m : p \in [1..n -> Actor]) /\ Good(p) /\ IsInjective(p)
  BY DEF Paths
<1>. HIDE DEF m, c, Good
<1>4. ASSUME NEW p, p \in Paths
      PROVE  p \in Seq(Actor) /\ Len(p) >= 2 /\ Len(p) <= job.depth + 1 /\ Good(p) /\ Apart(p)
  <2>1. PICK n \in 2..m : p \in [1..n -> Actor]
    BY <1>3, <1>4
  <2>2. n \in Nat /\ n >= 2 /\ n <= job.depth + 1
    BY <1>1, <1>2
  <2>3. p \in Seq(Actor) /\ Len(p) = n /\ DOMAIN p = 1..Len(p)
    BY <2>1, <2>2
  <2>4. Good(p) /\ IsInjective(p)
    BY <1>3, <1>4
  <2>5. Apart(p)
    BY <2>3, <2>4 DEF IsInjective
  <2>. QED  BY <2>2, <2>3, <2>4, <2>5
<1>5. ASSUME NEW p \in Seq(Actor), Len(p) >= 2, Len(p) <= job.depth + 1, Good(p), Apart(p)
      PROVE  p \in Paths
  <2>. DEFINE n == Len(p)
  <2>1. n \in Nat /\ p \in [1..n -> Actor] /\ DOMAIN p = 1..n
    OBVIOUS
  <2>2. IsInjective(p)
    BY <1>5, <2>1 DEF IsInjective
  <2>3. n <= c
    <3>. HIDE DEF n
    <3>1. p \in Injection(1..n, Actor)
      BY <2>1, <2>2 DEF Injection
    <3>2. Cardinality(1..n) <= Cardinality(Actor)
      BY <3>1, FS_Injection, ActorAssumption
    <3>3. Cardinality(1..n) = IF 1 > n THEN 0 ELSE n - 1 + 1
      BY <2>1, FS_Interval
    <3>4. n >= 2
      BY <1>5 DEF n
    <3>5. Cardinality(1..n) = n
      BY <2>1, <3>3, <3>4
    <3>. QED  BY <3>2, <3>5 DEF c
  <2>4. n \in 2..m
    BY <1>1, <1>2, <1>5, <2>1, <2>3
  <2>. HIDE DEF n
  <2>. QED  BY <1>3, <1>5, <2>1, <2>2, <2>4
<1>6. \A p : p \in Paths <=>
        p \in Seq(Actor) /\ Len(p) >= 2 /\ Len(p) <= job.depth + 1 /\ Good(p) /\ Apart(p)
  <2>. HIDE DEF Apart
  <2>. QED  BY <1>4, <1>5
<1>. QED  BY <1>6 DEF Good

LEMMA WalkingInit == ASSUME Init PROVE Walking
<1>1. SUFFICES ASSUME job.kind = "paths" PROVE Walking
  BY DEF Walking
<1>2. Typed
  BY TypedInit
<1>. DEFINE f == job.from
<1>3. /\ walk = <<f>> /\ untried = <<Neighbours(f)>> /\ marked = {f} /\ found = {}
  BY <1>1 DEF Init
<1>4. /\ Len(walk) = 1 /\ walk[1] = f /\ untried[1] = Neighbours(f) /\ walk # <<>>
      /\ DOMAIN walk = 1..1
  BY <1>3
<1>5. IsInjective(walk) /\ marked = ToSet(walk)
  BY <1>3, <1>4, ElementsOfOne DEF IsInjective
<1>6. \A i \in 1..(Len(walk) - 1) : Linked(walk[i], walk[i + 1])
  BY <1>4
<1>7. \A i \in 1..Len(walk) : untried[i] \subseteq Neighbours(walk[i])
  BY <1>4
<1>8. ASSUME NEW p \in Paths PROVE LeavesAt(p, 1)
  <2>1. /\ Len(p) \in Nat /\ Len(p) >= 2 /\ p[1] = f
        /\ \A i \in 1..(Len(p) - 1) : Linked(p[i], p[i + 1])
    BY <1>1, <1>2, WhatPathsAre
  <2>2. Linked(p[1], p[1 + 1]) /\ 1 + 1 = 2
    <3>1. 1 \in 1..(Len(p) - 1)
      BY <2>1
    <3>2. \A i \in 1..(Len(p) - 1) : Linked(p[i], p[i + 1])
      BY <2>1
    <3>3. Linked(p[1], p[1 + 1])
      BY <3>1, <3>2, Zenon
    <3>. QED  BY <3>3
  <2>3. p[2] \in Neighbours(f)
    BY <1>2, <2>1, <2>2, NeighboursAreLinked DEF Typed
  <2>4. \A j \in 1..1 : p[j] = walk[j]
    BY <1>4, <2>1
  <2>. QED  BY <1>4, <2>1, <2>3, <2>4 DEF LeavesAt
<1>9. 1 \in 1..Len(walk)
  BY <1>4
<1>. QED  BY <1>3, <1>4, <1>5, <1>6, <1>7, <1>8, <1>9 DEF Walking

LEMMA SamePaths ==
  ASSUME interactions' = interactions, job' = job PROVE Paths' = Paths
<1>1. \A a, b : Linked(a, b)' <=> Linked(a, b)
  BY SameGraph
<1>. QED  BY <1>1 DEF Paths

LEMMA WalkingKept ==
  ASSUME Walking, interactions' = interactions, job' = job, UNCHANGED pathVars
  PROVE  Walking'
<1>1. walk' = walk /\ untried' = untried /\ marked' = marked /\ found' = found
  BY DEF pathVars
<1>2. /\ Paths' = Paths
      /\ \A a : Neighbours(a)' = Neighbours(a)
      /\ \A a, b : Linked(a, b)' <=> Linked(a, b)
  BY SamePaths, SameGraph
<1>3. \A p, i : LeavesAt(p, i)' <=> LeavesAt(p, i)
  BY <1>1 DEF LeavesAt
<1>. QED  BY <1>1, <1>2, <1>3 DEF Walking

\* What the parts of the walk are, by index.
LEMMA WalkFacts ==
  ASSUME Typed, Walking, job.kind = "paths", walk # <<>>
  PROVE  /\ Len(walk) \in Nat /\ Len(walk) >= 1 /\ walk \in Seq(Actor)
         /\ Last(walk) = walk[Len(walk)]
         /\ Open = untried[Len(walk)] \ marked
         /\ \A i, j \in 1..Len(walk) : walk[i] = walk[j] => i = j
         /\ \A x : x \in marked <=> \E i \in 1..Len(walk) : walk[i] = x
         /\ \A i \in 1..Len(walk) : walk[i] \in Actor
<1>1. /\ walk \in Seq(Actor) /\ Len(walk) \in Nat /\ Len(walk) >= 1
      /\ DOMAIN walk = 1..Len(walk)
  BY DEF Typed
<1>2. Last(walk) = walk[Len(walk)] /\ Last(untried) = untried[Len(walk)]
  BY WalkIsSeq
<1>3. \A i, j \in 1..Len(walk) : walk[i] = walk[j] => i = j
  BY <1>1 DEF Walking, IsInjective
<1>4. \A x : x \in marked <=> \E i \in 1..Len(walk) : walk[i] = x
  <2>1. \A x : x \in ToSet(walk) <=> \E i \in 1..Len(walk) : walk[i] = x
    BY <1>1, ElementIndex
  <2>. QED  BY <2>1 DEF Walking
<1>5. \A i \in 1..Len(walk) : walk[i] \in Actor
  BY <1>1
<1>. QED  BY <1>1, <1>2, <1>3, <1>4, <1>5 DEF Open

LEMMA WalkingAscend ==
  ASSUME Typed, Walking, job.kind = "paths", Ascend PROVE Walking'
<1>. DEFINE n == Len(walk)
<1>1. /\ walk # <<>> /\ Open = {}
      /\ walk' = Front(walk) /\ untried' = Front(untried)
      /\ marked' = marked \ {Last(walk)} /\ found' = found
      /\ interactions' = interactions /\ job' = job
  BY DEF Ascend, Unmark, question
<1>2. /\ n \in Nat /\ n >= 1 /\ Last(walk) = walk[n]
      /\ Open = untried[n] \ marked
      /\ \A i, j \in 1..n : walk[i] = walk[j] => i = j
      /\ \A x : x \in marked <=> \E i \in 1..n : walk[i] = x
  BY <1>1, WalkFacts
<1>3. /\ walk' \in Seq(Actor) /\ Len(walk') = n - 1 /\ \A i \in 1..(n - 1) : walk'[i] = walk[i]
      /\ \A i \in 1..(n - 1) : untried'[i] = untried[i]
  <2>1. walk \in Seq(Actor) /\ untried \in Seq(SUBSET Actor) /\ untried # <<>> /\ Len(untried) = n
    BY <1>1, WalkIsSeq DEF Typed
  <2>. HIDE DEF n
  <2>2. Len(Front(walk)) = n - 1 /\ \A i \in 1..(n - 1) : Front(walk)[i] = walk[i]
    BY <1>1, <2>1, FrontOfSeq DEF n
  <2>3. Front(walk) \in Seq(Actor)
    BY <1>1, <2>1, FrontOfSeq
  <2>4. \A i \in 1..(n - 1) : Front(untried)[i] = untried[i]
    BY <2>1, FrontOfSeq
  <2>. QED  BY <1>1, <2>2, <2>3, <2>4
<1>. HIDE DEF n
<1>4. \A i \in 1..(n - 1) : i \in 1..n /\ i # n
  BY <1>2
<1>5. \A x : x \in marked' <=> \E i \in 1..(n - 1) : walk'[i] = x
  <2>1. n \in 1..n /\ \A i \in 1..n : i = n \/ i \in 1..(n - 1)
    BY <1>2
  <2>2. \A x : x \in marked' <=> \E i \in 1..(n - 1) : walk[i] = x
    BY <1>1, <1>2, <1>4, <2>1
  <2>. QED  BY <1>3, <2>2
<1>6. IsInjective(walk') /\ marked' = ToSet(walk')
  <2>1. DOMAIN walk' = 1..(n - 1)
    BY <1>3
  <2>2. IsInjective(walk')
    BY <1>2, <1>3, <1>4, <2>1 DEF IsInjective
  <2>3. \A x : x \in ToSet(walk') <=> \E i \in 1..(n - 1) : walk'[i] = x
    BY <2>1 DEF ToSet
  <2>. QED  BY <1>5, <2>2, <2>3
<1>7. walk' # <<>> => walk'[1] = job.from
  <2>1. ASSUME walk' # <<>> PROVE walk'[1] = job.from
    <3>1. 1 \in 1..(n - 1)
      BY <1>2, <1>3, <2>1
    <3>. QED  BY <1>1, <1>3, <3>1 DEF Walking
  <2>. QED  BY <2>1
<1>8. \A i \in 1..(n - 1 - 1) : Linked(walk'[i], walk'[i + 1])
  <2>1. SUFFICES ASSUME NEW i \in 1..(n - 1 - 1) PROVE Linked(walk'[i], walk'[i + 1])
    OBVIOUS
  <2>2. i \in 1..(n - 1) /\ i + 1 \in 1..(n - 1)
    BY <1>2
  <2>3. Linked(walk[i], walk[i + 1])
    BY <2>2 DEF Walking, n
  <2>. QED  BY <1>3, <2>2, <2>3
<1>9. \A i \in 1..(n - 1) : untried'[i] \subseteq Neighbours(walk'[i])
  <2>1. \A i \in 1..n : untried[i] \subseteq Neighbours(walk[i])
    BY DEF Walking, n
  <2>. QED  BY <1>3, <1>4, <2>1
<1>10. ASSUME NEW p \in Paths, p \notin found PROVE \E i \in 1..(n - 1) : LeavesAt(p, i)'
  <2>1. PICK i \in 1..n : LeavesAt(p, i)
    BY <1>10 DEF Walking, n
  <2>2. i < Len(p) /\ (\A j \in 1..i : p[j] = walk[j]) /\ p[i + 1] \in untried[i]
    BY <2>1 DEF LeavesAt
  <2>3. CASE i = n
    <3>1. p[n + 1] \in marked
      BY <1>1, <1>2, <2>2, <2>3
    <3>2. PICK j \in 1..n : walk[j] = p[n + 1]
      BY <1>2, <3>1
    <3>3. p[j] = p[n + 1]
      BY <2>2, <2>3, <3>2
    <3>4. Len(p) \in Nat /\ \A k, l \in 1..Len(p) : p[k] = p[l] => k = l
      BY WhatPathsAre
    <3>5. j \in 1..Len(p) /\ n + 1 \in 1..Len(p) /\ j # n + 1
      BY <1>2, <2>2, <2>3, <3>4
    <3>. QED  BY <3>3, <3>4, <3>5
  <2>4. CASE i # n
    <3>1. i \in 1..(n - 1)
      BY <1>2, <2>4
    <3>2. \A j \in 1..i : j \in 1..(n - 1)
      BY <1>2, <3>1
    <3>3. (\A j \in 1..i : p[j] = walk'[j]) /\ p[i + 1] \in untried'[i]
      BY <1>3, <2>2, <3>1, <3>2
    <3>. QED  BY <2>2, <3>1, <3>3 DEF LeavesAt
  <2>. QED  BY <2>3, <2>4
<1>11. /\ Paths' = Paths
       /\ \A a : Neighbours(a)' = Neighbours(a)
       /\ \A a, b : Linked(a, b)' <=> Linked(a, b)
  BY <1>1, SamePaths, SameGraph
<1>12. found' \subseteq Paths /\ \A p \in Paths : p \in found' \/ \E i \in 1..(n - 1) : LeavesAt(p, i)'
  BY <1>1, <1>10 DEF Walking
<1>. QED
  BY <1>1, <1>3, <1>6, <1>7, <1>8, <1>9, <1>11, <1>12 DEF Walking

\* One more actor at the end of the walk.
LEMMA WalkExtended ==
  ASSUME Typed, Walking, job.kind = "paths", walk # <<>>, NEW b \in Open
  PROVE  LET longer == Append(walk, b) IN
         /\ b \in Actor /\ Linked(Last(walk), b)
         /\ longer \in Seq(Actor) /\ Len(longer) = Len(walk) + 1
         /\ longer[Len(walk) + 1] = b /\ \A i \in 1..Len(walk) : longer[i] = walk[i]
         /\ longer[1] = job.from
         /\ \A i, j \in 1..(Len(walk) + 1) : longer[i] = longer[j] => i = j
         /\ \A i \in 1..Len(walk) : Linked(longer[i], longer[i + 1])
<1>. DEFINE n == Len(walk)
            longer == Append(walk, b)
<1>1. /\ n \in Nat /\ n >= 1 /\ walk \in Seq(Actor) /\ Last(walk) = walk[n]
      /\ Open = untried[n] \ marked
      /\ \A i, j \in 1..n : walk[i] = walk[j] => i = j
      /\ \A x : x \in marked <=> \E i \in 1..n : walk[i] = x
  BY WalkFacts
<1>2. 1 \in 1..n /\ n \in 1..n
  BY <1>1
<1>3. Linked(walk[n], b) /\ b \in Actor
  <2>1. b \in Neighbours(walk[n])
    BY <1>1, <1>2 DEF Walking
  <2>. QED  BY <2>1, NeighboursAreLinked DEF Typed, Neighbours
<1>4. /\ longer \in Seq(Actor) /\ Len(longer) = n + 1
      /\ longer[n + 1] = b /\ \A i \in 1..n : longer[i] = walk[i]
  BY <1>1, <1>3
<1>. HIDE DEF longer
<1>5. longer[1] = job.from
  BY <1>2, <1>4 DEF Walking
<1>6. \A i \in 1..n : walk[i] # b
  BY <1>1
<1>. HIDE DEF n
<1>7. \A i \in 1..(n + 1) : i \in 1..n \/ i = n + 1
  BY <1>1
<1>8. \A i, j \in 1..(n + 1) : longer[i] = longer[j] => i = j
  BY <1>1, <1>4, <1>6, <1>7
<1>9. \A i \in 1..n : Linked(longer[i], longer[i + 1])
  <2>1. SUFFICES ASSUME NEW i \in 1..n PROVE Linked(longer[i], longer[i + 1])
    OBVIOUS
  <2>2. CASE i = n
    BY <1>2, <1>3, <1>4, <2>2
  <2>3. CASE i # n
    <3>1. i \in 1..(n - 1) /\ i + 1 \in 1..n
      BY <1>1, <2>3
    <3>2. Linked(walk[i], walk[i + 1])
      BY <3>1 DEF Walking, n
    <3>. QED  BY <1>4, <3>1, <3>2
  <2>. QED  BY <2>2, <2>3
<1>. QED  BY <1>1, <1>3, <1>4, <1>5, <1>8, <1>9 DEF n, longer

LEMMA WalkingDescend ==
  ASSUME Typed, Walking, job.kind = "paths", walk # <<>>, NEW b \in Open, Descend(b)
  PROVE  Walking'
<1>. DEFINE n == Len(walk)
            longer == Append(walk, b)
<1>1. interactions' = interactions /\ job' = job
  BY DEF Descend, question
<1>2. /\ Paths' = Paths
      /\ \A a : Neighbours(a)' = Neighbours(a)
      /\ \A a, c : Linked(a, c)' <=> Linked(a, c)
  BY <1>1, SamePaths, SameGraph
<1>3. /\ n \in Nat /\ n >= 1 /\ n \in 1..n /\ walk \in Seq(Actor)
      /\ Tried(b) \in Seq(SUBSET Actor) /\ Len(Tried(b)) = n
      /\ \A i \in 1..n : Tried(b)[i] = IF i = n THEN untried[i] \ {b} ELSE untried[i]
  BY WalkFacts, WalkIsSeq
<1>4. /\ b \in Actor /\ longer \in Seq(Actor) /\ Len(longer) = n + 1
      /\ longer[n + 1] = b /\ \A i \in 1..n : longer[i] = walk[i]
      /\ longer[1] = job.from
      /\ \A i, j \in 1..(n + 1) : longer[i] = longer[j] => i = j
      /\ \A i \in 1..n : Linked(longer[i], longer[i + 1])
  BY WalkExtended
<1>. HIDE DEF longer, n
<1>5. \A i \in 1..n : Tried(b)[i] \subseteq Neighbours(walk[i])
  BY <1>3 DEF Walking, n
\* A path that was going to be found by way of b goes through the longer walk.
<1>6. ASSUME NEW p \in Paths, p \notin found,
             ~ \E i \in 1..n : i < Len(p) /\ (\A j \in 1..i : p[j] = walk[j]) /\ p[i + 1] \in Tried(b)[i]
      PROVE  n + 1 <= Len(p) /\ \A j \in 1..(n + 1) : p[j] = longer[j]
  <2>1. PICK i \in 1..n : LeavesAt(p, i)
    BY <1>6 DEF Walking, n
  <2>2. i < Len(p) /\ (\A j \in 1..i : p[j] = walk[j]) /\ p[i + 1] \in untried[i]
    BY <2>1 DEF LeavesAt
  <2>3. p[i + 1] \notin Tried(b)[i]
    BY <1>6, <2>2
  <2>4. i = n /\ p[n + 1] = b
    BY <1>3, <2>2, <2>3
  <2>5. Len(p) \in Nat
    BY WhatPathsAre
  <2>6. \A j \in 1..(n + 1) : j \in 1..n \/ j = n + 1
    BY <1>3
  <2>7. \A j \in 1..(n + 1) : p[j] = longer[j]
    BY <1>4, <2>2, <2>4, <2>6
  <2>. QED  BY SMTT(30), <1>3, <2>2, <2>4, <2>5, <2>7
<1>7. CASE TooDeep \/ b = job.to
  <2>1. /\ untried' = Tried(b) /\ walk' = walk /\ marked' = marked
        /\ found' = found \cup (IF TooDeep THEN {} ELSE {longer})
    BY <1>7 DEF Descend, longer
  <2>2. ~TooDeep => longer \in Paths
    <3>1. ASSUME ~TooDeep PROVE longer \in Paths
      <4>1. n <= job.depth /\ job.depth \in Nat /\ b = job.to
        BY <1>3, <1>7, <3>1, JobFields DEF TooDeep, n, Typed
      <4>2. n + 1 >= 2 /\ n + 1 <= job.depth + 1 /\ n + 1 - 1 = n
        BY <1>3, <4>1
      <4>3. \A i \in 1..(Len(longer) - 1) : Linked(longer[i], longer[i + 1])
        <5>1. \A i \in 1..(Len(longer) - 1) : i \in 1..n
          BY <1>3, <1>4
        <5>. QED  BY <1>4, <5>1
      <4>4. longer[Len(longer)] = job.to
        BY <1>4, <4>1
      <4>5. Len(longer) >= 2 /\ Len(longer) <= job.depth + 1
        BY <1>4, <4>2
      <4>6. \A i, j \in 1..Len(longer) : longer[i] = longer[j] => i = j
        BY <1>4
      <4>. QED  BY <1>4, <4>3, <4>4, <4>5, <4>6, WhatPathsAre
    <3>. QED  BY <3>1
  <2>3. found' \subseteq Paths
    BY <2>1, <2>2 DEF Walking
  <2>4. ASSUME NEW p \in Paths, p \notin found, ~ \E i \in 1..n : LeavesAt(p, i)' PROVE p \in found'
    <3>1. ~ \E i \in 1..n : i < Len(p) /\ (\A j \in 1..i : p[j] = walk[j]) /\ p[i + 1] \in Tried(b)[i]
      BY <2>1, <2>4 DEF LeavesAt
    <3>2. n + 1 <= Len(p) /\ \A j \in 1..(n + 1) : p[j] = longer[j]
      BY <1>6, <2>4, <3>1
    <3>3. /\ p \in Seq(Actor) /\ Len(p) \in Nat /\ Len(p) <= job.depth + 1 /\ p[Len(p)] = job.to
          /\ \A i, j \in 1..Len(p) : p[i] = p[j] => i = j
      BY WhatPathsAre
    <3>4. ~TooDeep
      BY <1>3, <3>2, <3>3, JobFields DEF TooDeep, n, Typed
    <3>5. n + 1 \in 1..Len(p) /\ Len(p) \in 1..Len(p) /\ n + 1 \in 1..(n + 1)
      BY <1>3, <3>2, <3>3
    <3>6. p[n + 1] = p[Len(p)]
      BY <1>4, <1>7, <3>2, <3>3, <3>4, <3>5
    <3>7. Len(p) = n + 1
      BY <3>3, <3>5, <3>6
    <3>8. p = longer
      BY <1>4, <3>2, <3>3, <3>7
    <3>. QED  BY <2>1, <3>4, <3>8
  <2>5. \A p \in Paths : p \in found' \/ \E i \in 1..n : LeavesAt(p, i)'
    BY <2>1, <2>4
  <2>. QED  BY <1>1, <1>2, <1>5, <2>1, <2>3, <2>5 DEF Walking, n
<1>8. CASE ~ (TooDeep \/ b = job.to)
  <2>1. /\ untried' = Append(Tried(b), Neighbours(b)) /\ walk' = longer
        /\ marked' = marked \cup {b} /\ found' = found
    BY <1>8 DEF Descend, longer
  <2>2. /\ Len(walk') = n + 1 /\ DOMAIN walk' = 1..(n + 1)
        /\ untried'[n + 1] = Neighbours(b) /\ \A i \in 1..n : untried'[i] = Tried(b)[i]
    <3>. DEFINE u == Tried(b)
                v == Neighbours(b)
    <3>1. u \in Seq(SUBSET Actor) /\ v \in SUBSET Actor /\ Len(u) = n
      BY <1>3, NeighboursAreLinked DEF Typed, Neighbours
    <3>. HIDE DEF u, v
    <3>2. Append(u, v)[n + 1] = v /\ \A i \in 1..n : Append(u, v)[i] = u[i]
      BY <3>1
    <3>3. DOMAIN longer = 1..Len(longer)
      BY <1>4
    <3>. QED  BY <1>4, <2>1, <3>2, <3>3 DEF u, v
  <2>3. \A i \in 1..(n + 1) : i \in 1..n \/ i = n + 1
    BY <1>3
  <2>4. IsInjective(walk') /\ marked' = ToSet(walk')
    <3>1. IsInjective(walk')
      BY <1>4, <2>1, <2>2 DEF IsInjective
    <3>2. \A x : x \in marked <=> \E i \in 1..n : walk[i] = x
      BY WalkFacts DEF n
    <3>3. \A x : x \in ToSet(walk') <=> \E i \in 1..(n + 1) : longer[i] = x
      BY <2>1, <2>2 DEF ToSet
    <3>4. \A i \in 1..n : i \in 1..(n + 1)
      BY <1>3
    <3>5. n + 1 \in 1..(n + 1)
      BY <1>3
    <3>6. \A x : x \in ToSet(walk') <=> x \in marked \/ x = b
      BY <1>4, <2>3, <3>2, <3>3, <3>4, <3>5
    <3>. QED  BY <2>1, <3>1, <3>6
  <2>5. \A i \in 1..(n + 1) : untried'[i] \subseteq Neighbours(walk'[i])
    <3>1. SUFFICES ASSUME NEW i \in 1..(n + 1) PROVE untried'[i] \subseteq Neighbours(walk'[i])
      OBVIOUS
    <3>2. CASE i \in 1..n
      BY <1>4, <1>5, <2>1, <2>2, <3>2
    <3>3. CASE i = n + 1
      <4>1. untried'[i] = Neighbours(b) /\ walk'[i] = b
        BY <1>4, <2>1, <2>2, <3>3
      <4>. QED  BY <4>1
    <3>. QED  BY <2>3, <3>2, <3>3
  <2>6. \A i \in 1..(n + 1 - 1) : Linked(walk'[i], walk'[i + 1])
    BY <1>3, <1>4, <2>1
  <2>7. ASSUME NEW p \in Paths, p \notin found, ~ \E i \in 1..n : LeavesAt(p, i)',
               NEW k \in 1..(n + 1), k = n + 1
        PROVE  LeavesAt(p, k)'
    <3>1. ~ \E i \in 1..n : i < Len(p) /\ (\A j \in 1..i : p[j] = walk[j]) /\ p[i + 1] \in Tried(b)[i]
      <4>1. \A i \in 1..n : \A j \in 1..i : j \in 1..n
        BY <1>3
      <4>2. \A i \in 1..n : \A j \in 1..i : walk'[j] = walk[j]
        BY <1>4, <2>1, <4>1
      <4>. QED  BY <2>2, <2>7, <4>2 DEF LeavesAt
    <3>2. n + 1 <= Len(p) /\ \A j \in 1..(n + 1) : p[j] = longer[j]
      BY <1>6, <2>7, <3>1
    <3>3. /\ Len(p) \in Nat /\ p[Len(p)] = job.to
          /\ \A i \in 1..(Len(p) - 1) : Linked(p[i], p[i + 1])
      BY SMTT(30), WhatPathsAre
    <3>4. n + 1 \in 1..(n + 1) /\ p[n + 1] = b
      BY <1>3, <1>4, <3>2
    <3>5. Len(p) # n + 1
      BY <1>8, <3>3, <3>4
    <3>6. n + 1 < Len(p) /\ n + 1 \in 1..(Len(p) - 1)
      BY <1>3, <3>2, <3>3, <3>5
    <3>7. k \in 1..(Len(p) - 1) /\ p[k] = b /\ k < Len(p)
      BY <2>7, <3>4, <3>6
    <3>8. Linked(b, p[k + 1])
      <4>1. Linked(p[k], p[k + 1])
        BY <3>3, <3>7
      <4>. QED  BY <3>7, <4>1
    <3>9. p[k + 1] \in Neighbours(b)
      BY <3>8, NeighboursAreLinked DEF Typed
    <3>10. p[k + 1] \in untried'[k]
      BY <2>2, <2>7, <3>9
    <3>11. \A j \in 1..k : p[j] = walk'[j]
      BY <2>1, <2>7, <3>2
    <3>. QED  BY <3>7, <3>10, <3>11 DEF LeavesAt
  <2>8. \A i \in 1..n : i \in 1..(n + 1)
    BY <1>3
  <2>9. \A p \in Paths : p \in found' \/ \E i \in 1..(n + 1) : LeavesAt(p, i)'
    <3>1. n + 1 \in 1..(n + 1)
      BY <1>3
    <3>. QED  BY <2>1, <2>7, <2>8, <3>1
  <2>10. found' \subseteq Paths /\ walk'[1] = job.from
    BY <1>4, <2>1 DEF Walking
  <2>11. \A i \in 1..Len(walk') : untried'[i] \subseteq Neighbours(walk'[i])
    BY <2>2, <2>5
  <2>12. \A i \in 1..(Len(walk') - 1) : Linked(walk'[i], walk'[i + 1])
    <3>1. Len(walk') - 1 = n + 1 - 1
      <4>1. Len(walk') = n + 1
        BY <2>2
      <4>. QED  BY <1>3, <4>1
    <3>2. 1..(Len(walk') - 1) = 1..(n + 1 - 1)
      BY <3>1, Zenon
    <3>. QED  BY <2>6, <3>2
  <2>13. \A p \in Paths' : p \in found' \/ \E i \in 1..Len(walk') : LeavesAt(p, i)'
    BY <1>2, <2>2, <2>9
  <2>14. found' \subseteq Paths'
    BY <1>2, <2>10
  <2>. QED  BY <1>1, <1>2, <2>4, <2>10, <2>11, <2>12, <2>13, <2>14 DEF Walking
<1>. QED  BY <1>7, <1>8

LEMMA WalkingStep == Typed /\ Walking /\ [Next]_vars => Walking'
<1>. SUFFICES ASSUME Typed, Walking, [Next]_vars PROVE Walking'
  OBVIOUS
<1>1. interactions' = interactions /\ job' = job
  BY Steps DEF question
<1>2. CASE walk # <<>> /\ \E b \in Open : Descend(b)
  <2>1. PICK b \in Open : Descend(b)
    BY <1>2
  <2>2. job.kind = "paths"
    BY <2>1 DEF Descend
  <2>. QED  BY <1>2, <2>1, <2>2, WalkingDescend
<1>3. CASE Ascend
  BY <1>3, WalkingAscend DEF Ascend
<1>4. CASE UNCHANGED pathVars
  BY <1>1, <1>4, WalkingKept
<1>. QED  BY <1>2, <1>3, <1>4, Steps
-----------------------------------------------------------------------------
(***************************************************************************)
(* What has been answered is what the search state says, and nothing       *)
(* changes any more.                                                       *)
(***************************************************************************)
LEMMA SameResults ==
  ASSUME UNCHANGED <<question, searchVars, components, sampleVars>>
  PROVE  /\ PathTo(job.to)' = PathTo(job.to)
         /\ Class' = Class /\ Nodes' = Nodes
         /\ LongestSoFar' = LongestSoFar /\ LengthsSoFar' = LengthsSoFar
         /\ SampleSize' = SampleSize /\ (Sampling' <=> Sampling)
         /\ \A a : Neighbours(a)' = Neighbours(a)
<1>1. /\ interactions' = interactions /\ job' = job
      /\ queue' = queue /\ depth' = depth /\ parent' = parent /\ components' = components
      /\ sampled' = sampled /\ longest' = longest /\ lengths' = lengths
  BY DEF question, searchVars, sampleVars
<1>2. PathTo(job.to)' = PathTo(job.to)
  BY <1>1 DEF PathTo
<1>3. Class' = Class
  BY <1>1 DEF Class
<1>4. Nodes' = Nodes /\ \A a : Neighbours(a)' = Neighbours(a)
  BY <1>1, SameGraph
<1>5. LongestSoFar' = LongestSoFar
  BY <1>1 DEF LongestSoFar
<1>6. SumOf(depth, DOMAIN depth)' = SumOf(depth, DOMAIN depth)
  BY <1>1
<1>7. LengthsSoFar' = LengthsSoFar
  BY <1>1, <1>6 DEF LengthsSoFar
<1>8. SampleSize' = SampleSize /\ (Sampling' <=> Sampling)
  BY <1>1, <1>4 DEF SampleSize, Sampling
<1>. QED  BY <1>2, <1>3, <1>4, <1>5, <1>7, <1>8

LEMMA AnsweredInit == ASSUME Init PROVE Answered
<1>1. status = IF job.kind = "ego" /\ job.from \notin Nodes THEN "nil" ELSE "running"
  BY DEF Init
<1>. QED  BY <1>1 DEF Answered, Sampling

LEMMA AnsweredStep == Answered /\ [Next]_vars => Answered'
<1>. SUFFICES ASSUME Answered, [Next]_vars PROVE Answered'
  OBVIOUS
<1>1. ASSUME status' = "running" PROVE Answered'
  BY <1>1 DEF Answered
<1>. DEFINE Same == UNCHANGED <<question, searchVars, components, sampleVars>>
<1>2. ASSUME Same
      PROVE  /\ job' = job /\ queue' = queue /\ depth' = depth /\ sampled' = sampled
             /\ components' = components
             /\ PathTo(job.to)' = PathTo(job.to)
             /\ Class' = Class /\ Nodes' = Nodes
             /\ LongestSoFar' = LongestSoFar /\ LengthsSoFar' = LengthsSoFar
             /\ SampleSize' = SampleSize /\ (Sampling' <=> Sampling)
             /\ \A a : Neighbours(a)' = Neighbours(a)
  BY <1>2, SameResults DEF question, searchVars, sampleVars
<1>3. CASE Found
  <2>1. Same /\ queue # <<>> /\ IsTarget(Current) /\ status' = "done" /\ answer' = <<PathTo(job.to)>>
    BY <1>3 DEF Found
  <2>2. job.kind = "shortest" /\ Head(queue) = job.to
    BY <2>1 DEF IsTarget, Current
  <2>. QED  BY <1>2, <2>1, <2>2 DEF Answered, Sampling
<1>4. CASE NoPath
  <2>1. Same /\ queue = <<>> /\ job.kind = "shortest" /\ status' = "nil"
    BY <1>4 DEF NoPath
  <2>. QED  BY <1>2, <2>1 DEF Answered, Sampling
<1>5. CASE EgoNetwork
  <2>1. /\ Same /\ queue = <<>> /\ job.kind = "ego" /\ status' = "done"
        /\ answer' = <<[nodes |-> DOMAIN depth,
                        edges |-> {p \in (DOMAIN depth) \X (DOMAIN depth) : p[2] \in Neighbours(p[1])}]>>
    BY <1>5 DEF EgoNetwork
  <2>2. {p \in (DOMAIN depth) \X (DOMAIN depth) : p[2] \in Neighbours(p[1])}'
          = {p \in (DOMAIN depth) \X (DOMAIN depth) : p[2] \in Neighbours(p[1])}
    BY <1>2, <2>1
  <2>. QED  BY <1>2, <2>1, <2>2 DEF Answered, Sampling
<1>6. CASE AllComponents
  <2>1. /\ Same /\ queue = <<>> /\ job.kind = "components" /\ Nodes \subseteq DOMAIN depth
        /\ answer' = <<components \cup ({Class} \ {{}})>>
    BY <1>6 DEF AllComponents, Class
  <2>2. (components \cup ({Class} \ {{}}))' = components \cup ({Class} \ {{}})
    BY <1>2, <2>1
  <2>. QED  BY <1>2, <2>1, <2>2 DEF Answered, Sampling
<1>7. CASE Diameter
  <2>1. /\ Same /\ queue = <<>> /\ Sampling /\ status' = "done"
        /\ Cardinality(Nodes) >= 2 => Cardinality(sampled) = SampleSize
        /\ answer' = <<IF job.kind = "diameter" THEN [longest |-> LongestSoFar] ELSE LengthsSoFar>>
    BY <1>7 DEF Diameter, Sampling
  <2>. QED  BY <1>2, <2>1 DEF Answered, Sampling
<1>8. CASE AllPaths
  <2>1. job.kind = "paths" /\ job' = job /\ walk = <<>> /\ answer' = <<found>>
        /\ walk' = walk /\ found' = found
    BY <1>8 DEF AllPaths, question, pathVars
  <2>. QED  BY <2>1 DEF Answered, Sampling
<1>9. CASE UNCHANGED vars
  <2>1. Same /\ status' = status /\ answer' = answer /\ walk' = walk /\ found' = found
    BY <1>9 DEF vars, pathVars
  <2>2. {p \in (DOMAIN depth) \X (DOMAIN depth) : p[2] \in Neighbours(p[1])}'
          = {p \in (DOMAIN depth) \X (DOMAIN depth) : p[2] \in Neighbours(p[1])}
    BY <1>2, <2>1
  <2>. QED  BY <1>2, <2>1, <2>2 DEF Answered
<1>10. CASE Expand  BY <1>1, <1>10 DEF Expand
<1>11. CASE NextComponent  BY <1>1, <1>11 DEF NextComponent
<1>12. CASE NextSource  BY <1>1, <1>12 DEF NextSource
<1>13. CASE walk # <<>> /\ \E b \in Open : Descend(b)
  BY <1>1, <1>13 DEF Descend
<1>14. CASE Ascend  BY <1>1, <1>14 DEF Ascend
<1>. QED
  BY <1>3, <1>4, <1>5, <1>6, <1>7, <1>8, <1>9, <1>10, <1>11, <1>12, <1>13, <1>14
  DEF Next, Search, EnumeratePaths

LEMMA InvAlways == Spec => []Inv
<1>1. Init => Inv
  BY TypedInit, LevelsInit, ParentsInit, ClassesInit, WalkingInit, FiguresInit, AnsweredInit
  DEF Inv
<1>2. Inv /\ [Next]_vars => Inv'
  BY TypedStep, LevelsStep, ParentsStep, ClassesStep, WalkingStep, FiguresStep, AnsweredStep
  DEF Inv
<1>. QED  BY <1>1, <1>2, PTL DEF Spec
-----------------------------------------------------------------------------
(***************************************************************************)
(* ShortestPath returns a walk between the two actors that no other walk   *)
(* beats, and nil exactly when there is none.                              *)
(***************************************************************************)
THEOREM ShortestPathsAreShortest == Spec => []PathIsShortest
<1>1. Inv => PathIsShortest
  <2>1. SUFFICES ASSUME Inv, Asked("shortest")
                 PROVE  IF status = "nil" THEN job.to \notin Reachable(job.from)
                        ELSE LET path == answer[1] IN
                             /\ path[1] = job.from /\ path[Len(path)] = job.to
                             /\ \A i \in 1..(Len(path) - 1) : Linked(path[i], path[i + 1])
                             /\ Len(path) - 1 = Distance(job.from, job.to)
    BY TypedImpliesTypeOK DEF PathIsShortest, Inv
  <2>2. job.kind = "shortest" /\ status \in {"nil", "done"}
    BY <2>1 DEF Asked, Inv, Typed
  <2>3. CASE status = "nil"
    <3>1. queue = <<>>
      BY <2>1, <2>2, <2>3 DEF Inv, Answered
    <3>. QED  BY <2>1, <2>2, <2>3, <3>1, UnreachedWhenExhausted DEF Inv
  <2>4. CASE status = "done"
    <3>1. queue # <<>> /\ Head(queue) = job.to /\ answer = <<PathTo(job.to)>>
      BY <2>1, <2>2, <2>4 DEF Inv, Answered
    <3>2. job.to \in DOMAIN depth
      BY <2>1, <3>1, ElementsOfTail DEF Inv, Typed
    <3>. DEFINE path == PathTo(job.to)
    <3>3. /\ path[1] = job.from /\ path[Len(path)] = job.to
          /\ \A i \in 1..(Len(path) - 1) : Linked(path[i], path[i + 1])
          /\ Len(path) - 1 = Distance(job.from, job.to)
      BY <2>1, <2>2, <3>2, ShortestIsFound DEF Inv
    <3>. HIDE DEF path
    <3>4. answer[1] = path
      BY <3>1 DEF path
    <3>. QED  BY <2>4, <3>3, <3>4
  <2>. QED  BY <2>2, <2>3, <2>4
<1>. QED  BY <1>1, InvAlways, PTL

(***************************************************************************)
(* EgoNetwork returns everyone within the depth, with the edges among      *)
(* them.                                                                   *)
(***************************************************************************)
THEOREM EgoNetworksAreNeighbourhoods == Spec => []EgoIsNeighbourhood
<1>1. Inv => EgoIsNeighbourhood
  <2>1. SUFFICES ASSUME Inv, job.kind = "ego", status # "running"
                 PROVE  IF status = "nil" THEN job.from \notin Nodes
                        ELSE /\ answer[1].nodes = Within(job.from, job.depth)
                             /\ \A a, b \in answer[1].nodes :
                                  <<a, b>> \in answer[1].edges <=> Linked(a, b)
    BY DEF EgoIsNeighbourhood, Asked
  <2>2. status = "nil" => job.from \notin Nodes
    BY <2>1 DEF Inv, Answered
  <2>3. CASE status # "nil"
    <3>1. status = "done"
      BY <2>1, <2>3 DEF Inv, Typed
    <3>2. /\ queue = <<>>
          /\ answer = <<[nodes |-> DOMAIN depth,
                         edges |-> {p \in (DOMAIN depth) \X (DOMAIN depth) :
                                      p[2] \in Neighbours(p[1])}]>>
      BY <2>1, <3>1 DEF Inv, Answered
    <3>3. answer[1].nodes = DOMAIN depth
          /\ answer[1].edges = {p \in (DOMAIN depth) \X (DOMAIN depth) : p[2] \in Neighbours(p[1])}
      BY <3>2
    <3>4. DOMAIN depth = Within(job.from, job.depth)
      BY <2>1, <3>2, EgoIsWithin DEF Inv
    <3>5. \A a, b : b \in Neighbours(a) <=> Linked(a, b)
      BY <2>1, NeighboursAreLinked DEF Inv, Typed
    <3>6. \A a, b \in DOMAIN depth : <<a, b>> \in answer[1].edges <=> Linked(a, b)
      BY <3>3, <3>5
    <3>. QED  BY <2>3, <3>3, <3>4, <3>6
  <2>. QED  BY <2>2, <2>3
<1>. QED  BY <1>1, InvAlways, PTL

(***************************************************************************)
(* ConnectedComponents returns the reachability classes.                   *)
(***************************************************************************)
THEOREM ComponentsAreTheClasses == Spec => []ComponentsAreClasses
<1>1. Inv => ComponentsAreClasses
  <2>1. SUFFICES ASSUME Inv, job.kind = "components", status # "running"
                 PROVE  answer[1] = {Reachable(a) : a \in Nodes}
    BY DEF ComponentsAreClasses, Asked
  <2>2. /\ queue = <<>> /\ Nodes \subseteq DOMAIN depth
        /\ answer = <<components \cup ({Class} \ {{}})>>
    BY <2>1 DEF Inv, Answered
  <2>3. components \cup ({Class} \ {{}}) = {Reachable(a) : a \in Nodes}
    BY <2>1, <2>2, AllClassesFound DEF Inv
  <2>. QED  BY <2>2, <2>3
<1>. QED  BY <1>1, InvAlways, PTL

(***************************************************************************)
(* GraphDiameter and AveragePathLength: for a sample of the size asked     *)
(* for, the diameter is the largest of the distances from the sampled      *)
(* actors, and the average their sum and their number.                     *)
(***************************************************************************)
THEOREM DiametersAreAttained == Spec => []DiameterIsAttained
<1>1. Inv => DiameterIsAttained
  <2>. DEFINE pairs == {q \in Nodes \X Nodes : q[1] # q[2] /\ q[2] \in Reachable(q[1])}
              far == [p \in pairs |-> Distance(p[1], p[2])]
              from(S) == {p \in pairs : p[1] \in S}
              Samples == {S \in SUBSET Nodes : Cardinality(S) = SampleSize}
              Longest(S) == /\ answer[1].longest \in {0} \cup {far[p] : p \in from(S)}
                            /\ \A p \in from(S) : far[p] <= answer[1].longest
              Lengths(S) == answer[1] = [total |-> SumOf(far, from(S)),
                                         count |-> Cardinality(from(S))]
  <2>. SUFFICES ASSUME Inv, Cardinality(Nodes) >= 2
                PROVE  /\ Asked("diameter") => \E S \in Samples : Longest(S)
                       /\ Asked("average") => \E S \in Samples : Lengths(S)
    BY DEF DiameterIsAttained
  <2>1. far = Far(Nodes) /\ from(sampled) = PairsFrom(sampled)
    <3>1. pairs = PairsFrom(Nodes) /\ from(sampled) = PairsFrom(sampled)
      BY DEF PairsFrom
    <3>. HIDE DEF pairs
    <3>. QED  BY <3>1 DEF Far
  <2>2. Typed /\ Levels /\ Figures /\ Answered
    BY DEF Inv
  <2>3. sampled \subseteq Nodes
    BY <2>2 DEF Typed
  <2>4. ASSUME Sampling, status # "running"
        PROVE  /\ sampled \in Samples
               /\ \A q \in PairsFrom(sampled) : Distance(q[1], q[2]) <= LongestSoFar
               /\ LongestSoFar = 0 \/ \E q \in PairsFrom(sampled) : Distance(q[1], q[2]) = LongestSoFar
               /\ LengthsSoFar.total = SumOf(Far(Nodes), PairsFrom(sampled))
               /\ LengthsSoFar.count = Cardinality(PairsFrom(sampled))
               /\ answer = <<IF job.kind = "diameter" THEN [longest |-> LongestSoFar] ELSE LengthsSoFar>>
    <3>1. /\ queue = <<>> /\ Cardinality(sampled) = SampleSize
          /\ answer = <<IF job.kind = "diameter" THEN [longest |-> LongestSoFar] ELSE LengthsSoFar>>
      BY <2>2, <2>4 DEF Answered
    <3>. QED  BY <2>2, <2>3, <2>4, <3>1, FiguresComplete
  <2>5. \A q \in PairsFrom(sampled) : Far(Nodes)[q] = Distance(q[1], q[2])
    <3>1. PairsFrom(sampled) \subseteq PairsFrom(Nodes)
      BY <2>3 DEF PairsFrom
    <3>. QED  BY <3>1 DEF Far
  <2>. HIDE DEF pairs, far, from
  <2>6. ASSUME Asked("diameter") PROVE \E S \in Samples : Longest(S)
    <3>1. Sampling /\ status # "running" /\ job.kind = "diameter"
      BY <2>6 DEF Asked, Sampling
    <3>2. answer[1].longest = LongestSoFar /\ sampled \in Samples
      BY <2>4, <3>1
    <3>3. LongestSoFar \in {0} \cup {far[p] : p \in from(sampled)}
      BY <2>1, <2>4, <2>5, <3>1
    <3>4. \A p \in from(sampled) : far[p] <= LongestSoFar
      BY <2>1, <2>4, <2>5, <3>1
    <3>5. Longest(sampled)
      BY <3>2, <3>3, <3>4
    <3>. QED  BY <3>2, <3>5
  <2>7. ASSUME Asked("average") PROVE \E S \in Samples : Lengths(S)
    <3>1. Sampling /\ status # "running" /\ job.kind = "average"
      BY <2>7 DEF Asked, Sampling
    <3>2. answer[1] = LengthsSoFar /\ sampled \in Samples
      BY <2>4, <3>1
    <3>3. LengthsSoFar = [total |-> LengthsSoFar.total, count |-> LengthsSoFar.count]
      BY DEF LengthsSoFar
    <3>4. Lengths(sampled)
      BY <2>1, <2>4, <3>1, <3>2, <3>3
    <3>. QED  BY <3>2, <3>4
  <2>. QED  BY <2>6, <2>7
<1>. QED  BY <1>1, InvAlways, PTL

(***************************************************************************)
(* AllPathsUpToDepth returns every path without repetition of at most the  *)
(* depth, and nothing else.                                                *)
(***************************************************************************)
THEOREM EveryPathIsFound == Spec => []AllPathsAreFound
<1>1. Inv => AllPathsAreFound
  <2>1. SUFFICES ASSUME Inv, job.kind = "paths", status # "running" PROVE answer[1] = Paths
    BY DEF AllPathsAreFound, Asked, Paths
  <2>2. walk = <<>> /\ answer = <<found>>
    BY <2>1 DEF Inv, Answered
  <2>3. \A i : i \notin 1..Len(walk)
    BY <2>2
  <2>4. found \subseteq Paths /\ \A p \in Paths : p \in found \/ \E i \in 1..Len(walk) : LeavesAt(p, i)
    BY <2>1 DEF Inv, Walking
  <2>5. found = Paths
    BY <2>3, <2>4
  <2>. QED  BY <2>2, <2>5
<1>. QED  BY <1>1, InvAlways, PTL
=============================================================================
