----------------------------- MODULE DataLemmas -----------------------------
(***************************************************************************)
(* Facts about naturals, sequences, finite sets and sums that the proofs   *)
(* about several components share.                                         *)
(***************************************************************************)
EXTENDS Integers, Sequences, SequencesExt, FiniteSetTheorems, Functions,
        WellFoundedInduction, TLAPS

(***************************************************************************)
(* Induction over the naturals, stated for a set, since a fact with an     *)
(* operator as a parameter cannot be instantiated.                         *)
(***************************************************************************)
LEMMA NatSetInduction ==
  ASSUME NEW S, 0 \in S, \A n \in Nat : n \in S => n + 1 \in S
  PROVE  Nat \subseteq S
<1>. DEFINE T == Nat \ S
            R == {ss \in Nat \X Nat : ss[1] < ss[2]}
<1>. SUFFICES ASSUME T # {} PROVE FALSE
  OBVIOUS
<1>1. IsWellFoundedOn(R, Nat)
  BY NatLessThanWellFounded DEF OpToRel
<1>2. \E x \in T : \A y \in T : ~ (<<y, x>> \in R)
  <2>1. T \subseteq Nat
    OBVIOUS
  <2>. HIDE DEF T, R
  <2>. QED  BY <2>1, <1>1, WFMin
<1>3. PICK x \in T : \A y \in T : ~ (y < x)
  BY <1>2
<1>4. x # 0 /\ x \in Nat
  OBVIOUS
<1>5. x - 1 \in Nat /\ x - 1 < x /\ (x - 1) + 1 = x
  BY <1>4
<1>. QED  BY <1>3, <1>4, <1>5
-----------------------------------------------------------------------------
LEMMA SeqOfIsSeq ==
  ASSUME NEW S, NEW n \in Nat, NEW s
  PROVE  s \in SeqOf(S, n) <=> s \in Seq(S) /\ Len(s) <= n
<1>1. ASSUME s \in SeqOf(S, n) PROVE s \in Seq(S) /\ Len(s) <= n
  <2>1. PICK m \in 0..n : s \in [1..m -> S]
    BY <1>1 DEF SeqOf
  <2>. QED  BY <2>1
<1>2. ASSUME s \in Seq(S), Len(s) <= n PROVE s \in SeqOf(S, n)
  <2>1. Len(s) \in 0..n /\ s \in [1..Len(s) -> S]
    BY <1>2
  <2>. QED  BY <2>1 DEF SeqOf
<1>. QED  BY <1>1, <1>2

LEMMA EmptyIsSeqOf == ASSUME NEW S, NEW n \in Nat PROVE <<>> \in SeqOf(S, n)
<1>1. 0 \in 0..n /\ <<>> \in [1..0 -> S]
  OBVIOUS
<1>. QED  BY <1>1 DEF SeqOf

LEMMA ElementsOfConcat ==
  ASSUME NEW S, NEW s \in Seq(S), NEW t \in Seq(S)
  PROVE  ToSet(s \o t) = ToSet(s) \cup ToSet(t)
<1>1. \A i \in 1..Len(s) : (s \o t)[i] = s[i] /\ i \in 1..Len(s \o t)
  OBVIOUS
<1>2. \A i \in 1..Len(t) : (s \o t)[Len(s) + i] = t[i] /\ Len(s) + i \in 1..Len(s \o t)
  OBVIOUS
<1>3. ASSUME NEW i \in 1..Len(s \o t), i \notin 1..Len(s)
      PROVE  i - Len(s) \in 1..Len(t) /\ (s \o t)[i] = t[i - Len(s)]
  BY <1>3
<1>4. DOMAIN s = 1..Len(s) /\ DOMAIN t = 1..Len(t) /\ DOMAIN (s \o t) = 1..Len(s \o t)
  OBVIOUS
<1>5. \A x : x \in ToSet(s \o t) => x \in ToSet(s) \cup ToSet(t)
  BY <1>1, <1>3, <1>4 DEF ToSet
<1>6. \A x : x \in ToSet(s) => x \in ToSet(s \o t)
  BY <1>1, <1>4 DEF ToSet
<1>7. \A x : x \in ToSet(t) => x \in ToSet(s \o t)
  BY <1>2, <1>4 DEF ToSet
<1>. QED  BY <1>5, <1>6, <1>7

LEMMA ElementsOfTail ==
  ASSUME NEW S, NEW s \in Seq(S), s # <<>>
  PROVE  /\ Head(s) \in S /\ Tail(s) \in Seq(S) /\ Len(Tail(s)) = Len(s) - 1
         /\ ToSet(s) = {Head(s)} \cup ToSet(Tail(s))
         /\ s = <<Head(s)>> \o Tail(s)
<1>1. Head(s) \in S /\ Tail(s) \in Seq(S) /\ Len(Tail(s)) = Len(s) - 1
  OBVIOUS
<1>2. s = <<Head(s)>> \o Tail(s)
  <2>1. /\ <<Head(s)>> \in Seq(S) /\ Len(<<Head(s)>>) = 1 /\ <<Head(s)>>[1] = s[1]
    BY <1>1
  <2>2. <<Head(s)>> \o Tail(s) \in Seq(S) /\ Len(<<Head(s)>> \o Tail(s)) = Len(s)
    BY <1>1, <2>1
  <2>3. \A i \in 1..Len(s) : (<<Head(s)>> \o Tail(s))[i] = s[i]
    BY <1>1, <2>1
  <2>. QED  BY <2>2, <2>3
<1>3. <<Head(s)>> \in Seq(S) /\ ToSet(<<Head(s)>>) = {Head(s)}
  BY <1>1 DEF ToSet
<1>4. ToSet(<<Head(s)>> \o Tail(s)) = {Head(s)} \cup ToSet(Tail(s))
  <2>. DEFINE h == <<Head(s)>>
            u == Tail(s)
  <2>1. h \in Seq(S) /\ ToSet(h) = {Head(s)} /\ u \in Seq(S)
    BY <1>1, <1>3
  <2>. HIDE DEF h, u
  <2>2. ToSet(h \o u) = ToSet(h) \cup ToSet(u)
    BY <2>1, ElementsOfConcat
  <2>3. ToSet(h \o u) = {Head(s)} \cup ToSet(u)
    BY <2>1, <2>2
  <2>. QED  BY <2>3 DEF h, u
<1>. QED  BY <1>1, <1>2, <1>4

LEMMA ElementsOfOne == \A x : ToSet(<<x>>) = {x}
  BY DEF ToSet

LEMMA ElementsOfNone == ToSet(<<>>) = {}
  BY DEF ToSet

LEMMA ElementIndex ==
  ASSUME NEW S, NEW s \in Seq(S)
  PROVE  /\ \A x : x \in ToSet(s) <=> \E i \in 1..Len(s) : s[i] = x
         /\ ToSet(s) \subseteq S
<1>1. DOMAIN s = 1..Len(s)
  OBVIOUS
<1>. QED  BY <1>1 DEF ToSet
-----------------------------------------------------------------------------
(***************************************************************************)
(* A function may be iterated from any point.                              *)
(***************************************************************************)
LEMMA IterationExists ==
  ASSUME NEW S, NEW e \in S, NEW F \in [S -> S]
  PROVE  \E f \in [Nat -> S] : f[0] = e /\ \A k \in Nat : f[k + 1] = F[f[k]]
<1>. DEFINE Runs(n, g) == /\ g \in [0..n -> S] /\ g[0] = e
                          /\ \A k \in Nat : k < n => g[k + 1] = F[g[k]]
            T == {n \in Nat : \E g : Runs(n, g)}
<1>1. 0 \in T
  <2>1. Runs(0, [i \in 0..0 |-> e])
    OBVIOUS
  <2>. HIDE DEF Runs
  <2>. QED  BY <2>1
<1>2. ASSUME NEW n \in Nat, n \in T PROVE n + 1 \in T
  <2>1. PICK g : Runs(n, g)
    BY <1>2
  <2>. DEFINE h == [i \in 0..(n + 1) |-> IF i = n + 1 THEN F[g[n]] ELSE g[i]]
  <2>2. \A i \in 0..n : h[i] = g[i]
    OBVIOUS
  <2>3. h[n + 1] = F[g[n]] /\ g[n] \in S /\ F[g[n]] \in S
    BY <2>1
  <2>4. h \in [0..(n + 1) -> S]
    BY <2>1, <2>3
  <2>5. ASSUME NEW k \in Nat, k < n + 1 PROVE h[k + 1] = F[h[k]]
    <3>1. k \in 0..n /\ h[k] = g[k]
      BY <2>2, <2>5
    <3>2. CASE k = n
      BY <2>3, <3>1, <3>2
    <3>3. CASE k < n
      <4>1. k + 1 \in 0..n
        BY <3>3
      <4>. QED  BY <2>1, <2>2, <3>1, <3>3, <4>1
    <3>. QED  BY <3>1, <3>2, <3>3
  <2>. HIDE DEF h
  <2>6. Runs(n + 1, h)
    <3>1. 0 \in 0..n
      OBVIOUS
    <3>. QED  BY <2>1, <2>2, <2>4, <2>5, <3>1
  <2>. HIDE DEF Runs
  <2>. QED  BY <2>6
<1>3. Nat \subseteq T
  <2>. HIDE DEF T
  <2>. QED  BY <1>1, <1>2, NatSetInduction
<1>4. ASSUME NEW m \in Nat, NEW n \in Nat, m <= n, NEW g, NEW h, Runs(m, g), Runs(n, h)
      PROVE  g[m] = h[m]
  <2>. DEFINE U == {k \in Nat : k <= m => g[k] = h[k]}
  <2>1. 0 \in U
    BY <1>4
  <2>2. ASSUME NEW k \in Nat, k \in U PROVE k + 1 \in U
    BY <1>4, <2>2
  <2>3. Nat \subseteq U
    <3>. HIDE DEF U, Runs
    <3>. QED  BY <2>1, <2>2, NatSetInduction
  <2>. QED  BY <2>3
<1>. DEFINE Some(n) == CHOOSE g : Runs(n, g)
            f == [n \in Nat |-> Some(n)[n]]
<1>5. \A n \in Nat : Runs(n, Some(n))
  <2>1. \A n \in Nat : \E g : Runs(n, g)
    BY <1>3
  <2>. HIDE DEF Runs
  <2>. QED  BY <2>1
<1>6. \A n \in Nat : f[n] = Some(n)[n] /\ f[n] \in S
  <2>1. \A n \in Nat : Some(n)[n] \in S
    <3>. HIDE DEF Some
    <3>. QED  BY <1>5
  <2>. HIDE DEF Some
  <2>. QED  BY <2>1
<1>7. f[0] = e
  <2>. HIDE DEF Some, f
  <2>. QED  BY <1>5, <1>6
<1>8. ASSUME NEW k \in Nat PROVE f[k + 1] = F[f[k]]
  <2>. HIDE DEF Some, f
  <2>1. Runs(k + 1, Some(k + 1)) /\ Runs(k, Some(k)) /\ k + 1 \in Nat
    BY <1>5
  <2>2. Some(k)[k] = Some(k + 1)[k]
    <3>. HIDE DEF Runs
    <3>. QED  BY <1>4, <2>1
  <2>3. Some(k + 1)[k + 1] = F[Some(k + 1)[k]]
    BY <2>1
  <2>. QED  BY <1>6, <2>1, <2>2, <2>3
<1>9. f \in [Nat -> S]
  <2>. HIDE DEF Some
  <2>. QED  BY <1>6
<1>. QED
  <2>. HIDE DEF f
  <2>. QED  BY <1>7, <1>8, <1>9

(***************************************************************************)
(* A set of naturals with a bound has a largest element.                   *)
(***************************************************************************)
LEMMA BoundedMaximum ==
  ASSUME NEW n \in Nat, NEW S \in SUBSET (0..n), S # {}
  PROVE  \E m \in S : \A k \in S : m >= k
<1>1. SUFFICES ASSUME \A m \in S : \E k \in S : k > m PROVE FALSE
  OBVIOUS
<1>. DEFINE U == {j \in Nat : \E k \in S : k >= j}
<1>2. 0 \in U
  <2>. PICK k \in S : TRUE
    OBVIOUS
  <2>. QED  BY k >= 0
<1>3. ASSUME NEW j \in Nat, j \in U PROVE j + 1 \in U
  <2>1. PICK k \in S : k >= j
    BY <1>3
  <2>2. PICK i \in S : i > k
    BY <1>1
  <2>3. i >= j + 1
    BY <2>1, <2>2
  <2>. QED  BY <2>3
<1>4. n + 1 \in U
  <2>. HIDE DEF U
  <2>. QED  BY <1>2, <1>3, NatSetInduction
<1>. QED  BY <1>4
-----------------------------------------------------------------------------
(***************************************************************************)
(* Induction over a finite set, stated for a set of sets.                  *)
(***************************************************************************)
LEMMA FiniteInduction ==
  ASSUME NEW S, IsFiniteSet(S), NEW P, {} \in P,
         \A T \in SUBSET S : \A x \in S \ T : T \in P => T \cup {x} \in P
  PROVE  S \in P
<1>. DEFINE U == {n \in Nat : \A T \in SUBSET S : Cardinality(T) = n => T \in P}
<1>1. \A T \in SUBSET S : IsFiniteSet(T) /\ Cardinality(T) \in Nat
  BY FS_Subset, FS_CardinalityType
<1>2. 0 \in U
  BY <1>1, FS_EmptySet
<1>3. ASSUME NEW n \in Nat, n \in U PROVE n + 1 \in U
  <2>1. SUFFICES ASSUME NEW T \in SUBSET S, Cardinality(T) = n + 1 PROVE T \in P
    OBVIOUS
  <2>2. T # {}
    <3>1. Cardinality(T) # 0
      BY <2>1
    <3>. QED  BY <3>1, FS_EmptySet
  <2>3. PICK x \in T : TRUE
    BY <2>2
  <2>. DEFINE V == T \ {x}
  <2>4. Cardinality(V) = Cardinality(T) - 1
    BY <1>1, FS_RemoveElement
  <2>5. V \in SUBSET S /\ x \in S \ V /\ T = V \cup {x}
    OBVIOUS
  <2>. HIDE DEF V
  <2>6. Cardinality(V) = n
    BY <2>1, <2>4
  <2>7. V \in P
    BY <1>3, <2>5, <2>6
  <2>. QED  BY <2>5, <2>7
<1>4. Cardinality(S) \in U
  <2>. HIDE DEF U
  <2>1. Nat \subseteq U
    BY <1>2, <1>3, NatSetInduction
  <2>. QED  BY <1>1, <2>1
<1>. QED  BY <1>4
-----------------------------------------------------------------------------
(***************************************************************************)
(* Sums.  The fold takes the elements in an order of its own; the result   *)
(* is the one function of sets that adds every element once.               *)
(***************************************************************************)
AddUp(f, S) == FoldFunctionOnSet(LAMBDA x, y : x + y, 0, f, S)

Adds(sum, f, S) ==
  /\ sum \in [SUBSET S -> Int]
  /\ sum[{}] = 0
  /\ \A T \in SUBSET S : \A x \in S \ T : sum[T \cup {x}] = sum[T] + f[x]

LEMMA SumExists ==
  ASSUME NEW f, NEW S, IsFiniteSet(S), \A x \in S : f[x] \in Int
  PROVE  \E sum : Adds(sum, f, S)
<1>. DEFINE P == {T \in SUBSET S : \E sum : Adds(sum, f, T)}
<1>1. {} \in P
  <2>. DEFINE z == [T \in SUBSET {} |-> 0]
  <2>1. z \in [SUBSET {} -> Int] /\ z[{}] = 0
    OBVIOUS
  <2>2. Adds(z, f, {})
    <3>. HIDE DEF z
    <3>. QED  BY <2>1 DEF Adds
  <2>. HIDE DEF z
  <2>. QED  BY <2>2
<1>2. ASSUME NEW T \in SUBSET S, NEW x \in S \ T, T \in P PROVE T \cup {x} \in P
  <2>1. PICK sum : Adds(sum, f, T)
    BY <1>2
  <2>. DEFINE new == [R \in SUBSET (T \cup {x}) |->
                        IF x \in R THEN sum[R \ {x}] + f[x] ELSE sum[R]]
  <2>2. \A R \in SUBSET (T \cup {x}) : R \ {x} \in SUBSET T /\ sum[R \ {x}] \in Int
    BY <2>1 DEF Adds
  <2>3. \A R \in SUBSET (T \cup {x}) : x \notin R => R \in SUBSET T
    OBVIOUS
  <2>4. f[x] \in Int
    OBVIOUS
  <2>5. new \in [SUBSET (T \cup {x}) -> Int]
    BY <2>1, <2>2, <2>3, <2>4 DEF Adds
  <2>6. new[{}] = 0
    BY <2>1 DEF Adds
  <2>7. ASSUME NEW R \in SUBSET (T \cup {x}), NEW y \in (T \cup {x}) \ R
        PROVE  new[R \cup {y}] = new[R] + f[y]
    <3>0. R \cup {y} \in SUBSET (T \cup {x})
      OBVIOUS
    <3>1. CASE y = x
      <4>1. (R \cup {y}) \ {x} = R /\ x \in R \cup {y} /\ x \notin R
        BY <2>7, <3>1
      <4>. QED  BY <3>0, <3>1, <4>1
    <3>2. CASE y # x /\ x \in R
      <4>1. (R \cup {y}) \ {x} = (R \ {x}) \cup {y} /\ x \in R \cup {y}
        BY <3>2
      <4>2. sum[(R \ {x}) \cup {y}] = sum[R \ {x}] + f[y]
        BY <2>1, <2>2, <2>7, <3>2 DEF Adds
      <4>3. new[R \cup {y}] = sum[(R \ {x}) \cup {y}] + f[x]
        BY <3>0, <4>1
      <4>4. new[R] = sum[R \ {x}] + f[x]
        BY <3>2
      <4>5. f[y] \in Int /\ sum[R \ {x}] \in Int
        BY <2>2, <2>7
      <4>. HIDE DEF new
      <4>. QED  BY <2>4, <4>2, <4>3, <4>4, <4>5
    <3>3. CASE y # x /\ x \notin R
      <4>1. x \notin R \cup {y} /\ R \in SUBSET T /\ y \in T \ R
        BY <2>7, <3>3
      <4>2. sum[R \cup {y}] = sum[R] + f[y]
        BY <2>1, <4>1 DEF Adds
      <4>. QED  BY <3>0, <3>3, <4>1, <4>2
    <3>. QED  BY <3>1, <3>2, <3>3
  <2>8. Adds(new, f, T \cup {x})
    <3>. HIDE DEF new
    <3>. QED  BY <2>5, <2>6, <2>7 DEF Adds
  <2>. HIDE DEF new
  <2>. QED  BY <2>8
<1>3. S \in P
  <2>. HIDE DEF P
  <2>. QED  BY <1>1, <1>2, FiniteInduction
<1>. QED  BY <1>3

LEMMA SumIsTheSum ==
  ASSUME NEW f, NEW S, IsFiniteSet(S), \A x \in S : f[x] \in Int, NEW sum, Adds(sum, f, S)
  PROVE  AddUp(f, S) = sum[S]
<1>. DEFINE One(s) == CHOOSE x \in s : TRUE
            Step(g, s) == IF s = {} THEN 0 ELSE f[One(s)] + g[s \ {One(s)}]
            iter == CHOOSE g : g = [s \in SUBSET S |-> Step(g, s)]
<1>1. AddUp(f, S) = iter[S]
  BY DEF AddUp, FoldFunctionOnSet, MapThenFoldSet
<1>2. \A T \in SUBSET S : IsFiniteSet(T)
  BY FS_Subset
<1>3. \A s \in SUBSET S : s # {} => One(s) \in s
  OBVIOUS
<1>4. \A s \in SUBSET S : sum[s] = Step(sum, s)
  <2>1. SUFFICES ASSUME NEW s \in SUBSET S, s # {} PROVE sum[s] = f[One(s)] + sum[s \ {One(s)}]
    BY DEF Adds
  <2>2. ASSUME NEW x \in s PROVE sum[s] = f[x] + sum[s \ {x}]
    <3>. DEFINE t == s \ {x}
    <3>1. t \in SUBSET S /\ x \in S \ t /\ t \cup {x} = s /\ f[x] \in Int
      OBVIOUS
    <3>. HIDE DEF t
    <3>2. sum[t \cup {x}] = sum[t] + f[x] /\ sum[t] \in Int
      BY <3>1 DEF Adds
    <3>3. sum[t \cup {x}] = sum[s]
      BY <3>1, Zenon
    <3>4. sum[s] = f[x] + sum[t]
      BY <3>1, <3>2, <3>3
    <3>. QED  BY <3>4 DEF t
  <2>. HIDE DEF One
  <2>. QED  BY <1>3, <2>1, <2>2
<1>5. iter = [s \in SUBSET S |-> Step(iter, s)]
  <2>1. sum = [s \in SUBSET S |-> Step(sum, s)]
    <3>1. sum \in [SUBSET S -> Int]
      BY DEF Adds
    <3>. HIDE DEF Step
    <3>. QED  BY <1>4, <3>1
  <2>. HIDE DEF Step
  <2>. QED  BY <2>1
<1>. HIDE DEF iter
<1>6. \A s \in SUBSET S : iter[s] = Step(iter, s)
  <2>. HIDE DEF Step
  <2>. QED  BY <1>5
<1>. DEFINE U == {n \in Nat : \A s \in SUBSET S : Cardinality(s) = n => iter[s] = sum[s]}
<1>7. 0 \in U
  <2>1. iter[{}] = 0 /\ sum[{}] = 0
    BY <1>6 DEF Adds
  <2>2. \A s \in SUBSET S : Cardinality(s) = 0 => s = {}
    BY <1>2, FS_EmptySet
  <2>. QED  BY <2>1, <2>2
<1>8. ASSUME NEW n \in Nat, n \in U PROVE n + 1 \in U
  <2>1. SUFFICES ASSUME NEW s \in SUBSET S, Cardinality(s) = n + 1 PROVE iter[s] = sum[s]
    OBVIOUS
  <2>2. s # {}
    <3>1. Cardinality(s) # 0
      BY <2>1
    <3>. QED  BY <3>1, FS_EmptySet
  <2>. DEFINE t == s \ {One(s)}
  <2>3. One(s) \in s
    BY <1>3, <2>2
  <2>4. Cardinality(t) = Cardinality(s) - 1
    <3>. HIDE DEF One
    <3>. QED  BY <1>2, <2>3, FS_RemoveElement
  <2>5. Cardinality(t) = n
    <3>. HIDE DEF t
    <3>. QED  BY <2>1, <2>4
  <2>6. iter[t] = sum[t]
    <3>1. t \in SUBSET S
      OBVIOUS
    <3>. HIDE DEF t
    <3>. QED  BY <1>8, <2>5, <3>1
  <2>7. Step(iter, s) = Step(sum, s)
    BY <2>6
  <2>. HIDE DEF Step
  <2>. QED  BY <1>4, <1>6, <2>7
<1>9. Cardinality(S) \in U
  <2>. HIDE DEF U
  <2>1. Nat \subseteq U
    BY <1>7, <1>8, NatSetInduction
  <2>. QED  BY <2>1, FS_CardinalityType
<1>. QED  BY <1>1, <1>9

LEMMA AddsOnPart ==
  ASSUME NEW f, NEW S, NEW sum, Adds(sum, f, S), NEW T \in SUBSET S
  PROVE  Adds([R \in SUBSET T |-> sum[R]], f, T)
<1>. DEFINE part == [R \in SUBSET T |-> sum[R]]
<1>1. \A R \in SUBSET T : part[R] = sum[R] /\ sum[R] \in Int
  BY DEF Adds
<1>2. part \in [SUBSET T -> Int]
  BY <1>1
<1>3. part[{}] = 0
  BY DEF Adds
<1>4. ASSUME NEW R \in SUBSET T, NEW x \in T \ R PROVE part[R \cup {x}] = part[R] + f[x]
  <2>1. R \cup {x} \in SUBSET T
    OBVIOUS
  <2>2. sum[R \cup {x}] = sum[R] + f[x]
    BY DEF Adds
  <2>. HIDE DEF part
  <2>. QED  BY <1>1, <2>1, <2>2
<1>. HIDE DEF part
<1>5. Adds(part, f, T)
  BY <1>2, <1>3, <1>4 DEF Adds
<1>. QED  BY <1>5 DEF part

\* One function of sets gives the sums over all parts of a set.
LEMMA SumTable ==
  ASSUME NEW f, NEW S, IsFiniteSet(S), \A x \in S : f[x] \in Int
  PROVE  \E sum : Adds(sum, f, S) /\ \A T \in SUBSET S : AddUp(f, T) = sum[T]
<1>1. PICK sum : Adds(sum, f, S)
  BY SumExists
<1>2. ASSUME NEW T \in SUBSET S PROVE AddUp(f, T) = sum[T]
  <2>. DEFINE part == [R \in SUBSET T |-> sum[R]]
  <2>1. Adds(part, f, T)
    BY <1>1, AddsOnPart
  <2>2. part[T] = sum[T]
    OBVIOUS
  <2>. HIDE DEF part
  <2>3. IsFiniteSet(T) /\ \A x \in T : f[x] \in Int
    BY FS_Subset
  <2>. QED  BY <2>1, <2>2, <2>3, SumIsTheSum
<1>. QED  BY <1>1, <1>2

LEMMA SumOfNone == \A f : AddUp(f, {}) = 0
<1>. SUFFICES ASSUME NEW f PROVE AddUp(f, {}) = 0
  OBVIOUS
<1>1. PICK sum : Adds(sum, f, {}) /\ \A T \in SUBSET {} : AddUp(f, T) = sum[T]
  BY SumTable, FS_EmptySet
<1>. QED  BY <1>1 DEF Adds

LEMMA SumOfOneMore ==
  ASSUME NEW f, NEW S, IsFiniteSet(S), NEW x, x \notin S, \A y \in S \cup {x} : f[y] \in Int
  PROVE  /\ AddUp(f, S) \in Int /\ AddUp(f, S \cup {x}) \in Int
         /\ AddUp(f, S \cup {x}) = AddUp(f, S) + f[x]
<1>. DEFINE W == S \cup {x}
<1>1. IsFiniteSet(W)
  BY FS_AddElement
<1>2. S \in SUBSET W /\ x \in W \ S /\ W \in SUBSET W /\ S \cup {x} = W
  OBVIOUS
<1>. HIDE DEF W
<1>3. PICK sum : Adds(sum, f, W) /\ \A T \in SUBSET W : AddUp(f, T) = sum[T]
  BY <1>1, <1>2, SumTable
<1>4. sum[S] \in Int /\ sum[W] \in Int /\ sum[W] = sum[S] + f[x]
  BY <1>2, <1>3 DEF Adds
<1>. QED  BY <1>2, <1>3, <1>4

LEMMA SumIsInteger ==
  ASSUME NEW f, NEW S, IsFiniteSet(S), \A x \in S : f[x] \in Int
  PROVE  AddUp(f, S) \in Int
<1>1. PICK sum : Adds(sum, f, S) /\ \A T \in SUBSET S : AddUp(f, T) = sum[T]
  BY SumTable
<1>. QED  BY <1>1 DEF Adds

LEMMA SumIsNatural ==
  ASSUME NEW f, NEW S, IsFiniteSet(S), \A x \in S : f[x] \in Nat
  PROVE  AddUp(f, S) \in Nat
<1>. DEFINE P == {T \in SUBSET S : AddUp(f, T) \in Nat}
<1>1. {} \in P
  BY SumOfNone
<1>2. ASSUME NEW T \in SUBSET S, NEW x \in S \ T, T \in P PROVE T \cup {x} \in P
  <2>1. IsFiniteSet(T) /\ \A y \in T \cup {x} : f[y] \in Int /\ f[x] \in Nat
    BY FS_Subset
  <2>2. AddUp(f, T \cup {x}) = AddUp(f, T) + f[x]
    BY <2>1, SumOfOneMore
  <2>3. AddUp(f, T) \in Nat /\ T \cup {x} \in SUBSET S
    BY <1>2
  <2>. QED  BY <2>1, <2>2, <2>3
<1>. HIDE DEF P
<1>3. S \in P
  BY <1>1, <1>2, FiniteInduction
<1>. QED  BY <1>3 DEF P

LEMMA SumOfUnion ==
  ASSUME NEW f, NEW S, IsFiniteSet(S), NEW T, IsFiniteSet(T), S \cap T = {},
         \A x \in S \cup T : f[x] \in Int
  PROVE  /\ AddUp(f, S) \in Int /\ AddUp(f, T) \in Int
         /\ AddUp(f, S \cup T) = AddUp(f, S) + AddUp(f, T)
<1>. DEFINE P == {R \in SUBSET T : AddUp(f, S \cup R) = AddUp(f, S) + AddUp(f, R)}
<1>1. AddUp(f, S) \in Int /\ AddUp(f, T) \in Int
  BY SumIsInteger
<1>2. {} \in P
  <2>1. S \cup {} = S
    OBVIOUS
  <2>2. AddUp(f, S \cup {}) = AddUp(f, S)
    BY <2>1, Zenon
  <2>. QED  BY <1>1, <2>2, SumOfNone
<1>3. ASSUME NEW R \in SUBSET T, NEW x \in T \ R, R \in P PROVE R \cup {x} \in P
  <2>. DEFINE V == S \cup R
  <2>1. IsFiniteSet(R) /\ IsFiniteSet(V) /\ x \notin V /\ x \notin R
    BY FS_Subset, FS_Union
  <2>2. (\A y \in V \cup {x} : f[y] \in Int) /\ (\A y \in R \cup {x} : f[y] \in Int) /\ f[x] \in Int
    OBVIOUS
  <2>3. AddUp(f, V) = AddUp(f, S) + AddUp(f, R)
    BY <1>3
  <2>4. S \cup (R \cup {x}) = V \cup {x}
    OBVIOUS
  <2>. HIDE DEF V
  <2>5. AddUp(f, V \cup {x}) = AddUp(f, V) + f[x]
    BY <2>1, <2>2, SumOfOneMore
  <2>6. AddUp(f, R \cup {x}) = AddUp(f, R) + f[x] /\ AddUp(f, R) \in Int
    BY <2>1, <2>2, SumOfOneMore
  <2>7. AddUp(f, S \cup (R \cup {x})) = AddUp(f, V \cup {x})
    BY <2>4, Zenon
  <2>. QED  BY <1>1, <2>2, <2>3, <2>5, <2>6, <2>7
<1>4. T \in P
  <2>. HIDE DEF P
  <2>. QED  BY <1>2, <1>3, FiniteInduction
<1>. QED  BY <1>1, <1>4

\* Adding up in another place: h tells where each element has gone.
LEMMA SumOfMoved ==
  ASSUME NEW f, NEW S, IsFiniteSet(S), \A x \in S : f[x] \in Int,
         NEW g, NEW h, \A x \in S : g[h[x]] = f[x],
         \A x, y \in S : h[x] = h[y] => x = y
  PROVE  AddUp(g, {h[x] : x \in S}) = AddUp(f, S)
<1>. DEFINE Moved(T) == {h[x] : x \in T}
            P == {T \in SUBSET S : IsFiniteSet(Moved(T)) /\ AddUp(g, Moved(T)) = AddUp(f, T)}
<1>1. {} \in P
  <2>1. Moved({}) = {}
    OBVIOUS
  <2>2. IsFiniteSet({}) /\ AddUp(g, {}) = AddUp(f, {})
    BY SumOfNone, FS_EmptySet
  <2>. QED  BY <2>1, <2>2
<1>2. ASSUME NEW T \in SUBSET S, NEW x \in S \ T, T \in P PROVE T \cup {x} \in P
  <2>. DEFINE M == Moved(T)
  <2>1. IsFiniteSet(M) /\ AddUp(g, M) = AddUp(f, T) /\ IsFiniteSet(T)
    BY <1>2, FS_Subset
  <2>2. Moved(T \cup {x}) = M \cup {h[x]} /\ h[x] \notin M
    OBVIOUS
  <2>3. \A y \in M \cup {h[x]} : g[y] \in Int
    OBVIOUS
  <2>4. g[h[x]] = f[x] /\ \A y \in T \cup {x} : f[y] \in Int
    OBVIOUS
  <2>. HIDE DEF M
  <2>5. AddUp(g, M \cup {h[x]}) = AddUp(g, M) + g[h[x]]
    BY <2>1, <2>2, <2>3, SumOfOneMore
  <2>6. AddUp(f, T \cup {x}) = AddUp(f, T) + f[x]
    BY <2>1, <2>4, SumOfOneMore
  <2>7. IsFiniteSet(M \cup {h[x]})
    BY <2>1, FS_AddElement
  <2>8. AddUp(g, M \cup {h[x]}) = AddUp(f, T \cup {x})
    BY <2>1, <2>4, <2>5, <2>6
  <2>9. IsFiniteSet(Moved(T \cup {x})) /\ AddUp(g, Moved(T \cup {x})) = AddUp(f, T \cup {x})
    <3>. HIDE DEF Moved
    <3>. QED  BY <2>2, <2>7, <2>8
  <2>. HIDE DEF Moved
  <2>. QED  BY <2>9
<1>3. S \in P
  <2>. HIDE DEF P
  <2>. QED  BY <1>1, <1>2, FiniteInduction
<1>. QED  BY <1>3

LEMMA SumIsAtLeastCount ==
  ASSUME NEW f, NEW S, IsFiniteSet(S), \A x \in S : f[x] \in Nat /\ f[x] >= 1
  PROVE  AddUp(f, S) >= Cardinality(S)
<1>. DEFINE P == {T \in SUBSET S : AddUp(f, T) >= Cardinality(T)}
<1>1. {} \in P
  BY SumOfNone, FS_EmptySet
<1>2. ASSUME NEW T \in SUBSET S, NEW x \in S \ T, T \in P PROVE T \cup {x} \in P
  <2>1. IsFiniteSet(T) /\ x \notin T /\ \A y \in T \cup {x} : f[y] \in Int
    BY FS_Subset
  <2>2. AddUp(f, T \cup {x}) = AddUp(f, T) + f[x] /\ AddUp(f, T) \in Int
    BY <2>1, SumOfOneMore
  <2>3. Cardinality(T \cup {x}) = Cardinality(T) + 1 /\ Cardinality(T) \in Nat
    BY <2>1, FS_AddElement, FS_CardinalityType
  <2>. QED  BY <1>2, <2>2, <2>3
<1>3. S \in P
  <2>. HIDE DEF P
  <2>. QED  BY <1>1, <1>2, FiniteInduction
<1>. QED  BY <1>3

LEMMA SumOfSame ==
  ASSUME NEW f, NEW g, NEW S, IsFiniteSet(S), \A x \in S : f[x] \in Int /\ g[x] = f[x]
  PROVE  AddUp(g, S) = AddUp(f, S)
<1>. DEFINE h == [x \in S |-> x]
<1>1. {h[x] : x \in S} = S
  OBVIOUS
<1>2. (\A x \in S : g[h[x]] = f[x]) /\ \A x, y \in S : h[x] = h[y] => x = y
  OBVIOUS
<1>. HIDE DEF h
<1>3. AddUp(g, {h[x] : x \in S}) = AddUp(f, S)
  BY <1>2, SumOfMoved
<1>. QED  BY <1>1, <1>3

LEMMA SumOfSums ==
  ASSUME NEW f, NEW g, NEW h, NEW S, IsFiniteSet(S),
         \A x \in S : f[x] \in Int /\ g[x] \in Int /\ h[x] = f[x] + g[x]
  PROVE  AddUp(h, S) = AddUp(f, S) + AddUp(g, S)
<1>. DEFINE P == {T \in SUBSET S : AddUp(h, T) = AddUp(f, T) + AddUp(g, T)}
<1>1. {} \in P
  BY SumOfNone
<1>2. ASSUME NEW T \in SUBSET S, NEW x \in S \ T, T \in P PROVE T \cup {x} \in P
  <2>1. IsFiniteSet(T) /\ x \notin T
        /\ \A y \in T \cup {x} : f[y] \in Int /\ g[y] \in Int /\ h[y] \in Int
    BY FS_Subset
  <2>2. AddUp(h, T \cup {x}) = AddUp(h, T) + h[x]
    BY <2>1, SumOfOneMore
  <2>3. AddUp(f, T \cup {x}) = AddUp(f, T) + f[x] /\ AddUp(f, T) \in Int
    BY <2>1, SumOfOneMore
  <2>4. AddUp(g, T \cup {x}) = AddUp(g, T) + g[x] /\ AddUp(g, T) \in Int
    BY <2>1, SumOfOneMore
  <2>5. AddUp(h, T) = AddUp(f, T) + AddUp(g, T) /\ h[x] = f[x] + g[x]
        /\ f[x] \in Int /\ g[x] \in Int
    BY <1>2
  <2>. QED  BY <2>2, <2>3, <2>4, <2>5
<1>3. S \in P
  <2>. HIDE DEF P
  <2>. QED  BY <1>1, <1>2, FiniteInduction
<1>. QED  BY <1>3

(***************************************************************************)
(* A sum may be taken group by group, the groups being the elements with   *)
(* one key.                                                                *)
(***************************************************************************)
Groups(f, S, h, g, N) ==
  /\ \A x \in S : h[x] \in N
  /\ \A a \in N : g[a] = AddUp(f, {x \in S : h[x] = a})

LEMMA SumByKey ==
  ASSUME NEW f, NEW S, IsFiniteSet(S), \A x \in S : f[x] \in Int,
         NEW N, IsFiniteSet(N), NEW h, NEW g, Groups(f, S, h, g, N)
  PROVE  AddUp(g, N) = AddUp(f, S)
<1>. USE DEF Groups
<1>. DEFINE Part(T) == {x \in S : h[x] \in T}
            P == {T \in SUBSET N : AddUp(g, T) = AddUp(f, Part(T))}
<1>1. \A T : IsFiniteSet(Part(T)) /\ \A x \in Part(T) : f[x] \in Int
  BY FS_Subset
<1>2. \A a \in N : g[a] = AddUp(f, Part({a}))
  <2>. TAKE a \in N
  <2>1. Part({a}) = {x \in S : h[x] = a}
    OBVIOUS
  <2>. QED  BY <2>1
<1>3. \A a \in N : g[a] \in Int
  <2>. TAKE a \in N
  <2>. DEFINE X == Part({a})
  <2>1. IsFiniteSet(X) /\ \A x \in X : f[x] \in Int
    BY <1>1
  <2>2. g[a] = AddUp(f, X)
    BY <1>2
  <2>. HIDE DEF X
  <2>. QED  BY <2>1, <2>2, SumIsInteger
<1>4. {} \in P
  <2>1. Part({}) = {}
    OBVIOUS
  <2>. QED  BY <2>1, SumOfNone
<1>5. ASSUME NEW T \in SUBSET N, NEW a \in N \ T, T \in P
      PROVE  T \cup {a} \in P
  <2>. DEFINE X == Part(T)
              Y == Part({a})
  <2>1. X \cap Y = {} /\ Part(T \cup {a}) = X \cup Y
    OBVIOUS
  <2>2. IsFiniteSet(X) /\ IsFiniteSet(Y) /\ \A x \in X \cup Y : f[x] \in Int
    BY <1>1
  <2>3. AddUp(g, T) = AddUp(f, X)
    BY <1>5
  <2>4. g[a] = AddUp(f, Y)
    BY <1>2
  <2>. HIDE DEF X, Y
  <2>5. AddUp(f, X \cup Y) = AddUp(f, X) + AddUp(f, Y)
    BY <2>1, <2>2, SumOfUnion
  <2>6. IsFiniteSet(T)
    BY FS_Subset
  <2>7. AddUp(g, T \cup {a}) = AddUp(g, T) + g[a]
    BY <1>3, <2>6, SumOfOneMore
  <2>8. AddUp(g, T \cup {a}) = AddUp(f, Part(T \cup {a}))
    BY <2>1, <2>3, <2>4, <2>5, <2>7
  <2>. QED  BY <2>8
<1>. HIDE DEF P
<1>6. N \in P
  BY <1>4, <1>5, FiniteInduction
<1>7. Part(N) = S
  OBVIOUS
<1>. QED  BY <1>6, <1>7 DEF P

(***************************************************************************)
(* The sizes of disjoint sets add up to the size of their union.           *)
(***************************************************************************)
KeptApart(c, D) == \A i, j \in D : i # j => c[i] \cap c[j] = {}

LEMMA SumOfSizes ==
  ASSUME NEW D, IsFiniteSet(D), NEW c, \A i \in D : IsFiniteSet(c[i]), KeptApart(c, D),
         NEW f, \A i \in D : f[i] = Cardinality(c[i])
  PROVE  AddUp(f, D) = Cardinality(UNION {c[i] : i \in D})
<1>. USE DEF KeptApart
<1>. DEFINE All(T) == UNION {c[i] : i \in T}
            P == {T \in SUBSET D : IsFiniteSet(All(T)) /\ AddUp(f, T) = Cardinality(All(T))}
<1>1. \A i \in D : f[i] \in Int
  BY FS_CardinalityType
<1>2. {} \in P
  <2>1. All({}) = {}
    OBVIOUS
  <2>. QED  BY <2>1, SumOfNone, FS_EmptySet
<1>3. ASSUME NEW T \in SUBSET D, NEW a \in D \ T, T \in P
      PROVE  T \cup {a} \in P
  <2>. DEFINE X == All(T)
              Y == c[a]
  <2>1. All(T \cup {a}) = X \cup Y
    OBVIOUS
  <2>2. X \cap Y = {}
    OBVIOUS
  <2>3. IsFiniteSet(X) /\ IsFiniteSet(Y)
    BY <1>3
  <2>4. AddUp(f, T) = Cardinality(X) /\ f[a] = Cardinality(Y)
    BY <1>3
  <2>. HIDE DEF X, Y
  <2>5. Cardinality(X \cup Y) = Cardinality(X) + Cardinality(Y)
    <3>1. Cardinality(X \cup Y) = Cardinality(X) + Cardinality(Y) - Cardinality(X \cap Y)
      BY <2>3, FS_Union
    <3>2. Cardinality(X \cap Y) = 0
      BY <2>2, FS_EmptySet
    <3>3. Cardinality(X) \in Nat /\ Cardinality(Y) \in Nat
      BY <2>3, FS_CardinalityType
    <3>. QED  BY <3>1, <3>2, <3>3
  <2>6. IsFiniteSet(X \cup Y)
    BY <2>3, FS_Union
  <2>7. IsFiniteSet(T)
    BY FS_Subset
  <2>8. AddUp(f, T \cup {a}) = AddUp(f, T) + f[a]
    BY <1>1, <2>7, SumOfOneMore
  <2>9. IsFiniteSet(All(T \cup {a})) /\ AddUp(f, T \cup {a}) = Cardinality(All(T \cup {a}))
    BY <2>1, <2>4, <2>5, <2>6, <2>8
  <2>. QED  BY <2>9
<1>. HIDE DEF P
<1>4. D \in P
  BY <1>2, <1>3, FiniteInduction
<1>. QED  BY <1>4 DEF P

(***************************************************************************)
(* A sum of multiples is the multiple of the sum; larger terms make a      *)
(* larger sum.                                                             *)
(***************************************************************************)
LEMMA SumOfMultiples ==
  ASSUME NEW f, NEW S, IsFiniteSet(S), \A x \in S : f[x] \in Int, NEW k \in Int,
         NEW g, \A x \in S : g[x] = f[x] * k
  PROVE  AddUp(g, S) = AddUp(f, S) * k
<1>. DEFINE P == {T \in SUBSET S : AddUp(g, T) = AddUp(f, T) * k}
<1>1. \A x \in S : g[x] \in Int
  OBVIOUS
<1>2. {} \in P
  BY SumOfNone
<1>3. ASSUME NEW T \in SUBSET S, NEW a \in S \ T, T \in P
      PROVE  T \cup {a} \in P
  <2>1. IsFiniteSet(T)
    BY FS_Subset
  <2>2. AddUp(f, T) \in Int /\ AddUp(f, T \cup {a}) = AddUp(f, T) + f[a]
    BY <2>1, SumOfOneMore
  <2>3. AddUp(g, T \cup {a}) = AddUp(g, T) + g[a]
    BY <1>1, <2>1, SumOfOneMore
  <2>. DEFINE u == AddUp(f, T)
              v == f[a]
  <2>4. u \in Int /\ v \in Int
    BY <2>2
  <2>5. AddUp(g, T) = u * k /\ g[a] = v * k
    BY <1>3
  <2>6. AddUp(f, T \cup {a}) = u + v
    BY <2>2
  <2>. HIDE DEF u, v
  <2>7. (u + v) * k = u * k + v * k
    BY <2>4
  <2>8. AddUp(g, T \cup {a}) = AddUp(f, T \cup {a}) * k
    BY <2>3, <2>5, <2>6, <2>7
  <2>. QED  BY <2>8
<1>. HIDE DEF P
<1>4. S \in P
  BY <1>2, <1>3, FiniteInduction
<1>. QED  BY <1>4 DEF P

LEMMA SumIsMonotone ==
  ASSUME NEW f, NEW g, NEW S, IsFiniteSet(S),
         \A x \in S : f[x] \in Int /\ g[x] \in Int /\ f[x] <= g[x]
  PROVE  AddUp(f, S) <= AddUp(g, S)
<1>. DEFINE d == [x \in S |-> g[x] - f[x]]
<1>1. \A x \in S : d[x] \in Nat
  OBVIOUS
<1>2. \A x \in S : f[x] \in Int /\ d[x] \in Int /\ g[x] = f[x] + d[x]
  OBVIOUS
<1>. HIDE DEF d
<1>3. AddUp(d, S) \in Nat
  BY <1>1, SumIsNatural
<1>4. AddUp(f, S) \in Int
  BY SumIsInteger
<1>5. AddUp(g, S) = AddUp(f, S) + AddUp(d, S)
  BY <1>2, SumOfSums
<1>. QED  BY <1>3, <1>4, <1>5

LEMMA SumOfPart ==
  ASSUME NEW f, NEW S, IsFiniteSet(S), \A x \in S : f[x] \in Nat, NEW T \in SUBSET S
  PROVE  AddUp(f, T) \in Nat /\ AddUp(f, S) \in Nat /\ AddUp(f, T) <= AddUp(f, S)
<1>. DEFINE R == S \ T
<1>1. IsFiniteSet(T) /\ IsFiniteSet(R) /\ T \cap R = {} /\ T \cup R = S
  BY FS_Subset
<1>2. (\A x \in T : f[x] \in Nat) /\ (\A x \in R : f[x] \in Nat) /\ (\A x \in T \cup R : f[x] \in Int)
  OBVIOUS
<1>. HIDE DEF R
<1>3. AddUp(f, T \cup R) = AddUp(f, T) + AddUp(f, R)
  BY <1>1, <1>2, SumOfUnion
<1>4. AddUp(f, T) \in Nat /\ AddUp(f, R) \in Nat
  BY <1>1, <1>2, SumIsNatural
<1>5. AddUp(f, T \cup R) = AddUp(f, S)
  BY <1>1, Zenon
<1>. QED  BY <1>3, <1>4, <1>5

LEMMA SumOfOne ==
  ASSUME NEW f, NEW x, f[x] \in Int
  PROVE  AddUp(f, {x}) = f[x]
<1>. DEFINE E == {}
<1>1. IsFiniteSet(E) /\ x \notin E /\ \A y \in E \cup {x} : f[y] \in Int
  BY FS_EmptySet
<1>2. AddUp(f, E) = 0
  BY SumOfNone
<1>3. E \cup {x} = {x}
  OBVIOUS
<1>. HIDE DEF E
<1>4. AddUp(f, E \cup {x}) = AddUp(f, E) + f[x]
  BY <1>1, SumOfOneMore
<1>5. AddUp(f, E \cup {x}) = AddUp(f, {x})
  BY <1>3, Zenon
<1>. QED  BY <1>2, <1>4, <1>5
-----------------------------------------------------------------------------
(***************************************************************************)
(* Extremes of finite sets, and the fold over a sequence, which adds up    *)
(* from its last element.                                                  *)
(***************************************************************************)
\* A finite set has an element with the greatest number.
LEMMA GreatestElement ==
  ASSUME NEW S, IsFiniteSet(S), S # {}, NEW f, \A x \in S : f[x] \in Int
  PROVE  \E m \in S : \A x \in S : f[x] <= f[m]
<1>. DEFINE P == {T \in SUBSET S : T = {} \/ \E m \in T : \A x \in T : f[x] <= f[m]}
<1>1. {} \in P
  OBVIOUS
<1>2. ASSUME NEW T \in SUBSET S, NEW x \in S \ T, T \in P PROVE T \cup {x} \in P
  <2>1. CASE T = {}
    <3>1. f[x] <= f[x]
      OBVIOUS
    <3>. QED  BY <2>1, <3>1
  <2>2. CASE T # {}
    <3>1. PICK m \in T : \A y \in T : f[y] <= f[m]
      BY <1>2, <2>2
    <3>2. CASE f[x] <= f[m]
      <4>1. m \in T \cup {x} /\ \A y \in T \cup {x} : f[y] <= f[m]
        BY <3>1, <3>2
      <4>. QED  BY <4>1
    <3>3. CASE ~ (f[x] <= f[m])
      <4>1. x \in T \cup {x} /\ \A y \in T \cup {x} : f[y] <= f[x]
        BY <3>1, <3>3
      <4>. QED  BY <4>1
    <3>. QED  BY <3>2, <3>3
  <2>. QED  BY <2>1, <2>2
<1>3. S \in P
  <2>. HIDE DEF P
  <2>. QED  BY <1>1, <1>2, FiniteInduction
<1>. QED  BY <1>3

\* A finite set of naturals has a maximum and a minimum.
LEMMA ExtremesExist ==
  ASSUME NEW S, IsFiniteSet(S), S \subseteq Nat, S # {}
  PROVE  /\ Max(S) \in S /\ \A x \in S : x <= Max(S)
         /\ Min(S) \in S /\ \A x \in S : Min(S) <= x
<1>1. \E m \in S : \A x \in S : m >= x
  <2>. DEFINE f == [x \in S |-> x]
  <2>1. \A x \in S : f[x] = x /\ f[x] \in Int
    OBVIOUS
  <2>. HIDE DEF f
  <2>2. \E m \in S : \A x \in S : f[x] <= f[m]
    BY <2>1, GreatestElement
  <2>. QED  BY <2>1, <2>2
<1>2. \E m \in S : \A x \in S : m <= x
  <2>. DEFINE f == [x \in S |-> 0 - x]
  <2>1. \A x \in S : f[x] = 0 - x /\ f[x] \in Int
    OBVIOUS
  <2>. HIDE DEF f
  <2>2. PICK m \in S : \A x \in S : f[x] <= f[m]
    BY <2>1, GreatestElement
  <2>3. \A x \in S : m <= x
    BY <2>1, <2>2
  <2>. QED  BY <2>3
<1>. QED  BY <1>1, <1>2 DEF Max, Min

LEMMA LastOfFinite ==
  ASSUME NEW S, IsFiniteSet(S), S \subseteq Nat, S # {}
  PROVE  Max(S) \in S
  BY ExtremesExist

\* sum is the table of the sums of f over the subsets of S.
Summed(sum, f, S) ==
  IsFiniteSet(S) /\ S \subseteq Nat /\ (\A x \in S : f[x] \in Int) /\ Adds(sum, f, S)

TakesLast(g, f, s) == Max(s) \in s /\ g[s] = g[s \ {Max(s)}] + f[Max(s)]

\* The sum over a set is that without its greatest element, and that element's
\* number.
LEMMA SumTakesLast ==
  ASSUME NEW f, NEW S, NEW sum, Summed(sum, f, S), NEW s, s \in SUBSET S, s # {}
  PROVE  TakesLast(sum, f, s)
<1>. USE DEF Summed
<1>1. Max(s) \in s
  <2>1. IsFiniteSet(s) /\ s \subseteq Nat
    BY FS_Subset
  <2>. QED  BY <2>1, LastOfFinite
<1>. DEFINE x == Max(s)
            t == s \ {x}
<1>. HIDE DEF x
<1>2. x \in s
  BY <1>1 DEF x
<1>3. t \in SUBSET S /\ x \in S \ t /\ t \cup {x} = s
  BY <1>2
<1>. HIDE DEF t
<1>4. sum[t \cup {x}] = sum[t] + f[x]
  BY <1>3 DEF Adds
<1>5. sum[t \cup {x}] = sum[s]
  BY <1>3, Zenon
<1>6. sum[s] = sum[t] + f[x]
  BY <1>4, <1>5
<1>. QED  BY <1>1, <1>6 DEF x, t, TakesLast

\* g adds up f as FoldLeft over a sequence does, the last element last.
FromTheEnd(g, f, S) ==
  \A s \in SUBSET S : g[s] = IF s = {} THEN 0 ELSE g[s \ {Max(s)}] + f[Max(s)]

\* Adding up from the last element gives the sum over the set.
LEMMA SumFromTheEnd ==
  ASSUME NEW f, NEW S, IsFiniteSet(S), S \subseteq Nat, \A x \in S : f[x] \in Int,
         NEW g, FromTheEnd(g, f, S)
  PROVE  g[S] = AddUp(f, S)
<1>1. PICK sum : Adds(sum, f, S) /\ \A T \in SUBSET S : AddUp(f, T) = sum[T]
  BY SumTable
<1>. DEFINE U == {n \in Nat : \A s \in SUBSET S : Cardinality(s) = n => g[s] = sum[s]}
<1>2. \A s \in SUBSET S : IsFiniteSet(s)
  BY FS_Subset
<1>3. 0 \in U
  <2>1. \A s \in SUBSET S : Cardinality(s) = 0 => s = {}
    BY <1>2, FS_EmptySet
  <2>2. g[{}] = 0 /\ sum[{}] = 0
    BY <1>1 DEF Adds, FromTheEnd
  <2>. QED  BY <2>1, <2>2
<1>4. ASSUME NEW n \in Nat, n \in U PROVE n + 1 \in U
  <2>1. SUFFICES ASSUME NEW s \in SUBSET S, Cardinality(s) = n + 1 PROVE g[s] = sum[s]
    OBVIOUS
  <2>2. s # {}
    <3>1. Cardinality(s) # 0
      BY <2>1
    <3>. QED  BY <3>1, FS_EmptySet
  <2>3. Max(s) \in s /\ sum[s] = sum[s \ {Max(s)}] + f[Max(s)]
    <3>1. Summed(sum, f, S)
      BY <1>1 DEF Summed
    <3>2. TakesLast(sum, f, s)
      BY <2>2, <3>1, SumTakesLast
    <3>. QED  BY <3>2 DEF TakesLast
  <2>4. g[s] = g[s \ {Max(s)}] + f[Max(s)]
    BY <2>2 DEF FromTheEnd
  <2>. DEFINE t == s \ {Max(s)}
  <2>5. Cardinality(t) = Cardinality(s) - 1
    BY <1>2, <2>3, FS_RemoveElement
  <2>6. t \in SUBSET S
    OBVIOUS
  <2>. HIDE DEF t
  <2>7. Cardinality(t) = n
    BY <2>1, <2>5
  <2>8. g[t] = sum[t]
    BY <1>4, <2>6, <2>7
  <2>. QED  BY <2>3, <2>4, <2>8 DEF t
<1>5. Cardinality(S) \in U
  <2>. HIDE DEF U
  <2>1. Nat \subseteq U
    BY <1>3, <1>4, NatSetInduction
  <2>. QED  BY <2>1, FS_CardinalityType
<1>. QED  BY <1>1, <1>5

\* There is a function that adds up in that order.
LEMMA SumRunsFromTheEnd ==
  ASSUME NEW f, NEW S, IsFiniteSet(S), S \subseteq Nat, \A x \in S : f[x] \in Int
  PROVE  \E g \in [SUBSET S -> Int] : FromTheEnd(g, f, S)
<1>1. PICK sum : Adds(sum, f, S)
  BY SumExists
<1>2. Summed(sum, f, S)
  BY <1>1 DEF Summed
<1>3. \A s : s \in SUBSET S /\ s # {} => TakesLast(sum, f, s)
  BY <1>2, SumTakesLast
<1>4. sum \in [SUBSET S -> Int] /\ sum[{}] = 0
  BY <1>1 DEF Adds
<1>5. FromTheEnd(sum, f, S)
  BY <1>3, <1>4 DEF FromTheEnd, TakesLast
<1>. QED  BY <1>4, <1>5
=============================================================================
