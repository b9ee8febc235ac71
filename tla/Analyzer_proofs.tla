--------------------------- MODULE Analyzer_proofs ---------------------------
(***************************************************************************)
(* Machine-checked facts about the reports of Analyzer, for every copy of  *)
(* the interactions, every order in which they are met, and any weights.   *)
(***************************************************************************)
EXTENDS Analyzer, DataLemmas

-----------------------------------------------------------------------------
(***************************************************************************)
(* Sums over the keys of a map: writing one entry adds the difference, and *)
(* entries of zero add nothing.                                            *)
(***************************************************************************)
LEMMA SumsAreAddUp ==
  /\ \A f, S : SumOf(f, S) = AddUp(f, S)
  /\ \A f, S : SumOf(f, S) \in Int <=> AddUp(f, S) \in Int
  BY DEF SumOf, AddUp

Bumped(g, f, S, k, v) ==
  /\ \A x \in S \ {k} : g[x] = f[x]
  /\ g[k] = (IF k \in S THEN f[k] ELSE 0) + v

LEMMA SumOfBumped ==
  ASSUME NEW S, IsFiniteSet(S), NEW f, \A x \in S : f[x] \in Int, NEW k, NEW v \in Int,
         NEW g, Bumped(g, f, S, k, v)
  PROVE  IsFiniteSet(S \cup {k}) /\ AddUp(g, S \cup {k}) = AddUp(f, S) + v
<1>. USE DEF Bumped
<1>. DEFINE R == S \ {k}
<1>1. IsFiniteSet(R) /\ R \subseteq S /\ k \notin R
  BY FS_Subset
<1>2. R \cup {k} = S \cup {k} /\ (k \in S => S = R \cup {k}) /\ (k \notin S => S = R)
  OBVIOUS
<1>3. (\A x \in R : f[x] \in Int /\ g[x] = f[x]) /\ (\A x \in R : f[x] \in Int)
      /\ (\A x \in R \cup {k} : g[x] \in Int) /\ (k \in S => \A x \in R \cup {k} : f[x] \in Int)
  OBVIOUS
<1>. HIDE DEF R
<1>4. AddUp(g, R) = AddUp(f, R) /\ AddUp(f, R) \in Int
  BY <1>1, <1>3, SumOfSame, SumIsInteger
<1>5. AddUp(g, R \cup {k}) = AddUp(g, R) + g[k]
  BY <1>1, <1>3, SumOfOneMore
<1>6. AddUp(f, S) = AddUp(f, R) + (IF k \in S THEN f[k] ELSE 0)
  <2>1. CASE k \in S
    <3>1. AddUp(f, R \cup {k}) = AddUp(f, R) + f[k]
      BY <1>1, <1>3, <2>1, SumOfOneMore
    <3>. QED  BY <1>2, <2>1, <3>1
  <2>2. CASE k \notin S
    BY <1>2, <1>4, <2>2
  <2>. QED  BY <2>1, <2>2
<1>7. AddUp(g, S \cup {k}) = AddUp(g, R \cup {k})
  BY <1>2
<1>8. (IF k \in S THEN f[k] ELSE 0) \in Int
  OBVIOUS
<1>9. IsFiniteSet(S \cup {k})
  BY FS_AddElement
<1>. QED  BY <1>4, <1>5, <1>6, <1>7, <1>8, <1>9

LEMMA SumOfZeros ==
  ASSUME NEW S, IsFiniteSet(S), NEW f, \A x \in S : f[x] = 0
  PROVE  AddUp(f, S) = 0
<1>1. (\A x \in S : f[x] \in Int) /\ \A x \in S : f[x] = f[x] * 0
  OBVIOUS
<1>2. AddUp(f, S) = AddUp(f, S) * 0
  BY <1>1, SumOfMultiples
<1>3. AddUp(f, S) \in Int
  BY <1>1, SumIsInteger
<1>. QED  BY <1>2, <1>3

LEMMA SumOfPadded ==
  ASSUME NEW S, IsFiniteSet(S), NEW f, \A x \in S : f[x] \in Int,
         NEW M, IsFiniteSet(M), NEW g, \A x \in S : g[x] = f[x], \A x \in M \ S : g[x] = 0
  PROVE  IsFiniteSet(S \cup M) /\ AddUp(g, S \cup M) = AddUp(f, S)
<1>. DEFINE R == M \ S
<1>1. IsFiniteSet(R) /\ S \cap R = {} /\ S \cup R = S \cup M
  BY FS_Subset
<1>2. (\A x \in R : g[x] = 0) /\ (\A x \in S \cup R : g[x] \in Int)
      /\ (\A x \in S : f[x] \in Int /\ g[x] = f[x])
  OBVIOUS
<1>. HIDE DEF R
<1>3. AddUp(g, R) = 0
  BY <1>1, <1>2, SumOfZeros
<1>4. AddUp(g, S) = AddUp(f, S) /\ AddUp(f, S) \in Int
  BY <1>2, SumOfSame, SumIsInteger
<1>5. AddUp(g, S \cup R) = AddUp(g, S) + AddUp(g, R)
  BY <1>1, <1>2, SumOfUnion
<1>6. AddUp(g, S \cup M) = AddUp(g, S \cup R)
  BY <1>1
<1>7. IsFiniteSet(S \cup M)
  BY FS_Union
<1>. QED  BY <1>3, <1>4, <1>5, <1>6, <1>7
-----------------------------------------------------------------------------
(***************************************************************************)
(* The copy a report walks over.                                           *)
(***************************************************************************)
Walked == DOMAIN traffic \ left

Copied == TrafficTyped /\ job \in Jobs

LEMMA CopyIsFinite ==
  ASSUME Copied
  PROVE  /\ IsFiniteSet(DOMAIN traffic) /\ IsFiniteSet(Walked) /\ Walked \subseteq DOMAIN traffic
         /\ \A i \in DOMAIN traffic : traffic[i].from \in Actor /\ traffic[i].to \in Actor
         /\ \A i \in DOMAIN traffic : Weight(i) \in Nat
<1>1. IsFiniteSet(DOMAIN traffic)
  BY TrafficAssumption DEF Copied, TrafficTyped
<1>2. \A i \in DOMAIN traffic : traffic[i].from \in Actor /\ traffic[i].to \in Actor
                               /\ traffic[i].edgeType \in DOMAIN EdgeWeight
  BY TrafficAssumption DEF Copied, TrafficTyped
<1>3. \A i \in DOMAIN traffic : Weight(i) \in Nat
  BY <1>2, TrafficAssumption DEF Weight
<1>4. IsFiniteSet(Walked) /\ Walked \subseteq DOMAIN traffic
  BY <1>1, FS_Subset DEF Walked
<1>. QED  BY <1>1, <1>2, <1>3, <1>4

LEMMA TakeWalks ==
  ASSUME Copied, NEW i, Take(i)
  PROVE  /\ Copied' /\ i \in DOMAIN traffic /\ i \notin Walked /\ Walked' = Walked \cup {i}
         /\ Cardinality(Walked') = Cardinality(Walked) + 1 /\ Cardinality(Walked) \in Nat
         /\ traffic' = traffic /\ job' = job
<1>1. i \in DOMAIN traffic /\ i \notin Walked /\ Walked' = Walked \cup {i}
      /\ traffic' = traffic /\ job' = job /\ left' \subseteq left
  BY DEF Copied, TrafficTyped, Take, Walked
<1>2. Copied'
  BY <1>1 DEF Copied, TrafficTyped
<1>3. IsFiniteSet(Walked)
  BY CopyIsFinite
<1>4. Cardinality(Walked \cup {i}) = Cardinality(Walked) + 1 /\ Cardinality(Walked) \in Nat
  BY <1>1, <1>3, FS_AddElement, FS_CardinalityType
<1>. QED  BY <1>1, <1>2, <1>4

LEMMA CopyStays == ASSUME Copied, UNCHANGED trafficVars PROVE Copied' /\ Walked' = Walked
  BY DEF Copied, TrafficTyped, trafficVars, Walked

LEMMA CopiedInit == ASSUME TrafficInit PROVE Copied /\ Walked = {}
  BY DEF TrafficInit, Copied, TrafficTyped, Walked
-----------------------------------------------------------------------------
(***************************************************************************)
(* The external report.  The maps of contacts and of domains are ledgers:  *)
(* booking a crossing under any key adds one to one of the two sums.       *)
(***************************************************************************)
Tally(s) ==
  /\ {"inbound", "outbound", "total"} \subseteq DOMAIN s
  /\ s.inbound \in Nat /\ s.outbound \in Nat /\ s.total \in Nat

Ledger(f) == IsFiniteSet(DOMAIN f) /\ \A k \in DOMAIN f : Tally(f[k])

Inbounds(f) == [k \in DOMAIN f |-> f[k].inbound]
Outbounds(f) == [k \in DOMAIN f |-> f[k].outbound]
AllIn(f) == AddUp(Inbounds(f), DOMAIN f)
AllOut(f) == AddUp(Outbounds(f), DOMAIN f)

LEMMA BookedTally ==
  ASSUME NEW s, Tally(s), NEW o \in BOOLEAN
  PROVE  /\ Tally(Booked(s, o)) /\ DOMAIN Booked(s, o) = DOMAIN s
         /\ Booked(s, o).inbound = s.inbound + (IF o THEN 0 ELSE 1)
         /\ Booked(s, o).outbound = s.outbound + (IF o THEN 1 ELSE 0)
         /\ Booked(s, o).total = s.total + 1
         /\ \A x \in DOMAIN s \ {"inbound", "outbound", "total"} : Booked(s, o)[x] = s[x]
<1>. DEFINE vi == IF o THEN 0 ELSE 1
            vo == IF o THEN 1 ELSE 0
            t == [s EXCEPT !.inbound = @ + vi, !.outbound = @ + vo, !.total = @ + 1]
<1>1. Booked(s, o) = t
  BY DEF Booked
<1>2. vi \in Nat /\ vo \in Nat
  OBVIOUS
<1>. HIDE DEF vi, vo
<1>3. DOMAIN t = DOMAIN s
  OBVIOUS
<1>4. t.inbound = s.inbound + vi /\ t.outbound = s.outbound + vo /\ t.total = s.total + 1
  BY DEF Tally
<1>5. \A x \in DOMAIN s \ {"inbound", "outbound", "total"} : t[x] = s[x]
  OBVIOUS
<1>. HIDE DEF t
<1>6. Tally(t)
  BY <1>2, <1>3, <1>4 DEF Tally
<1>. QED  BY <1>1, <1>3, <1>4, <1>5, <1>6 DEF vi, vo

LEMMA LedgerGrows ==
  ASSUME NEW f, Ledger(f), NEW k, NEW s, Tally(s), k \in DOMAIN f => s = f[k],
         k \notin DOMAIN f => s.inbound = 0 /\ s.outbound = 0, NEW o \in BOOLEAN
  PROVE  /\ Ledger(With(f, k, Booked(s, o)))
         /\ AllIn(With(f, k, Booked(s, o))) = AllIn(f) + (IF o THEN 0 ELSE 1)
         /\ AllOut(With(f, k, Booked(s, o))) = AllOut(f) + (IF o THEN 1 ELSE 0)
<1>. DEFINE t == Booked(s, o)
            g == With(f, k, t)
            S == DOMAIN f
            p == Inbounds(f)
            q == Inbounds(g)
            u == Outbounds(f)
            v == Outbounds(g)
            vi == IF o THEN 0 ELSE 1
            vo == IF o THEN 1 ELSE 0
<1>1. /\ Tally(t) /\ t.inbound = s.inbound + vi /\ t.outbound = s.outbound + vo
      /\ vi \in Int /\ vo \in Int
  BY BookedTally
<1>2. IsFiniteSet(S) /\ \A x \in S : Tally(f[x])
  BY DEF Ledger
<1>. HIDE DEF t
<1>3. DOMAIN g = S \cup {k} /\ g[k] = t /\ \A x \in S \ {k} : g[x] = f[x]
  BY DEF With
<1>. HIDE DEF g, vi, vo
<1>4. /\ \A x \in S : p[x] = f[x].inbound /\ u[x] = f[x].outbound
      /\ \A x \in S \cup {k} : q[x] = g[x].inbound /\ v[x] = g[x].outbound
  BY <1>3 DEF Inbounds, Outbounds
<1>. HIDE DEF S, p, q, u, v
<1>5. /\ \A x \in S : p[x] \in Int
      /\ \A x \in S : u[x] \in Int
      /\ \A x \in S \ {k} : q[x] = p[x]
      /\ \A x \in S \ {k} : v[x] = u[x]
  BY <1>2, <1>3, <1>4 DEF Tally
<1>6. q[k] = (IF k \in S THEN p[k] ELSE 0) + vi
  <2>1. q[k] = s.inbound + vi
    BY <1>1, <1>3, <1>4
  <2>2. k \in S => s.inbound = p[k]
    BY <1>4 DEF S
  <2>3. k \notin S => s.inbound = 0
    BY DEF S
  <2>. QED  BY <2>1, <2>2, <2>3
<1>7. v[k] = (IF k \in S THEN u[k] ELSE 0) + vo
  <2>1. v[k] = s.outbound + vo
    BY <1>1, <1>3, <1>4
  <2>2. k \in S => s.outbound = u[k]
    BY <1>4 DEF S
  <2>3. k \notin S => s.outbound = 0
    BY DEF S
  <2>. QED  BY <2>1, <2>2, <2>3
<1>8. IsFiniteSet(S \cup {k}) /\ AddUp(q, S \cup {k}) = AddUp(p, S) + vi
  <2>1. Bumped(q, p, S, k, vi)
    BY <1>5, <1>6 DEF Bumped
  <2>. QED  BY <1>1, <1>2, <1>5, <2>1, SumOfBumped
<1>9. AddUp(v, S \cup {k}) = AddUp(u, S) + vo
  <2>1. Bumped(v, u, S, k, vo)
    BY <1>5, <1>7 DEF Bumped
  <2>. QED  BY <1>1, <1>2, <1>5, <2>1, SumOfBumped
<1>10. Ledger(g)
  BY <1>1, <1>2, <1>3, <1>8 DEF Ledger
<1>11. AllIn(g) = AddUp(q, S \cup {k}) /\ AllOut(g) = AddUp(v, S \cup {k})
  BY <1>3 DEF AllIn, AllOut, q, v
<1>12. AllIn(f) = AddUp(p, S) /\ AllOut(f) = AddUp(u, S)
  BY DEF AllIn, AllOut, p, u, S
<1>. QED  BY <1>8, <1>9, <1>10, <1>11, <1>12 DEF g, t, vi, vo

Metric == [internal : Nat, external : Nat, total : Nat]
MetricsGood(m) == IsFiniteSet(DOMAIN m) /\ \A a \in DOMAIN m : m[a] \in Metric

Internals(m) == [a \in DOMAIN m |-> m[a].internal]
Externals(m) == [a \in DOMAIN m |-> m[a].external]
AllInternal(m) == AddUp(Internals(m), DOMAIN m)
AllExternal(m) == AddUp(Externals(m), DOMAIN m)

LEMMA SeenAddsNothing ==
  ASSUME MetricsGood(metrics), NEW M, IsFiniteSet(M)
  PROVE  /\ MetricsGood(Seen(M))
         /\ AllInternal(Seen(M)) = AllInternal(metrics)
         /\ AllExternal(Seen(M)) = AllExternal(metrics)
         /\ DOMAIN Seen(M) = DOMAIN metrics \cup M
<1>. DEFINE S == DOMAIN metrics
            m == Seen(M)
            p == Internals(metrics)
            q == Internals(m)
            u == Externals(metrics)
            v == Externals(m)
<1>1. IsFiniteSet(S) /\ \A a \in S : metrics[a] \in Metric
  BY DEF MetricsGood
<1>2. IsFiniteSet(M)
  OBVIOUS
<1>3. /\ DOMAIN m = S \cup M /\ \A a \in S : m[a] = metrics[a]
      /\ \A a \in M \ S : m[a] = NoMetrics
  BY DEF Seen, Lookup
<1>4. NoMetrics \in Metric /\ NoMetrics.internal = 0 /\ NoMetrics.external = 0
  BY DEF NoMetrics, Metric
<1>5. /\ \A a \in S : p[a] = metrics[a].internal /\ u[a] = metrics[a].external
      /\ \A a \in S \cup M : q[a] = m[a].internal /\ v[a] = m[a].external
  BY <1>3 DEF Internals, Externals
<1>6. AllInternal(m) = AddUp(q, S \cup M) /\ AllExternal(m) = AddUp(v, S \cup M)
      /\ AllInternal(metrics) = AddUp(p, S) /\ AllExternal(metrics) = AddUp(u, S)
  BY <1>3 DEF AllInternal, AllExternal
<1>. HIDE DEF S, m, p, q, u, v
<1>7. \A a \in S : metrics[a].internal \in Int /\ metrics[a].external \in Int
  BY <1>1 DEF Metric
<1>8. (\A a \in S : p[a] \in Int) /\ (\A a \in S : u[a] \in Int)
      /\ (\A a \in S : q[a] = p[a]) /\ (\A a \in S : v[a] = u[a])
      /\ (\A a \in M \ S : q[a] = 0) /\ (\A a \in M \ S : v[a] = 0)
  BY <1>3, <1>4, <1>5, <1>7
<1>9. IsFiniteSet(S \cup M) /\ AddUp(q, S \cup M) = AddUp(p, S)
  BY <1>1, <1>2, <1>8, SumOfPadded
<1>10. AddUp(v, S \cup M) = AddUp(u, S)
  BY <1>1, <1>2, <1>8, SumOfPadded
<1>11. MetricsGood(m)
  BY <1>1, <1>3, <1>4, <1>9 DEF MetricsGood
<1>. QED  BY <1>3, <1>6, <1>9, <1>10, <1>11 DEF m, S

LEMMA AccountCharged ==
  ASSUME NEW D, NEW m \in [D -> Metric], NEW a \in D
  PROVE  /\ LET n == [m EXCEPT ![a].external = @ + 1, ![a].total = @ + 1] IN
            /\ n \in [D -> Metric] /\ \A b \in D \ {a} : n[b] = m[b]
            /\ n[a].internal = m[a].internal + 0 /\ n[a].external = m[a].external + 1
         /\ LET n == [m EXCEPT ![a].internal = @ + 1, ![a].total = @ + 1] IN
            /\ n \in [D -> Metric] /\ \A b \in D \ {a} : n[b] = m[b]
            /\ n[a].internal = m[a].internal + 1 /\ n[a].external = m[a].external + 0
<1>. DEFINE r == m[a]
            x == [r EXCEPT !.external = @ + 1]
            y == [x EXCEPT !.total = @ + 1]
            u == [r EXCEPT !.internal = @ + 1]
            v == [u EXCEPT !.total = @ + 1]
<1>1. r \in Metric
  OBVIOUS
<1>2. /\ x \in Metric /\ x.internal = r.internal + 0 /\ x.external = r.external + 1
      /\ u \in Metric /\ u.internal = r.internal + 1 /\ u.external = r.external + 0
  <2>. HIDE DEF r
  <2>. QED  BY <1>1 DEF Metric
<1>3. /\ y \in Metric /\ y.internal = x.internal /\ y.external = x.external
      /\ v \in Metric /\ v.internal = u.internal /\ v.external = u.external
  <2>. HIDE DEF x, u
  <2>. QED  BY <1>2 DEF Metric
<1>4. /\ [m EXCEPT ![a].external = @ + 1, ![a].total = @ + 1] = [m EXCEPT ![a] = y]
      /\ [m EXCEPT ![a].internal = @ + 1, ![a].total = @ + 1] = [m EXCEPT ![a] = v]
  OBVIOUS
<1>. HIDE DEF y, v
<1>5. \A z \in Metric : LET n == [m EXCEPT ![a] = z] IN
         n \in [D -> Metric] /\ n[a] = z /\ \A b \in D \ {a} : n[b] = m[b]
  OBVIOUS
<1>. QED  BY <1>2, <1>3, <1>4, <1>5

\* One more interaction in an actor's account, of either sort.
LEMMA OneMoreMetric ==
  ASSUME NEW m, MetricsGood(m), NEW a \in DOMAIN m, NEW n, n \in [DOMAIN m -> Metric],
         \A b \in DOMAIN m \ {a} : n[b] = m[b], NEW vi \in Nat, NEW vo \in Nat,
         n[a].internal = m[a].internal + vi, n[a].external = m[a].external + vo
  PROVE  /\ MetricsGood(n) /\ AllInternal(n) = AllInternal(m) + vi
         /\ AllExternal(n) = AllExternal(m) + vo
<1>. DEFINE S == DOMAIN m
            p == Internals(m)
            q == Internals(n)
            u == Externals(m)
            v == Externals(n)
<1>1. IsFiniteSet(S) /\ DOMAIN n = S /\ a \in S
  BY DEF MetricsGood
<1>2. /\ \A b \in S : p[b] = m[b].internal /\ u[b] = m[b].external
      /\ \A b \in S : q[b] = n[b].internal /\ v[b] = n[b].external
  BY <1>1 DEF Internals, Externals
<1>3. \A b \in S : m[b].internal \in Int /\ m[b].external \in Int
  BY DEF MetricsGood, Metric
<1>4. /\ AllInternal(n) = AddUp(q, S) /\ AllInternal(m) = AddUp(p, S)
      /\ AllExternal(n) = AddUp(v, S) /\ AllExternal(m) = AddUp(u, S)
  BY <1>1 DEF AllInternal, AllExternal
<1>5. \A b \in S \ {a} : n[b] = m[b]
  OBVIOUS
<1>. HIDE DEF S, p, q, u, v
<1>6. (\A b \in S : p[b] \in Int) /\ (\A b \in S : u[b] \in Int)
  BY <1>2, <1>3
<1>7. Bumped(q, p, S, a, vi)
  BY <1>1, <1>2, <1>5 DEF Bumped
<1>8. Bumped(v, u, S, a, vo)
  BY <1>1, <1>2, <1>5 DEF Bumped
<1>9. AddUp(q, S \cup {a}) = AddUp(p, S) + vi
  BY <1>1, <1>6, <1>7, SumOfBumped
<1>10. AddUp(v, S \cup {a}) = AddUp(u, S) + vo
  BY <1>1, <1>6, <1>8, SumOfBumped
<1>11. S \cup {a} = S
  BY <1>1
<1>12. MetricsGood(n)
  BY <1>1 DEF MetricsGood, S
<1>. QED  BY <1>4, <1>9, <1>10, <1>11, <1>12

(***************************************************************************)
(* The books.                                                              *)
(***************************************************************************)
Totals == [total : Nat, external : Nat, inbound : Nat, outbound : Nat]
Crossings == AddUp(domainsOf, DOMAIN domainsOf)

Books ==
  job = "external" =>
    /\ Ledger(contacts) /\ Ledger(domainStats) /\ MetricsGood(metrics)
    /\ IsFiniteSet(DOMAIN domainsOf) /\ \A p \in DOMAIN domainsOf : domainsOf[p] \in Nat
    /\ counts \in Totals
    /\ AllIn(contacts) = counts.inbound /\ AllOut(contacts) = counts.outbound
    /\ AllIn(domainStats) = counts.inbound /\ AllOut(domainStats) = counts.outbound
    /\ AllExternal(metrics) = counts.inbound + counts.outbound
    /\ Crossings = counts.inbound + counts.outbound
    /\ AllInternal(metrics) = counts.total - counts.external
    /\ counts.total = Cardinality(Walked)

LEMMA BooksInit == ASSUME TrafficInit, ExternalInit PROVE Books
<1>1. DOMAIN NoEntries = {}
  BY DEF NoEntries
<1>2. IsFiniteSet(DOMAIN NoEntries) /\ \A f : AddUp(f, DOMAIN NoEntries) = 0
  BY <1>1, FS_EmptySet, SumOfNone
<1>3. Ledger(NoEntries) /\ MetricsGood(NoEntries) /\ AllIn(NoEntries) = 0 /\ AllOut(NoEntries) = 0
      /\ AllExternal(NoEntries) = 0 /\ AllInternal(NoEntries) = 0
  BY <1>1, <1>2 DEF Ledger, MetricsGood, AllIn, AllOut, AllExternal, AllInternal
<1>4. Cardinality(Walked) = 0
  BY CopiedInit, FS_EmptySet
<1>. QED  BY <1>1, <1>2, <1>3, <1>4 DEF ExternalInit, Books, Totals, Crossings

\* What a crossing adds to each map, in whichever direction it goes.
LEMMA TrackBooks ==
  ASSUME Books, job = "external", NEW mine, NEW other, NEW o \in BOOLEAN,
         Track(mine, other, o)
  PROVE  /\ Ledger(contacts') /\ Ledger(domainStats') /\ MetricsGood(metrics')
         /\ IsFiniteSet(DOMAIN domainsOf') /\ \A p \in DOMAIN domainsOf' : domainsOf'[p] \in Nat
         /\ AllIn(contacts') = AllIn(contacts) + (IF o THEN 0 ELSE 1)
         /\ AllOut(contacts') = AllOut(contacts) + (IF o THEN 1 ELSE 0)
         /\ AllIn(domainStats') = AllIn(domainStats) + (IF o THEN 0 ELSE 1)
         /\ AllOut(domainStats') = AllOut(domainStats) + (IF o THEN 1 ELSE 0)
         /\ AllExternal(metrics') = AllExternal(metrics) + 1
         /\ AllInternal(metrics') = AllInternal(metrics)
         /\ Crossings' = Crossings + 1
<1>1. /\ Ledger(contacts) /\ Ledger(domainStats) /\ MetricsGood(metrics)
      /\ IsFiniteSet(DOMAIN domainsOf) /\ \A p \in DOMAIN domainsOf : domainsOf[p] \in Nat
  BY DEF Books
<1>2. /\ Ledger(contacts') /\ AllIn(contacts') = AllIn(contacts) + (IF o THEN 0 ELSE 1)
      /\ AllOut(contacts') = AllOut(contacts) + (IF o THEN 1 ELSE 0)
  <2>. DEFINE new == [domain |-> extractDomain(other), inbound |-> 0, outbound |-> 0, total |-> 0]
              c == Lookup(contacts, other, new)
  <2>1. Tally(new) /\ new.inbound = 0 /\ new.outbound = 0
    BY DEF Tally
  <2>2. contacts' = With(contacts, other, Booked(c, o))
    BY DEF Track, Contact
  <2>. HIDE DEF new
  <2>3. /\ other \in DOMAIN contacts => c = contacts[other]
        /\ other \notin DOMAIN contacts => c = new
    BY DEF Lookup
  <2>4. Tally(c)
    BY <1>1, <2>1, <2>3 DEF Ledger
  <2>. HIDE DEF c
  <2>5. /\ other \in DOMAIN contacts => c = contacts[other]
        /\ other \notin DOMAIN contacts => c.inbound = 0 /\ c.outbound = 0
    BY <2>1, <2>3
  <2>. QED  BY <1>1, <2>2, <2>4, <2>5, LedgerGrows
<1>3. /\ Ledger(domainStats') /\ AllIn(domainStats') = AllIn(domainStats) + (IF o THEN 0 ELSE 1)
      /\ AllOut(domainStats') = AllOut(domainStats) + (IF o THEN 1 ELSE 0)
  <2>. DEFINE d == extractDomain(other)
              c == Lookup(domainStats, d, NoStats)
  <2>1. Tally(NoStats) /\ NoStats.inbound = 0 /\ NoStats.outbound = 0
    BY DEF Tally, NoStats
  <2>2. domainStats' = With(domainStats, d, Booked(c, o))
    BY DEF Track
  <2>. HIDE DEF d
  <2>3. /\ d \in DOMAIN domainStats => c = domainStats[d]
        /\ d \notin DOMAIN domainStats => c = NoStats
    BY DEF Lookup
  <2>4. Tally(c)
    BY <1>1, <2>1, <2>3 DEF Ledger
  <2>. HIDE DEF c
  <2>5. /\ d \in DOMAIN domainStats => c = domainStats[d]
        /\ d \notin DOMAIN domainStats => c.inbound = 0 /\ c.outbound = 0
    BY <2>1, <2>3
  <2>. QED  BY <1>1, <2>2, <2>4, <2>5, LedgerGrows
<1>4. /\ MetricsGood(metrics') /\ AllExternal(metrics') = AllExternal(metrics) + 1
      /\ AllInternal(metrics') = AllInternal(metrics)
  <2>. DEFINE m == Seen({mine})
  <2>1. /\ MetricsGood(m) /\ AllInternal(m) = AllInternal(metrics)
        /\ AllExternal(m) = AllExternal(metrics) /\ mine \in DOMAIN m
    <3>1. IsFiniteSet({mine})
      BY FS_Singleton
    <3>. QED  BY <1>1, <3>1, SeenAddsNothing
  <2>2. metrics' = [m EXCEPT ![mine].external = @ + 1, ![mine].total = @ + 1]
    BY DEF Track
  <2>. HIDE DEF m
  <2>3. m \in [DOMAIN m -> Metric]
    <3>1. m = [a \in DOMAIN m |-> m[a]]
      BY DEF m, Seen
    <3>. QED  BY <2>1, <3>1 DEF MetricsGood
  <2>4. /\ metrics' \in [DOMAIN m -> Metric] /\ \A b \in DOMAIN m \ {mine} : metrics'[b] = m[b]
        /\ metrics'[mine].internal = m[mine].internal + 0
        /\ metrics'[mine].external = m[mine].external + 1
    <3>. DEFINE D == DOMAIN m
    <3>1. mine \in D /\ m \in [D -> Metric]
      BY <2>1, <2>3
    <3>. HIDE DEF D
    <3>2. LET n == [m EXCEPT ![mine].external = @ + 1, ![mine].total = @ + 1] IN
            /\ n \in [D -> Metric] /\ \A b \in D \ {mine} : n[b] = m[b]
            /\ n[mine].internal = m[mine].internal + 0 /\ n[mine].external = m[mine].external + 1
      BY <3>1, AccountCharged
    <3>. QED  BY <2>2, <3>2 DEF D
  <2>6. AllInternal(metrics') = AllInternal(m) + 0 /\ AllExternal(metrics') = AllExternal(m) + 1
        /\ MetricsGood(metrics')
    BY <2>1, <2>4, OneMoreMetric
  <2>7. AllInternal(m) \in Int
    <3>1. IsFiniteSet(DOMAIN m) /\ \A a \in DOMAIN m : Internals(m)[a] \in Int
      BY <2>1 DEF MetricsGood, Metric, Internals
    <3>. QED  BY <3>1, SumIsInteger DEF AllInternal
  <2>. QED  BY <2>1, <2>6, <2>7
<1>5. /\ IsFiniteSet(DOMAIN domainsOf') /\ \A p \in DOMAIN domainsOf' : domainsOf'[p] \in Nat
      /\ Crossings' = Crossings + 1
  <2>. DEFINE k == <<mine, extractDomain(other)>>
              S == DOMAIN domainsOf
  <2>1. domainsOf' = With(domainsOf, k, Lookup(domainsOf, k, 0) + 1)
    BY DEF Track
  <2>. HIDE DEF k
  <2>2. DOMAIN domainsOf' = S \cup {k} /\ Bumped(domainsOf', domainsOf, S, k, 1)
    BY <2>1 DEF With, Lookup, Bumped
  <2>3. (\A x \in S : domainsOf[x] \in Int) /\ IsFiniteSet(S)
    BY <1>1
  <2>. HIDE DEF S
  <2>4. IsFiniteSet(S \cup {k}) /\ AddUp(domainsOf', S \cup {k}) = AddUp(domainsOf, S) + 1
    BY <2>2, <2>3, SumOfBumped
  <2>5. \A p \in S \cup {k} : domainsOf'[p] \in Nat
    BY <1>1, <2>2 DEF Bumped, S
  <2>. QED  BY <2>2, <2>4, <2>5 DEF Crossings, S
<1>. QED  BY <1>1, <1>2, <1>3, <1>4, <1>5

LEMMA BooksCount ==
  ASSUME Copied, Books, NEW i, CountInteraction(i) \/ CountNewcomer(i) PROVE Books'
<1>1. job = "external" /\ Take(i)
  BY DEF CountInteraction, CountNewcomer
<1>2. job' = "external" /\ Cardinality(Walked') = Cardinality(Walked) + 1
  BY <1>1, TakeWalks
<1>3. /\ counts \in Totals
      /\ AllIn(contacts) = counts.inbound /\ AllOut(contacts) = counts.outbound
      /\ AllIn(domainStats) = counts.inbound /\ AllOut(domainStats) = counts.outbound
      /\ AllExternal(metrics) = counts.inbound + counts.outbound
      /\ Crossings = counts.inbound + counts.outbound
      /\ AllInternal(metrics) = counts.total - counts.external
      /\ counts.total = Cardinality(Walked)
  BY <1>1 DEF Books
<1>4. /\ Ledger(contacts) /\ Ledger(domainStats) /\ MetricsGood(metrics)
      /\ IsFiniteSet(DOMAIN domainsOf) /\ \A p \in DOMAIN domainsOf : domainsOf[p] \in Nat
  BY <1>1 DEF Books
<1>5. \A e, p, q \in Nat : Counted(e, p, q) =>
        /\ counts' \in Totals
        /\ counts'.total = counts.total + 1 /\ counts'.external = counts.external + e
        /\ counts'.inbound = counts.inbound + p /\ counts'.outbound = counts.outbound + q
  BY <1>3 DEF Counted, Totals
<1>6. counts.total \in Nat /\ counts.external \in Nat /\ counts.inbound \in Nat
      /\ counts.outbound \in Nat
  BY <1>3 DEF Totals
<1>7. ASSUME Untracked
      PROVE  /\ contacts' = contacts /\ domainStats' = domainStats /\ domainsOf' = domainsOf
             /\ Ledger(contacts') /\ Ledger(domainStats') /\ Crossings' = Crossings
             /\ AllIn(contacts') = AllIn(contacts) /\ AllOut(contacts') = AllOut(contacts)
             /\ AllIn(domainStats') = AllIn(domainStats)
             /\ AllOut(domainStats') = AllOut(domainStats)
  BY <1>4, <1>7 DEF Untracked, Crossings
<1>8. CASE Within(i)
  <2>. DEFINE M == {traffic[i].from, traffic[i].to}
              m == Seen(M)
              a == traffic[i].from
  <2>1. /\ Internal(a) /\ Counted(0, 0, 0) /\ Untracked
        /\ metrics' = [m EXCEPT ![a].internal = @ + 1, ![a].total = @ + 1]
    BY <1>8 DEF Within
  <2>2. /\ MetricsGood(m) /\ AllInternal(m) = AllInternal(metrics)
        /\ AllExternal(m) = AllExternal(metrics) /\ a \in DOMAIN m
    <3>1. IsFiniteSet({traffic[i].from} \cup {traffic[i].to})
      BY FS_Singleton, FS_Union
    <3>2. M = {traffic[i].from} \cup {traffic[i].to}
      OBVIOUS
    <3>. HIDE DEF M
    <3>3. /\ MetricsGood(m) /\ AllInternal(m) = AllInternal(metrics)
          /\ AllExternal(m) = AllExternal(metrics) /\ DOMAIN m = DOMAIN metrics \cup M
      BY <1>4, <3>1, <3>2, SeenAddsNothing
    <3>. QED  BY <3>3 DEF M
  <2>3. m \in [DOMAIN m -> Metric]
    <3>1. m = [x \in DOMAIN m |-> m[x]]
      BY DEF Seen
    <3>. QED  BY <2>2, <3>1 DEF MetricsGood
  <2>. HIDE DEF m, a
  <2>4. /\ metrics' \in [DOMAIN m -> Metric] /\ \A b \in DOMAIN m \ {a} : metrics'[b] = m[b]
        /\ metrics'[a].internal = m[a].internal + 1
        /\ metrics'[a].external = m[a].external + 0
    <3>. DEFINE n == [m EXCEPT ![a].internal = @ + 1, ![a].total = @ + 1]
                D == DOMAIN m
    <3>1. m \in [D -> Metric] /\ a \in D
      BY <2>2, <2>3
    <3>. HIDE DEF D
    <3>2. /\ n \in [D -> Metric] /\ \A b \in D \ {a} : n[b] = m[b]
          /\ n[a].internal = m[a].internal + 1 /\ n[a].external = m[a].external + 0
      BY <3>1, AccountCharged
    <3>3. metrics' = n
      BY <2>1
    <3>. HIDE DEF n
    <3>. QED  BY <3>2, <3>3 DEF D
  <2>5. AllInternal(metrics') = AllInternal(m) + 1 /\ AllExternal(metrics') = AllExternal(m) + 0
        /\ MetricsGood(metrics')
    BY <2>2, <2>4, OneMoreMetric
  <2>6. /\ counts' \in Totals
        /\ counts'.total = counts.total + 1 /\ counts'.external = counts.external + 0
        /\ counts'.inbound = counts.inbound + 0 /\ counts'.outbound = counts.outbound + 0
    BY <1>5, <2>1
  <2>7. AllInternal(metrics') = counts'.total - counts'.external
        /\ AllExternal(metrics') = counts'.inbound + counts'.outbound
    BY <1>3, <1>6, <2>2, <2>5, <2>6
  <2>. QED  BY <1>2, <1>3, <1>4, <1>6, <1>7, <2>1, <2>5, <2>6, <2>7 DEF Books
<1>9. CASE Outside(i)
  <2>1. Counted(1, 0, 0) /\ Untracked /\ metrics' = metrics
    BY <1>9 DEF Outside
  <2>2. /\ counts' \in Totals
        /\ counts'.total = counts.total + 1 /\ counts'.external = counts.external + 1
        /\ counts'.inbound = counts.inbound + 0 /\ counts'.outbound = counts.outbound + 0
    BY <1>5, <2>1
  <2>3. counts'.total - counts'.external = counts.total - counts.external
    BY <1>6, <2>2
  <2>. QED  BY <1>2, <1>3, <1>4, <1>6, <1>7, <2>1, <2>2, <2>3 DEF Books
<1>10. ASSUME NEW mine, NEW other, NEW o \in BOOLEAN, Track(mine, other, o),
              Counted(1, IF o THEN 0 ELSE 1, IF o THEN 1 ELSE 0)
       PROVE  Books'
  <2>. DEFINE vi == IF o THEN 0 ELSE 1
              vo == IF o THEN 1 ELSE 0
  <2>1. /\ Ledger(contacts') /\ Ledger(domainStats') /\ MetricsGood(metrics')
        /\ IsFiniteSet(DOMAIN domainsOf') /\ \A p \in DOMAIN domainsOf' : domainsOf'[p] \in Nat
        /\ AllIn(contacts') = AllIn(contacts) + vi
        /\ AllOut(contacts') = AllOut(contacts) + vo
        /\ AllIn(domainStats') = AllIn(domainStats) + vi
        /\ AllOut(domainStats') = AllOut(domainStats) + vo
        /\ AllExternal(metrics') = AllExternal(metrics) + 1
        /\ AllInternal(metrics') = AllInternal(metrics)
        /\ Crossings' = Crossings + 1
    BY <1>1, <1>10, TrackBooks
  <2>2. vi \in Nat /\ vo \in Nat /\ vi + vo = 1 /\ Counted(1, vi, vo)
    BY <1>10
  <2>. HIDE DEF vi, vo
  <2>3. /\ counts' \in Totals
        /\ counts'.total = counts.total + 1 /\ counts'.external = counts.external + 1
        /\ counts'.inbound = counts.inbound + vi /\ counts'.outbound = counts.outbound + vo
    BY <1>5, <2>2
  <2>4. /\ counts'.total - counts'.external = counts.total - counts.external
        /\ counts'.inbound + counts'.outbound = counts.inbound + counts.outbound + 1
    <3>. DEFINE ci == counts.inbound
                co == counts.outbound
                ct == counts.total
                ce == counts.external
    <3>1. ci \in Nat /\ co \in Nat /\ ct \in Nat /\ ce \in Nat
      BY <1>6
    <3>2. /\ counts'.total = ct + 1 /\ counts'.external = ce + 1
          /\ counts'.inbound = ci + vi /\ counts'.outbound = co + vo
      BY <2>3
    <3>. HIDE DEF ci, co, ct, ce
    <3>3. (ct + 1) - (ce + 1) = ct - ce /\ (ci + vi) + (co + vo) = ci + co + 1
      BY <2>2, <3>1
    <3>. QED  BY <3>2, <3>3 DEF ci, co, ct, ce
  <2>. QED  BY <1>2, <1>3, <2>1, <2>3, <2>4 DEF Books
<1>11. CASE Outbound(i)
  BY <1>10, <1>11 DEF Outbound
<1>12. CASE Inbound(i)
  BY <1>10, <1>12 DEF Inbound
<1>13. CASE CountNewcomer(i)
  BY <1>10, <1>13 DEF CountNewcomer
<1>. QED  BY <1>8, <1>9, <1>11, <1>12, <1>13 DEF CountInteraction

BooksInv == Copied /\ Books

LEMMA BooksStep == BooksInv /\ [Next]_vars => BooksInv'
<1>. SUFFICES ASSUME BooksInv, [Next]_vars PROVE BooksInv'
  OBVIOUS
<1>. USE DEF BooksInv
<1>1. ASSUME UNCHANGED trafficVars,
             UNCHANGED <<metrics, domainsOf, contacts, partners, domainStats, domainPartners, counts>>
      PROVE  BooksInv'
  <2>1. Copied' /\ Walked' = Walked /\ job' = job
    BY <1>1, CopyStays DEF trafficVars
  <2>. QED  BY <1>1, <2>1 DEF Books, Crossings
<1>2. ASSUME NEW i, Take(i), job # "external" PROVE BooksInv'
  BY <1>2, TakeWalks DEF Books
<1>3. CASE ExternalNext
  <2>1. ASSUME NEW i, CountInteraction(i) \/ CountNewcomer(i) PROVE BooksInv'
    BY <2>1, BooksCount, TakeWalks DEF CountInteraction, CountNewcomer
  <2>2. ASSUME NEW a, LoadActor(a) PROVE BooksInv'
    BY <1>1, <2>2 DEF LoadActor
  <2>3. CASE Summarise
    BY <1>1, <2>3 DEF Summarise
  <2>. QED  BY <1>3, <2>1, <2>2, <2>3 DEF ExternalNext
<1>4. CASE CentralityNext /\ UNCHANGED externalVars
  <2>1. ASSUME NEW i, AddEdge(i) PROVE BooksInv'
    BY <1>2, <2>1 DEF AddEdge, DegreeJobs
  <2>2. CASE Iterate \/ ToResults
    BY <1>1, <1>4, <2>2 DEF Iterate, ToResults, externalVars
  <2>. QED  BY <1>4, <2>1, <2>2 DEF CentralityNext
<1>5. CASE TemporalNext /\ UNCHANGED externalVars
  <2>1. ASSUME NEW i, ScanInteraction(i) PROVE BooksInv'
    BY <1>2, <2>1 DEF ScanInteraction
  <2>2. CASE FindWindow \/ BuildTimeline \/ ScanPoint \/ EndBursts
    BY <1>1, <1>5, <2>2 DEF FindWindow, BuildTimeline, ScanPoint, EndBursts, externalVars
  <2>. QED  BY <1>5, <2>1, <2>2 DEF TemporalNext
<1>6. CASE UNCHANGED vars
  BY <1>1, <1>6 DEF vars, externalVars
<1>. QED  BY <1>3, <1>4, <1>5, <1>6 DEF Next

LEMMA BooksImply == BooksInv => BooksBalance
<1>. SUFFICES ASSUME BooksInv, job = "external" PROVE BooksBalance
  BY DEF BooksInv, Copied, BooksBalance
<1>. USE DEF BooksInv
<1>1. /\ \A f : SumOver(DOMAIN f, LAMBDA k : f[k].inbound) = AllIn(f)
      /\ \A f : SumOver(DOMAIN f, LAMBDA k : f[k].outbound) = AllOut(f)
  BY DEF SumOver, SumOf, AllIn, AllOut, AddUp, Inbounds, Outbounds
<1>2. /\ SumOver(DOMAIN metrics, LAMBDA a : metrics[a].external) = AllExternal(metrics)
      /\ SumOver(DOMAIN metrics, LAMBDA a : metrics[a].internal) = AllInternal(metrics)
      /\ SumOf(domainsOf, DOMAIN domainsOf) = Crossings
  BY DEF SumOver, SumOf, AllExternal, AllInternal, AddUp, Externals, Internals, Crossings
<1>. QED  BY <1>1, <1>2 DEF BooksBalance, Books, Copied, Walked

(***************************************************************************)
(* In every behaviour the six maps of an external report account for the   *)
(* same crossings at every moment, whatever the resolver is told meanwhile *)
(* (analysis/external.go:162-190).                                         *)
(***************************************************************************)
THEOREM TheBooksBalance == Spec => []BooksBalance
<1>1. Init => BooksInv
  BY BooksInit, CopiedInit DEF Init, BooksInv
<1>. QED  BY <1>1, BooksStep, BooksImply, PTL DEF Spec
-----------------------------------------------------------------------------
(***************************************************************************)
(* Degrees: each of the two maps holds the weight of what has been walked  *)
(* over, under the names of its senders or receivers, and the results, once *)
(* there, are the scores.                                                  *)
(***************************************************************************)
Weights == [i \in DOMAIN traffic |-> Weight(i)]
WeightMet == AddUp(Weights, Walked)

DegreeMap(d) == IsFiniteSet(DOMAIN d) /\ \A a \in DOMAIN d : d[a] \in Nat

Reported ==
  /\ DOMAIN results[1] = DOMAIN Scores
  /\ \A a \in DOMAIN Scores : results[1][a].score = Scores[a]

Degrees ==
  job \in DegreeJobs =>
    /\ DegreeMap(outDegree) /\ DegreeMap(inDegree)
    /\ AddUp(outDegree, DOMAIN outDegree) = WeightMet
    /\ AddUp(inDegree, DOMAIN inDegree) = WeightMet
    /\ DOMAIN outDegree = {traffic[i].from : i \in Walked}
    /\ DOMAIN inDegree = {traffic[i].to : i \in Walked}
    /\ results # <<>> => left = {} /\ Reported

LEMMA DegreesInit == ASSUME TrafficInit, CentralityInit PROVE Degrees
<1>1. DOMAIN NoEntries = {} /\ Walked = {}
  BY CopiedInit DEF NoEntries
<1>2. \A f : AddUp(f, {}) = 0
  BY SumOfNone
<1>. QED  BY <1>1, <1>2, FS_EmptySet DEF CentralityInit, Degrees, DegreeMap, WeightMet

Charged(e, d, a, w) == e = With(d, a, Lookup(d, a, 0) + w)

LEMMA DegreeGrows ==
  ASSUME NEW d, DegreeMap(d), NEW a, NEW w \in Nat,
         NEW e, Charged(e, d, a, w)
  PROVE  /\ DegreeMap(e) /\ DOMAIN e = DOMAIN d \cup {a}
         /\ AddUp(e, DOMAIN e) = AddUp(d, DOMAIN d) + w
<1>. DEFINE S == DOMAIN d
<1>1. DOMAIN e = S \cup {a} /\ Bumped(e, d, S, a, w)
  BY DEF Charged, With, Lookup, Bumped
<1>2. (\A x \in S : d[x] \in Int) /\ IsFiniteSet(S) /\ \A x \in S : d[x] \in Nat
  BY DEF DegreeMap
<1>3. w \in Int
  OBVIOUS
<1>. HIDE DEF S
<1>4. IsFiniteSet(S \cup {a}) /\ AddUp(e, S \cup {a}) = AddUp(d, S) + w
  BY <1>1, <1>2, <1>3, SumOfBumped
<1>5. \A x \in S \cup {a} : e[x] \in Nat
  BY <1>1, <1>2 DEF Bumped
<1>. QED  BY <1>1, <1>4, <1>5 DEF S, DegreeMap

LEMMA WeightIsMet ==
  ASSUME Copied, NEW i, Take(i)
  PROVE  WeightMet' = WeightMet + Weight(i) /\ WeightMet \in Int /\ Weight(i) \in Nat
<1>1. /\ i \in DOMAIN traffic /\ i \notin Walked /\ Walked' = Walked \cup {i}
      /\ traffic' = traffic
  BY TakeWalks
<1>2. IsFiniteSet(Walked) /\ Walked \subseteq DOMAIN traffic
      /\ \A j \in DOMAIN traffic : Weight(j) \in Nat
  BY CopyIsFinite
<1>3. Weights' = Weights
  BY <1>1 DEF Weights, Weight
<1>4. (\A j \in Walked \cup {i} : Weights[j] \in Int) /\ Weights[i] = Weight(i)
      /\ Weight(i) \in Nat /\ (\A j \in Walked : Weights[j] \in Int)
  BY <1>1, <1>2 DEF Weights
<1>5. AddUp(Weights, Walked \cup {i}) = AddUp(Weights, Walked) + Weights[i]
  BY <1>1, <1>2, <1>4, SumOfOneMore
<1>6. AddUp(Weights, Walked) \in Int
  BY <1>2, <1>4, SumIsInteger
<1>. QED  BY <1>1, <1>3, <1>4, <1>5, <1>6 DEF WeightMet

LEMMA DegreesCount == ASSUME Copied, Degrees, NEW i, AddEdge(i) PROVE Degrees'
<1>1. /\ job \in DegreeJobs /\ Take(i) /\ results' = results /\ i \in left
      /\ outDegree' = With(outDegree, traffic[i].from,
                           Lookup(outDegree, traffic[i].from, 0) + Weight(i))
      /\ inDegree' = With(inDegree, traffic[i].to,
                          Lookup(inDegree, traffic[i].to, 0) + Weight(i))
  BY DEF AddEdge, Take
<1>2. /\ DegreeMap(outDegree) /\ DegreeMap(inDegree)
      /\ AddUp(outDegree, DOMAIN outDegree) = WeightMet
      /\ AddUp(inDegree, DOMAIN inDegree) = WeightMet
      /\ DOMAIN outDegree = {traffic[j].from : j \in Walked}
      /\ DOMAIN inDegree = {traffic[j].to : j \in Walked}
      /\ results = <<>>
  BY <1>1 DEF Degrees
<1>3. WeightMet' = WeightMet + Weight(i) /\ Weight(i) \in Nat
  BY <1>1, WeightIsMet
<1>4. job' = job /\ traffic' = traffic /\ Walked' = Walked \cup {i}
  BY <1>1, TakeWalks
<1>5. /\ DegreeMap(outDegree') /\ DOMAIN outDegree' = DOMAIN outDegree \cup {traffic[i].from}
      /\ AddUp(outDegree', DOMAIN outDegree') = WeightMet + Weight(i)
  <2>. DEFINE a == traffic[i].from
              w == Weight(i)
              n == With(outDegree, a, Lookup(outDegree, a, 0) + w)
  <2>1. outDegree' = n /\ Charged(n, outDegree, a, w) /\ w \in Nat /\ DegreeMap(outDegree)
    BY <1>1, <1>2, <1>3 DEF Charged
  <2>. HIDE DEF a, w, n
  <2>2. Charged(n, outDegree, a, w) /\ w \in Nat /\ DegreeMap(outDegree)
    BY <2>1
  <2>3. DegreeMap(n) /\ DOMAIN n = DOMAIN outDegree \cup {a}
        /\ AddUp(n, DOMAIN n) = AddUp(outDegree, DOMAIN outDegree) + w
    BY <2>2, DegreeGrows
  <2>. QED  BY <1>2, <2>1, <2>3 DEF a, w
<1>6. /\ DegreeMap(inDegree') /\ DOMAIN inDegree' = DOMAIN inDegree \cup {traffic[i].to}
      /\ AddUp(inDegree', DOMAIN inDegree') = WeightMet + Weight(i)
  <2>. DEFINE a == traffic[i].to
              w == Weight(i)
              n == With(inDegree, a, Lookup(inDegree, a, 0) + w)
  <2>1. inDegree' = n /\ Charged(n, inDegree, a, w) /\ w \in Nat /\ DegreeMap(inDegree)
    BY <1>1, <1>2, <1>3 DEF Charged
  <2>. HIDE DEF a, w, n
  <2>2. Charged(n, inDegree, a, w) /\ w \in Nat /\ DegreeMap(inDegree)
    BY <2>1
  <2>3. DegreeMap(n) /\ DOMAIN n = DOMAIN inDegree \cup {a}
        /\ AddUp(n, DOMAIN n) = AddUp(inDegree, DOMAIN inDegree) + w
    BY <2>2, DegreeGrows
  <2>. QED  BY <1>2, <2>1, <2>3 DEF a, w
<1>7. /\ {traffic'[j].from : j \in Walked'} = {traffic[j].from : j \in Walked} \cup {traffic[i].from}
      /\ {traffic'[j].to : j \in Walked'} = {traffic[j].to : j \in Walked} \cup {traffic[i].to}
  BY <1>4
<1>. QED  BY <1>1, <1>2, <1>3, <1>4, <1>5, <1>6, <1>7 DEF Degrees

DegreesInv == Copied /\ Degrees

LEMMA DegreesStep == DegreesInv /\ [Next]_vars => DegreesInv'
<1>. SUFFICES ASSUME DegreesInv, [Next]_vars PROVE DegreesInv'
  OBVIOUS
<1>. USE DEF DegreesInv
<1>1. ASSUME UNCHANGED trafficVars, UNCHANGED <<outDegree, inDegree, rank, results>>
      PROVE  DegreesInv'
  <2>1. Copied' /\ Walked' = Walked /\ job' = job /\ traffic' = traffic /\ left' = left
    BY <1>1, CopyStays DEF trafficVars
  <2>2. WeightMet' = WeightMet /\ Scores' = Scores
    BY <1>1, <2>1 DEF WeightMet, Weights, Weight, Scores, TotalDegree
  <2>. QED  BY <1>1, <2>1, <2>2 DEF Degrees, Reported
<1>2. ASSUME NEW i, Take(i), job \notin DegreeJobs PROVE DegreesInv'
  BY <1>2, TakeWalks DEF Degrees
<1>3. CASE ExternalNext /\ UNCHANGED centralityVars
  <2>1. ASSUME NEW i, CountInteraction(i) \/ CountNewcomer(i) PROVE DegreesInv'
    BY <1>2, <2>1 DEF CountInteraction, CountNewcomer, DegreeJobs
  <2>2. CASE Summarise \/ \E a \in Actor : LoadActor(a)
    BY <1>1, <1>3, <2>2 DEF Summarise, LoadActor, centralityVars
  <2>. QED  BY <1>3, <2>1, <2>2 DEF ExternalNext
<1>4. CASE CentralityNext
  <2>1. ASSUME NEW i, AddEdge(i) PROVE DegreesInv'
    BY <2>1, DegreesCount, TakeWalks DEF AddEdge
  <2>2. CASE Iterate
    <3>1. job \notin DegreeJobs /\ UNCHANGED trafficVars /\ job' = job
      BY <2>2 DEF Iterate, DegreeJobs, trafficVars
    <3>. QED  BY <3>1, CopyStays DEF Degrees
  <2>3. CASE ToResults
    <3>1. /\ UNCHANGED trafficVars /\ UNCHANGED <<outDegree, inDegree, rank>>
          /\ job \in DegreeJobs => left = {}
          /\ \E r : results' = <<[a \in DOMAIN Scores |-> [score |-> Scores[a], rank |-> r[a]]]>>
      BY <2>3 DEF ToResults, DegreeJobs
    <3>2. Copied' /\ Walked' = Walked /\ job' = job /\ traffic' = traffic /\ left' = left
      BY <3>1, CopyStays DEF trafficVars
    <3>3. WeightMet' = WeightMet /\ Scores' = Scores
      BY <3>1, <3>2 DEF WeightMet, Weights, Weight, Scores, TotalDegree
    <3>4. Reported'
      BY <3>1, <3>3 DEF Reported
    <3>. QED  BY <3>1, <3>2, <3>3, <3>4 DEF Degrees
  <2>. QED  BY <1>4, <2>1, <2>2, <2>3 DEF CentralityNext
<1>5. CASE TemporalNext /\ UNCHANGED centralityVars
  <2>1. ASSUME NEW i, ScanInteraction(i) PROVE DegreesInv'
    BY <1>2, <2>1 DEF ScanInteraction, DegreeJobs
  <2>2. CASE FindWindow \/ BuildTimeline \/ ScanPoint \/ EndBursts
    BY <1>1, <1>5, <2>2 DEF FindWindow, BuildTimeline, ScanPoint, EndBursts, centralityVars
  <2>. QED  BY <1>5, <2>1, <2>2 DEF TemporalNext
<1>6. CASE UNCHANGED vars
  BY <1>1, <1>6 DEF vars, centralityVars
<1>. QED  BY <1>3, <1>4, <1>5, <1>6 DEF Next

LEMMA TotalIsBoth ==
  ASSUME DegreeMap(outDegree), DegreeMap(inDegree)
  PROVE  /\ AddUp(TotalDegree, DOMAIN TotalDegree)
              = AddUp(outDegree, DOMAIN outDegree) + AddUp(inDegree, DOMAIN inDegree)
         /\ DegreeMap(TotalDegree) /\ DOMAIN TotalDegree = DOMAIN outDegree \cup DOMAIN inDegree
<1>. DEFINE S == DOMAIN outDegree
            T == DOMAIN inDegree
            u == [a \in S \cup T |-> Lookup(outDegree, a, 0)]
            v == [a \in S \cup T |-> Lookup(inDegree, a, 0)]
            h == TotalDegree
<1>1. IsFiniteSet(S) /\ IsFiniteSet(T) /\ (\A a \in S : outDegree[a] \in Nat)
      /\ (\A a \in T : inDegree[a] \in Nat)
  BY DEF DegreeMap
<1>2. (\A a \in S : u[a] = outDegree[a]) /\ (\A a \in T \ S : u[a] = 0)
      /\ (\A a \in T : v[a] = inDegree[a]) /\ (\A a \in S \ T : v[a] = 0)
  BY DEF Lookup
<1>3. DOMAIN h = S \cup T /\ \A a \in S \cup T : h[a] = u[a] + v[a]
  BY DEF TotalDegree
<1>. HIDE DEF S, T, u, v, h
<1>4. (\A a \in S : outDegree[a] \in Int) /\ (\A a \in T : inDegree[a] \in Int)
  BY <1>1
<1>5. IsFiniteSet(S \cup T) /\ AddUp(u, S \cup T) = AddUp(outDegree, S)
  BY <1>1, <1>2, <1>4, SumOfPadded
<1>6. AddUp(v, T \cup S) = AddUp(inDegree, T)
  BY <1>1, <1>2, <1>4, SumOfPadded
<1>7. AddUp(v, S \cup T) = AddUp(inDegree, T)
  <2>1. S \cup T = T \cup S
    OBVIOUS
  <2>. QED  BY <1>6, <2>1
<1>8. \A a \in S \cup T : u[a] \in Nat /\ v[a] \in Nat
  BY <1>1, <1>2
<1>9. \A a \in S \cup T : u[a] \in Int /\ v[a] \in Int /\ h[a] = u[a] + v[a]
  BY <1>3, <1>8
<1>10. AddUp(h, S \cup T) = AddUp(u, S \cup T) + AddUp(v, S \cup T)
  BY <1>5, <1>9, SumOfSums
<1>11. \A a \in S \cup T : h[a] \in Nat
  BY <1>3, <1>8
<1>. QED  BY <1>3, <1>5, <1>7, <1>10, <1>11 DEF h, S, T, DegreeMap

LEMMA DegreesImply == DegreesInv => DegreesAddUp
<1>. SUFFICES ASSUME DegreesInv, job \in DegreeJobs, results # <<>>
              PROVE  LET weight == SumOver(DOMAIN traffic, Weight)
                         listed == DOMAIN results[1]
                     IN  /\ SumOver(listed, LAMBDA a : results[1][a].score)
                              = IF job = "degree" THEN 2 * weight ELSE weight
                         /\ job = "degree" => listed = Participants
  BY DEF DegreesAddUp
<1>. DEFINE score == [a \in DOMAIN results[1] |-> results[1][a].score]
            weight == AddUp(Weights, DOMAIN traffic)
<1>1. /\ DegreeMap(outDegree) /\ DegreeMap(inDegree)
      /\ AddUp(outDegree, DOMAIN outDegree) = WeightMet
      /\ AddUp(inDegree, DOMAIN inDegree) = WeightMet
      /\ DOMAIN outDegree = {traffic[i].from : i \in Walked}
      /\ DOMAIN inDegree = {traffic[i].to : i \in Walked}
      /\ left = {} /\ Reported
  BY DEF DegreesInv, Degrees
<1>2. Walked = DOMAIN traffic
  BY <1>1 DEF Walked
<1>3. /\ SumOver(DOMAIN traffic, Weight) = weight
      /\ SumOver(DOMAIN results[1], LAMBDA a : results[1][a].score)
           = AddUp(score, DOMAIN results[1])
  BY DEF SumOver, SumOf, AddUp, Weights
<1>4. DOMAIN results[1] = DOMAIN Scores /\ \A a \in DOMAIN Scores : score[a] = Scores[a]
  BY <1>1 DEF Reported
<1>5. \A i \in DOMAIN traffic : Weights[i] \in Int
  BY CopyIsFinite DEF Weights, DegreesInv
<1>6. weight \in Int /\ WeightMet = weight
  BY <1>2, <1>5, CopyIsFinite, SumIsInteger DEF DegreesInv, WeightMet
<1>. HIDE DEF score, weight
<1>7. ASSUME DegreeMap(Scores) PROVE AddUp(score, DOMAIN results[1]) = AddUp(Scores, DOMAIN Scores)
  <2>1. \A a \in DOMAIN Scores : Scores[a] \in Int /\ score[a] = Scores[a]
    BY <1>4, <1>7 DEF DegreeMap
  <2>2. AddUp(score, DOMAIN Scores) = AddUp(Scores, DOMAIN Scores)
    BY <1>7, <2>1, SumOfSame DEF DegreeMap
  <2>. QED  BY <1>4, <2>2
<1>8. CASE job = "degree"
  <2>1. Scores = TotalDegree
    BY <1>8 DEF Scores
  <2>2. AddUp(Scores, DOMAIN Scores) = weight + weight /\ DegreeMap(Scores)
        /\ DOMAIN Scores = DOMAIN outDegree \cup DOMAIN inDegree
    BY <1>1, <1>6, <2>1, TotalIsBoth
  <2>3. AddUp(score, DOMAIN results[1]) = 2 * weight
    BY <1>6, <1>7, <2>2
  <2>4. DOMAIN results[1] = Participants
    BY <1>1, <1>2, <1>4, <2>2 DEF Participants
  <2>. QED  BY <1>3, <1>8, <2>3, <2>4
<1>9. CASE job \in {"indegree", "outdegree"}
  <2>1. Scores = inDegree \/ Scores = outDegree
    BY <1>9 DEF Scores
  <2>2. AddUp(score, DOMAIN results[1]) = weight
    BY <1>1, <1>6, <1>7, <2>1
  <2>. QED  BY <1>3, <1>9, <2>2
<1>. QED  BY <1>8, <1>9 DEF DegreeJobs

(***************************************************************************)
(* In every behaviour the degrees returned add up to the weight of the     *)
(* traffic, total degrees to twice that, whatever the order of the walk.   *)
(***************************************************************************)
THEOREM AllWeightIsCounted == Spec => []DegreesAddUp
<1>1. Init => DegreesInv
  BY DegreesInit, CopiedInit DEF Init, DegreesInv
<1>. QED  BY <1>1, DegreesStep, DegreesImply, PTL DEF Spec
-----------------------------------------------------------------------------
(***************************************************************************)
(* Products, which PageRank needs for a common denominator.                *)
(***************************************************************************)
Multiply(f, S) == FoldFunctionOnSet(LAMBDA x, y : x * y, 1, f, S)

Multiplies(prod, f, S) ==
  /\ prod \in [SUBSET S -> Nat]
  /\ prod[{}] = 1
  /\ \A T \in SUBSET S : \A x \in S \ T : prod[T \cup {x}] = prod[T] * f[x]

LEMMA ProductExists ==
  ASSUME NEW f, NEW S, IsFiniteSet(S), \A x \in S : f[x] \in Nat
  PROVE  \E prod : Multiplies(prod, f, S)
<1>. DEFINE P == {T \in SUBSET S : \E prod : Multiplies(prod, f, T)}
<1>1. {} \in P
  <2>. DEFINE z == [T \in SUBSET {} |-> 1]
  <2>1. z \in [SUBSET {} -> Nat] /\ z[{}] = 1
    OBVIOUS
  <2>2. Multiplies(z, f, {})
    <3>. HIDE DEF z
    <3>. QED  BY <2>1 DEF Multiplies
  <2>. HIDE DEF z
  <2>. QED  BY <2>2
<1>2. ASSUME NEW T \in SUBSET S, NEW x \in S \ T, T \in P PROVE T \cup {x} \in P
  <2>1. PICK prod : Multiplies(prod, f, T)
    BY <1>2
  <2>. DEFINE new == [R \in SUBSET (T \cup {x}) |->
                        IF x \in R THEN prod[R \ {x}] * f[x] ELSE prod[R]]
  <2>2. \A R \in SUBSET (T \cup {x}) : R \ {x} \in SUBSET T /\ prod[R \ {x}] \in Nat
    BY <2>1 DEF Multiplies
  <2>3. \A R \in SUBSET (T \cup {x}) : x \notin R => R \in SUBSET T
    OBVIOUS
  <2>4. f[x] \in Nat
    OBVIOUS
  <2>5. new \in [SUBSET (T \cup {x}) -> Nat]
    BY <2>1, <2>2, <2>3, <2>4 DEF Multiplies
  <2>6. new[{}] = 1
    BY <2>1 DEF Multiplies
  <2>7. ASSUME NEW R \in SUBSET (T \cup {x}), NEW y \in (T \cup {x}) \ R
        PROVE  new[R \cup {y}] = new[R] * f[y]
    <3>0. R \cup {y} \in SUBSET (T \cup {x})
      OBVIOUS
    <3>1. CASE y = x
      <4>1. (R \cup {y}) \ {x} = R /\ x \in R \cup {y} /\ x \notin R
        BY <2>7, <3>1
      <4>. QED  BY <3>0, <3>1, <4>1
    <3>2. CASE y # x /\ x \in R
      <4>1. (R \cup {y}) \ {x} = (R \ {x}) \cup {y} /\ x \in R \cup {y}
        BY <3>2
      <4>2. prod[(R \ {x}) \cup {y}] = prod[R \ {x}] * f[y]
        BY <2>1, <2>2, <2>7, <3>2 DEF Multiplies
      <4>3. new[R \cup {y}] = prod[(R \ {x}) \cup {y}] * f[x]
        BY <3>0, <4>1
      <4>4. new[R] = prod[R \ {x}] * f[x]
        BY <3>2
      <4>5. f[y] \in Nat /\ prod[R \ {x}] \in Nat
        BY <2>2, <2>7
      <4>. HIDE DEF new
      <4>. QED  BY <2>4, <4>2, <4>3, <4>4, <4>5
    <3>3. CASE y # x /\ x \notin R
      <4>1. x \notin R \cup {y} /\ R \in SUBSET T /\ y \in T \ R
        BY <2>7, <3>3
      <4>2. prod[R \cup {y}] = prod[R] * f[y]
        BY <2>1, <4>1 DEF Multiplies
      <4>. QED  BY <3>0, <3>3, <4>1, <4>2
    <3>. QED  BY <3>1, <3>2, <3>3
  <2>8. Multiplies(new, f, T \cup {x})
    <3>. HIDE DEF new
    <3>. QED  BY <2>5, <2>6, <2>7 DEF Multiplies
  <2>. HIDE DEF new
  <2>. QED  BY <2>8
<1>3. S \in P
  <2>. HIDE DEF P
  <2>. QED  BY <1>1, <1>2, FiniteInduction
<1>. QED  BY <1>3

LEMMA ProductIsTheProduct ==
  ASSUME NEW f, NEW S, IsFiniteSet(S), \A x \in S : f[x] \in Nat, NEW prod, Multiplies(prod, f, S)
  PROVE  Multiply(f, S) = prod[S]
<1>. DEFINE One(s) == CHOOSE x \in s : TRUE
            Step(g, s) == IF s = {} THEN 1 ELSE f[One(s)] * g[s \ {One(s)}]
            iter == CHOOSE g : g = [s \in SUBSET S |-> Step(g, s)]
<1>1. Multiply(f, S) = iter[S]
  BY DEF Multiply, FoldFunctionOnSet, MapThenFoldSet
<1>2. \A T \in SUBSET S : IsFiniteSet(T)
  BY FS_Subset
<1>3. \A s \in SUBSET S : s # {} => One(s) \in s
  OBVIOUS
<1>4. \A s \in SUBSET S : prod[s] = Step(prod, s)
  <2>1. SUFFICES ASSUME NEW s \in SUBSET S, s # {} PROVE prod[s] = f[One(s)] * prod[s \ {One(s)}]
    BY DEF Multiplies
  <2>2. ASSUME NEW x \in s PROVE prod[s] = f[x] * prod[s \ {x}]
    <3>. DEFINE t == s \ {x}
    <3>1. t \in SUBSET S /\ x \in S \ t /\ t \cup {x} = s /\ f[x] \in Nat
      OBVIOUS
    <3>. HIDE DEF t
    <3>2. prod[t \cup {x}] = prod[t] * f[x] /\ prod[t] \in Nat
      BY <3>1 DEF Multiplies
    <3>3. prod[t \cup {x}] = prod[s]
      BY <3>1, Zenon
    <3>4. prod[s] = f[x] * prod[t]
      BY <3>1, <3>2, <3>3
    <3>. QED  BY <3>4 DEF t
  <2>. HIDE DEF One
  <2>. QED  BY <1>3, <2>1, <2>2
<1>5. iter = [s \in SUBSET S |-> Step(iter, s)]
  <2>1. prod = [s \in SUBSET S |-> Step(prod, s)]
    <3>1. prod \in [SUBSET S -> Nat]
      BY DEF Multiplies
    <3>. HIDE DEF Step
    <3>. QED  BY <1>4, <3>1
  <2>. HIDE DEF Step
  <2>. QED  BY <2>1
<1>. HIDE DEF iter
<1>6. \A s \in SUBSET S : iter[s] = Step(iter, s)
  <2>. HIDE DEF Step
  <2>. QED  BY <1>5
<1>. DEFINE U == {n \in Nat : \A s \in SUBSET S : Cardinality(s) = n => iter[s] = prod[s]}
<1>7. 0 \in U
  <2>1. iter[{}] = 1 /\ prod[{}] = 1
    BY <1>6 DEF Multiplies
  <2>2. \A s \in SUBSET S : Cardinality(s) = 0 => s = {}
    BY <1>2, FS_EmptySet
  <2>. QED  BY <2>1, <2>2
<1>8. ASSUME NEW n \in Nat, n \in U PROVE n + 1 \in U
  <2>1. SUFFICES ASSUME NEW s \in SUBSET S, Cardinality(s) = n + 1 PROVE iter[s] = prod[s]
    OBVIOUS
  <2>2. s # {}
    <3>1. Cardinality(s) # 0
      BY <2>1
    <3>. QED  BY <3>1, FS_EmptySet
  <2>. DEFINE t == s \ {One(s)}
  <2>3. One(s) \in s
    BY <1>3, <2>2
  <2>4. Cardinality(t) = Cardinality(s) - 1
    <3>. HIDE DEF One
    <3>. QED  BY <1>2, <2>3, FS_RemoveElement
  <2>5. Cardinality(t) = n
    <3>. HIDE DEF t
    <3>. QED  BY <2>1, <2>4
  <2>6. iter[t] = prod[t]
    <3>1. t \in SUBSET S
      OBVIOUS
    <3>. HIDE DEF t
    <3>. QED  BY <1>8, <2>5, <3>1
  <2>7. Step(iter, s) = Step(prod, s)
    BY <2>6
  <2>. HIDE DEF Step
  <2>. QED  BY <1>4, <1>6, <2>7
<1>9. Cardinality(S) \in U
  <2>. HIDE DEF U
  <2>1. Nat \subseteq U
    BY <1>7, <1>8, NatSetInduction
  <2>. QED  BY <2>1, FS_CardinalityType
<1>. QED  BY <1>1, <1>9

LEMMA FactorDivides ==
  ASSUME NEW f, NEW S, IsFiniteSet(S), \A x \in S : f[x] \in Nat
  PROVE  /\ Multiply(f, S) \in Nat
         /\ \A x \in S : \E q \in Nat : Multiply(f, S) = q * f[x]
<1>1. PICK prod : Multiplies(prod, f, S)
  BY ProductExists
<1>2. Multiply(f, S) = prod[S]
  BY <1>1, ProductIsTheProduct
<1>3. ASSUME NEW x \in S PROVE \E q \in Nat : prod[S] = q * f[x]
  <2>. DEFINE T == S \ {x}
  <2>1. T \in SUBSET S /\ x \in S \ T /\ T \cup {x} = S
    OBVIOUS
  <2>. HIDE DEF T
  <2>2. prod[T \cup {x}] = prod[T] * f[x] /\ prod[T] \in Nat
    BY <1>1, <2>1 DEF Multiplies
  <2>. QED  BY <2>1, <2>2
<1>4. prod[S] \in Nat
  BY <1>1 DEF Multiplies
<1>. QED  BY <1>2, <1>3, <1>4
-----------------------------------------------------------------------------
(***************************************************************************)
(* PageRank.  What the senders pass on is summed twice, by receiver and by *)
(* sender: the receivers get it as new ranks, and each sender has given    *)
(* away its damped rank and no more, since its shares add up to the whole. *)
(***************************************************************************)
Loud == Participants \ Dangling
OutWeights == [a \in Participants |-> OutWeight(a)]

LEMMA SumOfOnes ==
  ASSUME NEW S, IsFiniteSet(S), NEW f, \A x \in S : f[x] = 1
  PROVE  AddUp(f, S) = Cardinality(S) /\ Cardinality(S) \in Nat
<1>. DEFINE c == [x \in S |-> {x}]
<1>1. /\ \A x \in S : IsFiniteSet(c[x])
      /\ KeptApart(c, S)
      /\ \A x \in S : f[x] = Cardinality(c[x])
  BY FS_Singleton DEF KeptApart
<1>2. UNION {c[x] : x \in S} = S
  OBVIOUS
<1>. HIDE DEF c
<1>3. AddUp(f, S) = Cardinality(UNION {c[x] : x \in S})
  BY <1>1, SumOfSizes
<1>. QED  BY <1>2, <1>3, FS_CardinalityType

LEMMA SendersAreFinite ==
  ASSUME Copied
  PROVE  /\ IsFiniteSet(Participants) /\ IsFiniteSet(Loud) /\ IsFiniteSet(Dangling)
         /\ \A a : IsFiniteSet(Edges(a))
         /\ \A a : OutWeight(a) \in Nat /\ OutWeight(a) = AddUp(Weights, Edges(a))
<1>1. IsFiniteSet(DOMAIN traffic) /\ \A i \in DOMAIN traffic : Weight(i) \in Nat
  BY CopyIsFinite
<1>2. IsFiniteSet(Participants)
  <2>1. Participants \subseteq Actor
    BY CopyIsFinite DEF Participants
  <2>. QED  BY <2>1, TrafficAssumption, FS_Subset
<1>3. IsFiniteSet(Loud) /\ IsFiniteSet(Dangling)
  BY <1>2, FS_Subset DEF Loud, Dangling
<1>4. \A a : IsFiniteSet(Edges(a)) /\ Edges(a) \subseteq DOMAIN traffic
  BY <1>1, FS_Subset DEF Edges
<1>5. ASSUME NEW a PROVE OutWeight(a) \in Nat /\ OutWeight(a) = AddUp(Weights, Edges(a))
  <2>. DEFINE S == Edges(a)
              f == [i \in S |-> Weight(i)]
  <2>1. OutWeight(a) = AddUp(f, S)
    BY SumsAreAddUp DEF OutWeight, SumOver
  <2>2. IsFiniteSet(S) /\ (\A i \in S : f[i] \in Nat)
        /\ \A i \in S : f[i] \in Int /\ Weights[i] = f[i]
    BY <1>1, <1>4 DEF Weights
  <2>. HIDE DEF S, f
  <2>3. AddUp(Weights, S) = AddUp(f, S)
    BY <2>2, SumOfSame
  <2>4. AddUp(f, S) \in Nat
    BY <2>2, SumIsNatural
  <2>. QED  BY <2>1, <2>3, <2>4 DEF S
<1>. QED  BY <1>2, <1>3, <1>4, <1>5

LEMMA SharesAreWhole ==
  ASSUME Copied
  PROVE  /\ WeightProduct \in Nat
         /\ \A a \in Loud : /\ WeightProduct \div OutWeight(a) \in Nat
                            /\ (WeightProduct \div OutWeight(a)) * OutWeight(a) = WeightProduct
<1>1. IsFiniteSet(Loud) /\ \A a \in Loud : OutWeights[a] \in Nat
  BY SendersAreFinite DEF Loud, OutWeights
<1>2. WeightProduct = Multiply(OutWeights, Loud)
  BY DEF WeightProduct, Multiply, OutWeights, Loud
<1>3. WeightProduct \in Nat /\ \A a \in Loud : \E q \in Nat : WeightProduct = q * OutWeights[a]
  BY <1>1, <1>2, FactorDivides
<1>4. ASSUME NEW a \in Loud
      PROVE  /\ WeightProduct \div OutWeight(a) \in Nat
             /\ (WeightProduct \div OutWeight(a)) * OutWeight(a) = WeightProduct
  <2>. DEFINE p == WeightProduct
              o == OutWeight(a)
  <2>1. o \in Nat /\ o # 0 /\ o = OutWeights[a]
    BY SendersAreFinite DEF Loud, Dangling, OutWeights
  <2>2. PICK q \in Nat : p = q * o
    BY <1>3, <2>1
  <2>. HIDE DEF p, o
  <2>3. p \div o = q
    BY <2>1, <2>2
  <2>4. p \div o \in Nat /\ (p \div o) * o = p
    BY <2>2, <2>3
  <2>. QED  BY <2>4 DEF p, o
<1>. QED  BY <1>3, <1>4

RankMass ==
  job = "pagerank" =>
    /\ DOMAIN rank = Participants /\ scale \in Nat
    /\ \A a \in Participants : rank[a] \in Nat
    /\ AddUp(rank, Participants) = scale

LEMMA RankMassInit == ASSUME TrafficInit, CentralityInit PROVE RankMass
<1>1. SUFFICES ASSUME job = "pagerank" PROVE RankMass
  BY DEF RankMass
<1>2. IsFiniteSet(Participants)
  BY CopiedInit, SendersAreFinite
<1>3. DOMAIN rank = Participants /\ (\A a \in Participants : rank[a] = 1)
      /\ scale = Cardinality(Participants)
  BY <1>1 DEF CentralityInit
<1>4. AddUp(rank, Participants) = Cardinality(Participants) /\ Cardinality(Participants) \in Nat
  BY <1>2, <1>3, SumOfOnes
<1>. QED  BY <1>3, <1>4 DEF RankMass

LEMMA RoundKeepsMass ==
  ASSUME Copied, DOMAIN rank = Participants, scale \in Nat,
         \A a \in Participants : rank[a] \in Nat, AddUp(rank, Participants) = scale,
         NEW new, new = [a \in Participants |-> NewRank(a)]
  PROVE  /\ \A a \in Participants : new[a] \in Nat
         /\ scale * Cardinality(Participants) * DampBase * WeightProduct \in Nat
         /\ AddUp(new, Participants)
              = scale * Cardinality(Participants) * DampBase * WeightProduct
<1>. DEFINE P == Participants
            n == Cardinality(P)
            W == WeightProduct
            share(b) == W \div OutWeight(b)
            even == (DampBase - Damp) * scale + Damp * DanglingSum
            E == {i \in DOMAIN traffic : traffic[i].from \notin Dangling}
            carried == [i \in E |-> Damp * rank[traffic[i].from] * Weight(i)
                                      * share(traffic[i].from) * n]
            to == [i \in E |-> traffic[i].to]
            from == [i \in E |-> traffic[i].from]
            got == [a \in P |-> AddUp(carried, {i \in E : to[i] = a})]
            sent == [b \in Loud |-> AddUp(carried, {i \in E : from[i] = b})]
            evens == [a \in P |-> even * W]
            ones == [a \in P |-> 1]
<1>1. /\ IsFiniteSet(P) /\ IsFiniteSet(Loud) /\ IsFiniteSet(Dangling)
      /\ \A a : IsFiniteSet(Edges(a)) /\ OutWeight(a) \in Nat
      /\ \A a : OutWeight(a) = AddUp(Weights, Edges(a))
  BY SendersAreFinite
<1>2. n \in Nat
  BY <1>1, FS_CardinalityType
<1>3. W \in Nat /\ \A b \in Loud : share(b) \in Nat /\ share(b) * OutWeight(b) = W
  BY SharesAreWhole
<1>4. Damp \in Nat /\ DampBase \in Nat /\ DampBase - Damp \in Nat
  BY CentralityAssumption
<1>5. P = Loud \cup Dangling /\ Loud \cap Dangling = {} /\ Dangling \subseteq P /\ Loud \subseteq P
  BY DEF Loud, Dangling
<1>6. IsFiniteSet(E) /\ \A i \in DOMAIN traffic : Weight(i) \in Nat
  BY CopyIsFinite, FS_Subset
<1>7. \A i \in E : i \in DOMAIN traffic /\ from[i] \in Loud /\ to[i] \in P
                   /\ from[i] = traffic[i].from /\ to[i] = traffic[i].to
  BY DEF Participants, Loud
<1>8. DanglingSum = AddUp(rank, Dangling) /\ DanglingSum \in Nat
  <2>1. DanglingSum = AddUp(rank, Dangling)
    BY SumsAreAddUp DEF DanglingSum
  <2>2. \A a \in Dangling : rank[a] \in Nat
    BY <1>5
  <2>. QED  BY <1>1, <2>1, <2>2, SumIsNatural
<1>9. even \in Nat
  <2>1. (DampBase - Damp) * scale \in Nat /\ Damp * DanglingSum \in Nat
    BY <1>4, <1>8
  <2>. QED  BY <2>1
<1>10. \A i \in E : carried[i] \in Nat
  <2>. TAKE i \in E
  <2>1. rank[from[i]] \in Nat /\ Weight(i) \in Nat /\ share(from[i]) \in Nat
        /\ carried[i] = Damp * rank[from[i]] * Weight(i) * share(from[i]) * n
    BY <1>3, <1>5, <1>6, <1>7
  <2>. HIDE DEF carried, from, share, n
  <2>2. Damp * rank[from[i]] \in Nat
    BY <1>4, <2>1
  <2>3. Damp * rank[from[i]] * Weight(i) \in Nat
    BY <2>1, <2>2
  <2>4. Damp * rank[from[i]] * Weight(i) * share(from[i]) \in Nat
    BY <2>1, <2>3
  <2>. QED  BY <1>2, <2>1, <2>4
<1>11. \A a \in P : new[a] = even * W + got[a] /\ got[a] \in Nat
  <2>. TAKE a \in P
  <2>. DEFINE S == {i \in DOMAIN traffic : traffic[i].to = a /\ traffic[i].from \notin Dangling}
              T == {i \in E : to[i] = a}
              f == [i \in S |-> Damp * rank[traffic[i].from] * Weight(i)
                                  * (W \div OutWeight(traffic[i].from)) * n]
  <2>1. new[a] = even * W + AddUp(f, S)
    BY SumsAreAddUp DEF NewRank, SumOver
  <2>2. S = T /\ T \subseteq E
    OBVIOUS
  <2>3. \A i \in T : f[i] = carried[i]
    OBVIOUS
  <2>4. got[a] = AddUp(carried, T)
    OBVIOUS
  <2>5. IsFiniteSet(T)
    BY <1>6, <2>2, FS_Subset
  <2>. HIDE DEF S, T, E, f, carried, got, even, W
  <2>6. (\A i \in T : carried[i] \in Nat) /\ \A i \in T : carried[i] \in Int /\ f[i] = carried[i]
    BY <1>10, <2>2, <2>3
  <2>7. AddUp(f, T) = AddUp(carried, T)
    BY <2>5, <2>6, SumOfSame
  <2>8. AddUp(carried, T) \in Nat
    BY <2>5, <2>6, SumIsNatural
  <2>9. AddUp(f, S) = AddUp(f, T)
    BY <2>2
  <2>. QED  BY <2>1, <2>4, <2>7, <2>8, <2>9
<1>12. AddUp(got, P) = AddUp(carried, E)
  <2>1. Groups(carried, E, to, got, P)
    BY <1>7 DEF Groups
  <2>2. \A i \in E : carried[i] \in Int
    BY <1>10
  <2>. HIDE DEF carried, E, to, got, P
  <2>. QED  BY <1>1, <1>6, <2>1, <2>2, SumByKey
<1>13. AddUp(sent, Loud) = AddUp(carried, E)
  <2>1. Groups(carried, E, from, sent, Loud)
    BY <1>7 DEF Groups
  <2>2. \A i \in E : carried[i] \in Int
    BY <1>10
  <2>. HIDE DEF carried, E, from, sent
  <2>. QED  BY <1>1, <1>6, <2>1, <2>2, SumByKey
<1>14. \A b \in Loud : sent[b] = rank[b] * (Damp * n * W) /\ rank[b] \in Nat
  <2>. TAKE b \in Loud
  <2>. DEFINE T == {i \in E : from[i] = b}
              k == Damp * rank[b] * share(b) * n
  <2>1. T = Edges(b)
    BY DEF Edges, Loud
  <2>2. rank[b] \in Nat /\ share(b) \in Nat /\ share(b) * OutWeight(b) = W
    BY <1>3, <1>5
  <2>3. \A i \in T : Weights[i] \in Int /\ carried[i] = Damp * rank[b] * Weights[i] * share(b) * n
    BY <1>6 DEF Weights
  <2>4. sent[b] = AddUp(carried, T)
    OBVIOUS
  <2>. HIDE DEF T, carried, sent, share, n, W
  <2>5. k \in Nat
    <3>1. Damp * rank[b] \in Nat
      BY <1>4, <2>2
    <3>2. Damp * rank[b] * share(b) \in Nat
      BY <2>2, <3>1
    <3>. QED  BY <1>2, <3>2
  <2>6. \A i \in T : carried[i] = Weights[i] * k
    BY <1>2, <1>4, <2>2, <2>3
  <2>. HIDE DEF k
  <2>7. IsFiniteSet(T) /\ (\A i \in T : Weights[i] \in Int) /\ k \in Int
    BY <1>1, <2>1, <2>3, <2>5
  <2>8. AddUp(carried, T) = AddUp(Weights, T) * k
    BY <2>6, <2>7, SumOfMultiples
  <2>9. AddUp(Weights, T) = OutWeight(b) /\ OutWeight(b) \in Nat
    BY <1>1, <2>1
  <2>10. OutWeight(b) * k = rank[b] * (Damp * n * W)
    <3>1. OutWeight(b) * k = rank[b] * (Damp * n * (share(b) * OutWeight(b)))
      BY <1>2, <1>4, <2>2, <2>9 DEF k
    <3>. QED  BY <2>2, <3>1
  <2>. QED  BY <2>2, <2>4, <2>8, <2>9, <2>10
<1>15. AddUp(sent, Loud) = AddUp(rank, Loud) * (Damp * n * W)
  <2>. DEFINE k == Damp * n * W
  <2>1. k \in Int
    BY <1>2, <1>3, <1>4
  <2>. HIDE DEF sent
  <2>2. (\A b \in Loud : rank[b] \in Int) /\ \A b \in Loud : sent[b] = rank[b] * k
    <3>1. \A b \in Loud : sent[b] = rank[b] * k /\ rank[b] \in Nat
      BY <1>14
    <3>. HIDE DEF k
    <3>. QED  BY <3>1
  <2>. HIDE DEF k
  <2>3. AddUp(sent, Loud) = AddUp(rank, Loud) * k
    BY <1>1, <2>1, <2>2, SumOfMultiples
  <2>. QED  BY <2>3 DEF k
<1>16. AddUp(rank, Loud) \in Int /\ scale = AddUp(rank, Loud) + DanglingSum
  <2>1. \A b \in Loud \cup Dangling : rank[b] \in Int
    BY <1>5
  <2>2. AddUp(rank, Loud) \in Int
        /\ AddUp(rank, Loud \cup Dangling) = AddUp(rank, Loud) + AddUp(rank, Dangling)
    BY <1>1, <1>5, <2>1, SumOfUnion
  <2>3. AddUp(rank, Loud \cup Dangling) = scale
    BY <1>5
  <2>. QED  BY <1>8, <2>2, <2>3
<1>17. AddUp(evens, P) = n * (even * W)
  <2>. DEFINE k == even * W
  <2>1. k \in Int
    BY <1>3, <1>9
  <2>2. AddUp(ones, P) = n
    BY <1>1, SumOfOnes
  <2>3. (\A a \in P : ones[a] \in Int) /\ \A a \in P : evens[a] = ones[a] * k
    BY <2>1
  <2>. HIDE DEF k, ones, evens, P, n
  <2>4. AddUp(evens, P) = AddUp(ones, P) * k
    BY <1>1, <2>1, <2>3, SumOfMultiples
  <2>. QED  BY <2>2, <2>4 DEF k
<1>18. AddUp(new, P) = AddUp(evens, P) + AddUp(got, P)
  <2>1. \A a \in P : evens[a] = even * W
    OBVIOUS
  <2>2. even * W \in Int
    BY <1>3, <1>9
  <2>3. IsFiniteSet(P)
    BY <1>1
  <2>. HIDE DEF evens, got, P, even, W
  <2>4. \A a \in P : evens[a] \in Int /\ got[a] \in Int /\ new[a] = evens[a] + got[a]
    BY <1>11, <2>1, <2>2
  <2>. QED  BY <2>3, <2>4, SumOfSums
<1>. DEFINE x == AddUp(rank, Loud)
<1>19. AddUp(new, P) = n * (even * W) + x * (Damp * n * W)
  <2>. HIDE DEF evens, got, sent, carried, P, n, even, W, E, x
  <2>. QED  BY <1>12, <1>13, <1>15, <1>17, <1>18 DEF x
<1>20. AddUp(new, P) = scale * n * DampBase * W
  <2>1. even = DampBase * scale - Damp * x
    BY <1>4, <1>8, <1>16
  <2>. HIDE DEF P, n, W, even, x
  <2>2. x \in Int
    BY <1>16 DEF x
  <2>. QED  BY <1>2, <1>3, <1>4, <1>19, <2>1, <2>2
<1>21. scale * n * DampBase * W \in Nat
  <2>1. scale * n \in Nat
    BY <1>2
  <2>2. scale * n * DampBase \in Nat
    BY <1>4, <2>1
  <2>. QED  BY <1>3, <2>2
<1>22. \A a \in P : new[a] \in Nat
  <2>1. even * W \in Nat
    BY <1>3, <1>9
  <2>. HIDE DEF even, W, got, P
  <2>. QED  BY <1>11, <2>1
<1>. QED  BY <1>20, <1>21, <1>22

RankInv == Copied /\ RankMass

LEMMA RankStep == RankInv /\ [Next]_vars => RankInv'
<1>. SUFFICES ASSUME RankInv, [Next]_vars PROVE RankInv'
  OBVIOUS
<1>. USE DEF RankInv
<1>1. ASSUME UNCHANGED trafficVars, UNCHANGED <<rank, scale>> PROVE RankInv'
  BY <1>1, CopyStays DEF trafficVars, RankMass, Participants
<1>2. ASSUME NEW i, Take(i), job # "pagerank" PROVE RankInv'
  BY <1>2, TakeWalks DEF RankMass
<1>3. CASE ExternalNext /\ UNCHANGED centralityVars
  <2>1. ASSUME NEW i, CountInteraction(i) \/ CountNewcomer(i) PROVE RankInv'
    BY <1>2, <2>1 DEF CountInteraction, CountNewcomer
  <2>2. CASE Summarise \/ \E a \in Actor : LoadActor(a)
    BY <1>1, <1>3, <2>2 DEF Summarise, LoadActor, centralityVars
  <2>. QED  BY <1>3, <2>1, <2>2 DEF ExternalNext
<1>4. CASE CentralityNext
  <2>1. ASSUME NEW i, AddEdge(i) PROVE RankInv'
    BY <1>2, <2>1 DEF AddEdge, DegreeJobs
  <2>2. CASE Iterate
    <3>1. /\ job = "pagerank" /\ rank' = [a \in Participants |-> NewRank(a)]
          /\ scale' = scale * Cardinality(Participants) * DampBase * WeightProduct
          /\ UNCHANGED trafficVars
      BY <2>2 DEF Iterate
    <3>2. DOMAIN rank = Participants /\ scale \in Nat /\ AddUp(rank, Participants) = scale
          /\ \A a \in Participants : rank[a] \in Nat
      BY <3>1 DEF RankMass
    <3>. DEFINE new == [a \in Participants |-> NewRank(a)]
    <3>3. /\ \A a \in Participants : new[a] \in Nat
          /\ scale * Cardinality(Participants) * DampBase * WeightProduct \in Nat
          /\ AddUp(new, Participants)
               = scale * Cardinality(Participants) * DampBase * WeightProduct
      <4>1. new = [a \in Participants |-> NewRank(a)]
        OBVIOUS
      <4>. HIDE DEF new
      <4>. QED  BY <3>2, <4>1, RoundKeepsMass
    <3>4. Participants' = Participants
      BY <3>1 DEF trafficVars, Participants
    <3>5. DOMAIN new = Participants /\ rank' = new
      BY <3>1
    <3>. HIDE DEF new
    <3>6. RankMass'
      BY <3>1, <3>3, <3>4, <3>5 DEF RankMass
    <3>. QED  BY <3>1, <3>6, CopyStays
  <2>3. CASE ToResults
    BY <1>1, <2>3 DEF ToResults
  <2>. QED  BY <1>4, <2>1, <2>2, <2>3 DEF CentralityNext
<1>5. CASE TemporalNext /\ UNCHANGED centralityVars
  <2>1. ASSUME NEW i, ScanInteraction(i) PROVE RankInv'
    BY <1>2, <2>1 DEF ScanInteraction
  <2>2. CASE FindWindow \/ BuildTimeline \/ ScanPoint \/ EndBursts
    BY <1>1, <1>5, <2>2 DEF FindWindow, BuildTimeline, ScanPoint, EndBursts, centralityVars
  <2>. QED  BY <1>5, <2>1, <2>2 DEF TemporalNext
<1>6. CASE UNCHANGED vars
  BY <1>1, <1>6 DEF vars, centralityVars
<1>. QED  BY <1>3, <1>4, <1>5, <1>6 DEF Next

LEMMA RankMassImplies == RankInv => RankMassIsKept
  BY SumsAreAddUp DEF RankInv, RankMass, RankMassIsKept

(***************************************************************************)
(* For any traffic, weights, damping and number of rounds the ranks stay a *)
(* distribution: what actors without outgoing weight hold is spread evenly *)
(* and nothing is lost or made (analysis/centrality.go:187-203).           *)
(***************************************************************************)
THEOREM MassIsConserved == Spec => []RankMassIsKept
<1>1. Init => RankInv
  BY RankMassInit, CopiedInit DEF Init, RankInv
<1>. QED  BY <1>1, RankStep, RankMassImplies, PTL DEF Spec
-----------------------------------------------------------------------------
(***************************************************************************)
(* The results of the external report.  While nobody loads, who is         *)
(* internal and where an actor belongs are fixed, and each map is a        *)
(* function of the set of interactions walked over.                        *)
(***************************************************************************)
InWalked(a) == In(a) \cap Walked
OutWalked(a) == Out(a) \cap Walked

Meets(i, a, b) ==
  /\ ~ Internal(a) /\ Internal(b)
  /\ \/ traffic[i].from = a /\ traffic[i].to = b
     \/ traffic[i].from = b /\ traffic[i].to = a

Contacted == {a \in Actor : ~ Internal(a) /\ InWalked(a) \cup OutWalked(a) # {}}
Met == {p \in Actor \X Actor : \E i \in Walked : Meets(i, p[1], p[2])}
SeenInside == {a \in Actor : Internal(a) /\ \E i \in Walked : a \in {traffic[i].from, traffic[i].to}}

Tallied(a) ==
  [domain |-> extractDomain(a), inbound |-> Cardinality(InWalked(a)),
   outbound |-> Cardinality(OutWalked(a)),
   total |-> Cardinality(InWalked(a)) + Cardinality(OutWalked(a))]

ContactTotals == [a \in DOMAIN contacts |-> contacts[a].total]
Located(d) == {a \in Contacted : extractDomain(a) = d}

DomainTotals ==
  \A d \in DOMAIN domainStats :
    Tally(domainStats[d]) /\ domainStats[d].total = AddUp(ContactTotals, Located(d))

ExactContacts ==
  /\ DOMAIN contacts = Contacted /\ \A a \in Contacted : contacts[a] = Tallied(a)
  /\ partners = Met

ExactDomains ==
  /\ DOMAIN domainStats = {extractDomain(a) : a \in Contacted}
  /\ domainPartners = {<<extractDomain(p[1]), p[2]>> : p \in Met}
  /\ DOMAIN domainsOf = {<<p[2], extractDomain(p[1])>> : p \in Met}
  /\ DomainTotals

ExactReport ==
  /\ ExactContacts /\ ExactDomains
  /\ DOMAIN metrics = SeenInside
  /\ summary # <<>> => left = {} /\ summary = <<Results>>

Exact ==
  /\ summary # <<>> => job = "external"
  /\ job = "external" => loads \in Nat /\ (loads = 0 => ExactReport)

LEMMA CrossingsAre ==
  ASSUME Copied
  PROVE  /\ \A a : In(a) = {i \in DOMAIN traffic : traffic[i].from = a /\ Internal(traffic[i].to)}
         /\ \A a : Out(a) = {i \in DOMAIN traffic : traffic[i].to = a /\ Internal(traffic[i].from)}
<1>1. \A i \in DOMAIN traffic : traffic[i].from \in Actor /\ traffic[i].to \in Actor
  BY CopyIsFinite
<1>2. ASSUME NEW a
      PROVE  In(a) = {i \in DOMAIN traffic : traffic[i].from = a /\ Internal(traffic[i].to)}
  BY <1>1 DEF In, Crossing
<1>3. ASSUME NEW a
      PROVE  Out(a) = {i \in DOMAIN traffic : traffic[i].to = a /\ Internal(traffic[i].from)}
  BY <1>1 DEF Out, Crossing
<1>. QED  BY <1>2, <1>3

LEMMA TalliesAreFinite ==
  ASSUME Copied
  PROVE  \A a : /\ IsFiniteSet(InWalked(a)) /\ IsFiniteSet(OutWalked(a))
                /\ Cardinality(InWalked(a)) \in Nat /\ Cardinality(OutWalked(a)) \in Nat
<1>1. IsFiniteSet(Walked)
  BY CopyIsFinite
<1>2. \A a : InWalked(a) \subseteq Walked /\ OutWalked(a) \subseteq Walked
  BY DEF InWalked, OutWalked
<1>3. \A a : IsFiniteSet(InWalked(a)) /\ IsFiniteSet(OutWalked(a))
  BY <1>1, <1>2, FS_Subset
<1>. QED  BY <1>3, FS_CardinalityType

\* One more interaction, the directory as before.
LEMMA OneMoreCrossing ==
  ASSUME Copied, NEW i, Take(i), directory' = directory
  PROVE  /\ \A a : (Internal(a)' <=> Internal(a)) /\ extractDomain(a)' = extractDomain(a)
         /\ \A a : InWalked(a)' = IF traffic[i].from = a /\ Internal(traffic[i].to)
                                  THEN InWalked(a) \cup {i} ELSE InWalked(a)
         /\ \A a : OutWalked(a)' = IF traffic[i].to = a /\ Internal(traffic[i].from)
                                   THEN OutWalked(a) \cup {i} ELSE OutWalked(a)
         /\ Met' = Met \cup {p \in Actor \X Actor : Meets(i, p[1], p[2])}
         /\ SeenInside' = SeenInside \cup {a \in {traffic[i].from, traffic[i].to} : Internal(a)}
<1>1. /\ Copied' /\ i \in DOMAIN traffic /\ i \notin Walked /\ Walked' = Walked \cup {i}
      /\ traffic' = traffic
  BY TakeWalks
<1>2. \A a : (Internal(a)' <=> Internal(a)) /\ extractDomain(a)' = extractDomain(a)
  BY DEF Internal, extractDomain
<1>3. \A a : In(a)' = In(a) /\ Out(a)' = Out(a)
  BY <1>1, <1>2 DEF In, Out, Crossing
<1>4. ASSUME NEW a
      PROVE  InWalked(a)' = IF traffic[i].from = a /\ Internal(traffic[i].to)
                            THEN InWalked(a) \cup {i} ELSE InWalked(a)
  <2>1. i \in In(a) <=> traffic[i].from = a /\ Internal(traffic[i].to)
    BY <1>1, CrossingsAre
  <2>2. InWalked(a)' = In(a) \cap (Walked \cup {i})
    BY <1>1, <1>3 DEF InWalked
  <2>. QED  BY <2>1, <2>2 DEF InWalked
<1>5. ASSUME NEW a
      PROVE  OutWalked(a)' = IF traffic[i].to = a /\ Internal(traffic[i].from)
                             THEN OutWalked(a) \cup {i} ELSE OutWalked(a)
  <2>1. i \in Out(a) <=> traffic[i].to = a /\ Internal(traffic[i].from)
    BY <1>1, CrossingsAre
  <2>2. OutWalked(a)' = Out(a) \cap (Walked \cup {i})
    BY <1>1, <1>3 DEF OutWalked
  <2>. QED  BY <2>1, <2>2 DEF OutWalked
<1>6. \A j, a, b : Meets(j, a, b)' <=> Meets(j, a, b)
  BY <1>1, <1>2 DEF Meets
<1>7. Met' = Met \cup {p \in Actor \X Actor : Meets(i, p[1], p[2])}
  BY <1>1, <1>6 DEF Met
<1>8. SeenInside' = SeenInside \cup {a \in {traffic[i].from, traffic[i].to} : Internal(a)}
  <2>1. traffic[i].from \in Actor /\ traffic[i].to \in Actor
    BY <1>1, CopyIsFinite
  <2>. QED  BY <1>1, <1>2, <2>1 DEF SeenInside
<1>. QED  BY <1>2, <1>4, <1>5, <1>7, <1>8

\* A tally depends on the interactions walked over and on nothing else.
LEMMA SameTally ==
  ASSUME NEW a, InWalked(a)' = InWalked(a), OutWalked(a)' = OutWalked(a),
         extractDomain(a)' = extractDomain(a)
  PROVE  Tallied(a)' = Tallied(a)
  BY DEF Tallied

LEMMA ExactUncrossed ==
  ASSUME Copied, ExactContacts, ExactDomains, NEW i, Take(i), directory' = directory,
         Internal(traffic[i].from) <=> Internal(traffic[i].to), Untracked
  PROVE  ExactContacts' /\ ExactDomains'
<1>1. /\ \A a : (Internal(a)' <=> Internal(a)) /\ extractDomain(a)' = extractDomain(a)
      /\ \A a : InWalked(a)' = IF traffic[i].from = a /\ Internal(traffic[i].to)
                               THEN InWalked(a) \cup {i} ELSE InWalked(a)
      /\ \A a : OutWalked(a)' = IF traffic[i].to = a /\ Internal(traffic[i].from)
                                THEN OutWalked(a) \cup {i} ELSE OutWalked(a)
      /\ Met' = Met \cup {p \in Actor \X Actor : Meets(i, p[1], p[2])}
  BY OneMoreCrossing
<1>2. \A a : ~ Internal(a) => InWalked(a)' = InWalked(a) /\ OutWalked(a)' = OutWalked(a)
  BY <1>1
<1>3. Contacted' = Contacted
  BY <1>1, <1>2 DEF Contacted
<1>4. Met' = Met
  BY <1>1 DEF Meets
<1>5. \A a \in Contacted : Tallied(a)' = Tallied(a)
  <2>. TAKE a \in Contacted
  <2>1. InWalked(a)' = InWalked(a) /\ OutWalked(a)' = OutWalked(a)
    BY <1>2 DEF Contacted
  <2>. QED  BY <1>1, <2>1 DEF Tallied
<1>6. UNCHANGED <<domainsOf, contacts, partners, domainStats, domainPartners>>
  BY DEF Untracked
<1>7. ExactContacts'
  BY <1>3, <1>4, <1>5, <1>6 DEF ExactContacts
<1>8. \A d : Located(d)' = Located(d)
  BY <1>1, <1>3 DEF Located
<1>9. ContactTotals' = ContactTotals
  BY <1>6 DEF ContactTotals
<1>10. DomainTotals'
  BY <1>6, <1>8, <1>9 DEF DomainTotals, ExactDomains
<1>11. {extractDomain(a)' : a \in Contacted'} = {extractDomain(a) : a \in Contacted}
       /\ {<<extractDomain(p[1])', p[2]>> : p \in Met'} = {<<extractDomain(p[1]), p[2]>> : p \in Met}
       /\ {<<p[2], extractDomain(p[1])'>> : p \in Met'} = {<<p[2], extractDomain(p[1])>> : p \in Met}
  BY <1>1, <1>3, <1>4
<1>. QED  BY <1>6, <1>7, <1>10, <1>11 DEF ExactDomains

\* The one tracked crossing, seen from the maps.
LEMMA ExactTracked ==
  ASSUME Copied, ExactContacts, ExactDomains, NEW i, Take(i), directory' = directory,
         NEW mine, Internal(mine), NEW other, ~ Internal(other), NEW o \in BOOLEAN,
         traffic[i].from = IF o THEN mine ELSE other,
         traffic[i].to = IF o THEN other ELSE mine,
         Track(mine, other, o)
  PROVE  ExactContacts' /\ ExactDomains'
<1>. DEFINE place == extractDomain(other)
            blank == [domain |-> place, inbound |-> 0, outbound |-> 0, total |-> 0]
            old == Lookup(contacts, other, blank)
            vi == IF o THEN 0 ELSE 1
            vo == IF o THEN 1 ELSE 0
<1>0. /\ Copied' /\ i \in DOMAIN traffic /\ i \notin Walked /\ Walked' = Walked \cup {i}
      /\ traffic' = traffic
  BY TakeWalks
<1>1. mine \in Actor /\ other \in Actor /\ mine # other
  BY <1>0, CopyIsFinite
<1>2. /\ \A a : (Internal(a)' <=> Internal(a)) /\ extractDomain(a)' = extractDomain(a)
      /\ \A a : InWalked(a)' = IF traffic[i].from = a /\ Internal(traffic[i].to)
                               THEN InWalked(a) \cup {i} ELSE InWalked(a)
      /\ \A a : OutWalked(a)' = IF traffic[i].to = a /\ Internal(traffic[i].from)
                                THEN OutWalked(a) \cup {i} ELSE OutWalked(a)
      /\ Met' = Met \cup {p \in Actor \X Actor : Meets(i, p[1], p[2])}
  BY OneMoreCrossing
<1>3. /\ \A a : a # other => InWalked(a)' = InWalked(a) /\ OutWalked(a)' = OutWalked(a)
      /\ InWalked(other)' = IF o THEN InWalked(other) ELSE InWalked(other) \cup {i}
      /\ OutWalked(other)' = IF o THEN OutWalked(other) \cup {i} ELSE OutWalked(other)
  BY <1>2
<1>4. /\ Cardinality(InWalked(other)') = Cardinality(InWalked(other)) + vi
      /\ Cardinality(OutWalked(other)') = Cardinality(OutWalked(other)) + vo
      /\ Cardinality(InWalked(other)) \in Nat /\ Cardinality(OutWalked(other)) \in Nat
  <2>1. i \notin InWalked(other) /\ i \notin OutWalked(other)
    BY <1>0 DEF InWalked, OutWalked
  <2>2. /\ IsFiniteSet(InWalked(other)) /\ IsFiniteSet(OutWalked(other))
        /\ Cardinality(InWalked(other)) \in Nat /\ Cardinality(OutWalked(other)) \in Nat
    BY TalliesAreFinite
  <2>3. /\ Cardinality(InWalked(other) \cup {i}) = Cardinality(InWalked(other)) + 1
        /\ Cardinality(OutWalked(other) \cup {i}) = Cardinality(OutWalked(other)) + 1
    BY <2>1, <2>2, FS_AddElement
  <2>. QED  BY <1>3, <2>2, <2>3
<1>5. Contacted' = Contacted \cup {other}
  <2>1. other \in Contacted'
    BY <1>1, <1>2, <1>3 DEF Contacted
  <2>2. \A a : a # other => (a \in Contacted' <=> a \in Contacted)
    BY <1>2, <1>3 DEF Contacted
  <2>. QED  BY <2>1, <2>2 DEF Contacted
<1>6. Met' = Met \cup {<<other, mine>>}
  <2>1. \A p \in Actor \X Actor : Meets(i, p[1], p[2]) <=> p = <<other, mine>>
    BY <1>1 DEF Meets
  <2>2. <<other, mine>> \in Actor \X Actor
    BY <1>1
  <2>. QED  BY <1>2, <2>1, <2>2
<1>7. /\ contacts' = With(contacts, other, Booked(old, o))
      /\ partners' = partners \cup {<<other, mine>>}
      /\ domainStats' =
           With(domainStats, place, Booked(Lookup(domainStats, place, NoStats), o))
      /\ domainPartners' = domainPartners \cup {<<place, mine>>}
      /\ domainsOf' = With(domainsOf, <<mine, place>>, Lookup(domainsOf, <<mine, place>>, 0) + 1)
  BY DEF Track, Contact
<1>8. old = Tallied(other)
  <2>1. CASE other \in Contacted
    BY <2>1 DEF ExactContacts, Lookup
  <2>2. CASE other \notin Contacted
    <3>1. InWalked(other) = {} /\ OutWalked(other) = {}
      BY <1>1, <2>2 DEF Contacted
    <3>2. Cardinality(InWalked(other)) = 0 /\ Cardinality(OutWalked(other)) = 0
      BY <3>1, FS_EmptySet
    <3>3. old = blank
      BY <2>2 DEF ExactContacts, Lookup
    <3>. QED  BY <3>2, <3>3 DEF Tallied
  <2>. QED  BY <2>1, <2>2
<1>9. Booked(old, o) = Tallied(other)'
  <2>. DEFINE x == Cardinality(InWalked(other))
              y == Cardinality(OutWalked(other))
              t == [domain |-> place, inbound |-> x, outbound |-> y, total |-> x + y]
  <2>1. old = t
    BY <1>8 DEF Tallied
  <2>2. Tallied(other)' = [domain |-> place, inbound |-> x + vi, outbound |-> y + vo,
                           total |-> (x + vi) + (y + vo)]
    BY <1>2, <1>4 DEF Tallied
  <2>3. x \in Nat /\ y \in Nat
    BY <1>4
  <2>. HIDE DEF old, place, x, y
  <2>4. Booked(t, o) = [domain |-> place, inbound |-> x + vi, outbound |-> y + vo,
                        total |-> (x + y) + 1]
    <3>1. Booked(t, o) = [t EXCEPT !.inbound = @ + vi, !.outbound = @ + vo, !.total = @ + 1]
      BY DEF Booked
    <3>. HIDE DEF vi, vo
    <3>. QED  BY <3>1
  <2>5. (x + y) + 1 = (x + vi) + (y + vo)
    BY <2>3
  <2>. QED  BY <2>1, <2>2, <2>4, <2>5
<1>10. \A a \in Contacted : a # other => Tallied(a)' = Tallied(a)
  BY <1>2, <1>3 DEF Tallied
<1>11. DOMAIN contacts' = DOMAIN contacts \cup {other} /\ contacts'[other] = Booked(old, o)
       /\ \A a \in DOMAIN contacts : a # other => contacts'[a] = contacts[a]
  BY <1>7 DEF With
<1>. HIDE DEF old
<1>12. ExactContacts'
  <2>1. DOMAIN contacts' = Contacted' /\ partners' = Met'
    BY <1>5, <1>6, <1>7, <1>11 DEF ExactContacts
  <2>2. \A a \in Contacted' : contacts'[a] = Tallied(a)'
    BY <1>5, <1>9, <1>10, <1>11 DEF ExactContacts
  <2>. QED  BY <2>1, <2>2 DEF ExactContacts
<1>13. DomainTotals'
  <2>. DEFINE f == ContactTotals
              g == ContactTotals'
              S == Located(place)
              stats == Lookup(domainStats, place, NoStats)
  <2>1. (\A d : d # place => Located(d)' = Located(d)) /\ Located(place)' = S \cup {other}
    BY <1>2, <1>5 DEF Located
  <2>2. IsFiniteSet(Contacted) /\ \A d : IsFiniteSet(Located(d)) /\ Located(d) \subseteq Contacted
    BY TrafficAssumption, FS_Subset DEF Contacted, Located
  <2>3. DOMAIN contacts = Contacted /\ DOMAIN contacts' = Contacted \cup {other}
    BY <1>11 DEF ExactContacts
  <2>4. \A a \in Contacted : f[a] \in Nat
    <3>1. \A a \in Contacted : contacts[a] = Tallied(a)
      BY DEF ExactContacts
    <3>2. \A a \in Contacted : f[a] = Cardinality(InWalked(a)) + Cardinality(OutWalked(a))
      BY <2>3, <3>1 DEF ContactTotals, Tallied
    <3>. QED  BY <3>2, TalliesAreFinite
  <2>5. \A a \in Contacted : a # other => g[a] = f[a]
    BY <1>11, <2>3 DEF ContactTotals
  <2>6. g[other] = (IF other \in Contacted THEN f[other] ELSE 0) + 1
    <3>1. g[other] = Tallied(other)'.total /\ (other \in Contacted => f[other] = Tallied(other).total)
      BY <1>9, <1>11, <2>3 DEF ContactTotals, ExactContacts
    <3>2. Tallied(other)'.total = Tallied(other).total + 1
      BY <1>4 DEF Tallied
    <3>3. other \notin Contacted => Tallied(other).total = 0
      BY <1>8 DEF ExactContacts, Lookup, old
    <3>. QED  BY <3>1, <3>2, <3>3
  <2>7. other \in Contacted <=> other \in S
    BY DEF Located
  <2>. HIDE DEF f, g, S
  <2>8. AddUp(g, S \cup {other}) = AddUp(f, S) + 1
    <3>1. Bumped(g, f, S, other, 1)
      BY <2>2, <2>5, <2>6, <2>7 DEF Bumped, S
    <3>2. IsFiniteSet(S) /\ \A a \in S : f[a] \in Int
      BY <2>2, <2>4 DEF S
    <3>. QED  BY <3>1, <3>2, SumOfBumped
  <2>9. \A d : d # place => AddUp(g, Located(d)) = AddUp(f, Located(d))
    <3>. TAKE d
    <3>. HAVE d # place
    <3>. DEFINE T == Located(d)
    <3>1. IsFiniteSet(T) /\ other \notin T /\ T \subseteq Contacted
      BY <2>2 DEF Located
    <3>. HIDE DEF T
    <3>2. \A a \in T : f[a] \in Int /\ g[a] = f[a]
      BY <2>4, <2>5, <3>1
    <3>3. AddUp(g, T) = AddUp(f, T)
      BY <3>1, <3>2, SumOfSame
    <3>. QED  BY <3>3 DEF T
  <2>10. Tally(stats) /\ stats.total = AddUp(f, S)
    <3>1. CASE place \in DOMAIN domainStats
      BY <3>1 DEF ExactDomains, DomainTotals, Lookup, S, f
    <3>2. CASE place \notin DOMAIN domainStats
      <4>1. S = {}
        BY <3>2 DEF ExactDomains, S, Located
      <4>2. AddUp(f, S) = 0
        BY <4>1, SumOfNone
      <4>3. stats = NoStats
        BY <3>2 DEF Lookup
      <4>. QED  BY <4>2, <4>3 DEF NoStats, Tally
    <3>. QED  BY <3>1, <3>2
  <2>. HIDE DEF stats
  <2>11. Tally(Booked(stats, o)) /\ Booked(stats, o).total = stats.total + 1
    BY <2>10, BookedTally
  <2>12. /\ DOMAIN domainStats' = DOMAIN domainStats \cup {place}
         /\ domainStats'[place] = Booked(stats, o)
         /\ \A d \in DOMAIN domainStats : d # place => domainStats'[d] = domainStats[d]
    BY <1>7 DEF With, stats
  <2>13. ASSUME NEW d \in DOMAIN domainStats'
         PROVE  Tally(domainStats'[d]) /\ domainStats'[d].total = AddUp(g, Located(d)')
    <3>1. CASE d = place
      <4>1. domainStats'[place] = Booked(stats, o) /\ Located(place)' = S \cup {other}
        BY <2>1, <2>12
      <4>2. AddUp(g, Located(place)') = AddUp(g, S \cup {other})
        BY <4>1
      <4>3. Tally(Booked(stats, o)) /\ Booked(stats, o).total = AddUp(g, S \cup {other})
        BY <2>8, <2>10, <2>11
      <4>4. Located(d)' = Located(place)' /\ domainStats'[d] = Booked(stats, o)
        BY <1>2, <3>1, <4>1 DEF Located
      <4>5. AddUp(g, Located(d)') = AddUp(g, S \cup {other})
        BY <4>2, <4>4
      <4>. QED  BY <4>3, <4>4, <4>5
    <3>2. CASE d # place
      <4>1. Tally(domainStats[d]) /\ domainStats[d].total = AddUp(f, Located(d))
        BY <2>12, <2>13, <3>2 DEF ExactDomains, DomainTotals, f
      <4>. QED  BY <2>1, <2>9, <2>12, <2>13, <3>2, <4>1
    <3>. QED  BY <3>1, <3>2
  <2>. QED  BY <2>13 DEF DomainTotals, g
<1>14. /\ {extractDomain(a)' : a \in Contacted'} = {extractDomain(a) : a \in Contacted} \cup {place}
       /\ {<<extractDomain(p[1])', p[2]>> : p \in Met'}
            = {<<extractDomain(p[1]), p[2]>> : p \in Met} \cup {<<place, mine>>}
       /\ {<<p[2], extractDomain(p[1])'>> : p \in Met'}
            = {<<p[2], extractDomain(p[1])>> : p \in Met} \cup {<<mine, place>>}
  <2>. DEFINE q == <<other, mine>>
              M == Met
              C == Contacted
              x(p) == <<extractDomain(p[1]), p[2]>>
              y(p) == <<p[2], extractDomain(p[1])>>
  <2>1. x(q) = <<place, mine>> /\ y(q) = <<mine, place>>
    OBVIOUS
  <2>2. /\ {extractDomain(a)' : a \in Contacted'} = {extractDomain(a) : a \in C \cup {other}}
        /\ {<<extractDomain(p[1])', p[2]>> : p \in Met'} = {x(p) : p \in M \cup {q}}
        /\ {<<p[2], extractDomain(p[1])'>> : p \in Met'} = {y(p) : p \in M \cup {q}}
    BY <1>2, <1>5, <1>6
  <2>. HIDE DEF q, M, C, x, y
  <2>3. {extractDomain(a) : a \in C \cup {other}} = {extractDomain(a) : a \in C} \cup {place}
    OBVIOUS
  <2>4. /\ {x(p) : p \in M \cup {q}} = {x(p) : p \in M} \cup {x(q)}
        /\ {y(p) : p \in M \cup {q}} = {y(p) : p \in M} \cup {y(q)}
    OBVIOUS
  <2>5. {x(p) : p \in M} = {<<extractDomain(p[1]), p[2]>> : p \in Met}
        /\ {y(p) : p \in M} = {<<p[2], extractDomain(p[1])>> : p \in Met}
    BY DEF x, y, M
  <2>. QED  BY <2>1, <2>2, <2>3, <2>4, <2>5 DEF C
<1>15. /\ DOMAIN domainStats' = DOMAIN domainStats \cup {place}
       /\ DOMAIN domainsOf' = DOMAIN domainsOf \cup {<<mine, place>>}
  BY <1>7 DEF With
<1>. QED  BY <1>7, <1>12, <1>13, <1>14, <1>15 DEF ExactDomains

LEMMA ExactCount ==
  ASSUME Copied, ExactReport, NEW i, CountInteraction(i)
  PROVE  ExactReport'
<1>1. /\ Take(i) /\ directory' = directory /\ loads' = loads /\ summary' = summary /\ i \in left
      /\ Within(i) \/ Outbound(i) \/ Inbound(i) \/ Outside(i)
  BY DEF CountInteraction, Take
<1>2. summary' = <<>>
  BY <1>1 DEF ExactReport
<1>3. SeenInside' = SeenInside \cup {a \in {traffic[i].from, traffic[i].to} : Internal(a)}
  BY <1>1, OneMoreCrossing
<1>4. ExactContacts /\ ExactDomains /\ DOMAIN metrics = SeenInside
  BY DEF ExactReport
<1>5. ASSUME NEW M, DOMAIN metrics' = DOMAIN Seen(M),
             M = {a \in {traffic[i].from, traffic[i].to} : Internal(a)}
      PROVE  DOMAIN metrics' = SeenInside'
  BY <1>3, <1>4, <1>5 DEF Seen
<1>6. CASE Within(i)
  <2>1. /\ Internal(traffic[i].from) /\ Internal(traffic[i].to) /\ Untracked
        /\ DOMAIN metrics' = DOMAIN Seen({traffic[i].from, traffic[i].to})
    BY <1>6 DEF Within
  <2>2. ExactContacts' /\ ExactDomains'
    BY <1>1, <1>4, <2>1, ExactUncrossed
  <2>. QED  BY <1>2, <1>5, <2>1, <2>2 DEF ExactReport
<1>7. CASE Outside(i)
  <2>1. ~ Internal(traffic[i].from) /\ ~ Internal(traffic[i].to) /\ Untracked /\ metrics' = metrics
    BY <1>7 DEF Outside
  <2>2. ExactContacts' /\ ExactDomains'
    BY <1>1, <1>4, <2>1, ExactUncrossed
  <2>3. SeenInside' = SeenInside
    BY <1>3, <2>1
  <2>. QED  BY <1>2, <1>4, <2>1, <2>2, <2>3 DEF ExactReport
<1>8. CASE Outbound(i)
  <2>1. /\ Internal(traffic[i].from) /\ ~ Internal(traffic[i].to)
        /\ Track(traffic[i].from, traffic[i].to, TRUE)
    BY <1>8 DEF Outbound
  <2>2. ExactContacts' /\ ExactDomains'
    BY <1>1, <1>4, <2>1, ExactTracked
  <2>3. DOMAIN metrics' = DOMAIN Seen({traffic[i].from})
    BY <2>1 DEF Track
  <2>. QED  BY <1>2, <1>5, <2>1, <2>2, <2>3 DEF ExactReport
<1>9. CASE Inbound(i)
  <2>1. /\ ~ Internal(traffic[i].from) /\ Internal(traffic[i].to)
        /\ Track(traffic[i].to, traffic[i].from, FALSE)
    BY <1>9 DEF Inbound
  <2>2. ExactContacts' /\ ExactDomains'
    BY <1>1, <1>4, <2>1, ExactTracked
  <2>3. DOMAIN metrics' = DOMAIN Seen({traffic[i].to})
    BY <2>1 DEF Track
  <2>. QED  BY <1>2, <1>5, <2>1, <2>2, <2>3 DEF ExactReport
<1>. QED  BY <1>1, <1>6, <1>7, <1>8, <1>9

LEMMA ExactStays ==
  ASSUME Copied, UNCHANGED trafficVars,
         UNCHANGED <<directory, metrics, domainsOf, contacts, partners, domainStats,
                     domainPartners, counts>>
  PROVE  /\ ExactContacts' = ExactContacts /\ ExactDomains' = ExactDomains
         /\ SeenInside' = SeenInside /\ Results' = Results /\ left' = left /\ job' = job
<1>1. Walked' = Walked /\ traffic' = traffic /\ left' = left /\ job' = job
  BY CopyStays DEF trafficVars
<1>2. \A a : (Internal(a)' <=> Internal(a)) /\ extractDomain(a)' = extractDomain(a)
  BY DEF Internal, extractDomain
<1>3. \A a : InWalked(a)' = InWalked(a) /\ OutWalked(a)' = OutWalked(a)
  BY <1>1, <1>2 DEF InWalked, OutWalked, In, Out, Crossing
<1>4. Contacted' = Contacted /\ Met' = Met /\ SeenInside' = SeenInside
  BY <1>1, <1>2, <1>3 DEF Contacted, Met, Meets, SeenInside
<1>5. \A a : Tallied(a)' = Tallied(a)
  BY <1>2, <1>3 DEF Tallied
<1>6. \A d : Located(d)' = Located(d)
  BY <1>2, <1>4 DEF Located
<1>7. ContactTotals' = ContactTotals
  BY DEF ContactTotals
<1>8. ExactContacts' = ExactContacts
  BY <1>4, <1>5 DEF ExactContacts
<1>9. DomainTotals' = DomainTotals
  BY <1>6, <1>7 DEF DomainTotals
<1>10. ExactDomains' = ExactDomains
  BY <1>2, <1>4, <1>9 DEF ExactDomains
<1>11. Results' = Results
  BY DEF Results, DomainsOf, Spans
<1>. QED  BY <1>1, <1>4, <1>8, <1>10, <1>11

LEMMA ExactInit == ASSUME TrafficInit, ExternalInit PROVE Exact
<1>1. DOMAIN NoEntries = {} /\ Walked = {} /\ summary = <<>> /\ loads = 0
  BY CopiedInit DEF NoEntries, ExternalInit
<1>2. Contacted = {} /\ Met = {} /\ SeenInside = {}
  BY <1>1 DEF Contacted, Met, SeenInside, InWalked, OutWalked
<1>. QED  BY <1>1, <1>2
     DEF ExternalInit, Exact, ExactReport, ExactContacts, ExactDomains, DomainTotals

ExactInv == Copied /\ Exact

LEMMA ExactStep == ExactInv /\ [Next]_vars => ExactInv'
<1>. SUFFICES ASSUME ExactInv, [Next]_vars PROVE ExactInv'
  OBVIOUS
<1>. USE DEF ExactInv
<1>1. ASSUME UNCHANGED trafficVars, UNCHANGED externalVars PROVE ExactInv'
  <2>1. Copied'
    BY <1>1, CopyStays
  <2>2. /\ ExactContacts' = ExactContacts /\ ExactDomains' = ExactDomains
        /\ SeenInside' = SeenInside /\ Results' = Results /\ left' = left /\ job' = job
        /\ summary' = summary /\ loads' = loads /\ metrics' = metrics
    BY <1>1, ExactStays DEF externalVars
  <2>. QED  BY <2>1, <2>2 DEF Exact, ExactReport
<1>2. ASSUME NEW i, Take(i), job # "external", UNCHANGED externalVars PROVE ExactInv'
  BY <1>2, TakeWalks DEF Exact, externalVars
<1>3. CASE ExternalNext
  <2>1. ASSUME NEW i, CountInteraction(i) PROVE ExactInv'
    <3>1. /\ job = "external" /\ Take(i) /\ loads' = loads
      BY <2>1 DEF CountInteraction
    <3>2. Copied' /\ job' = job
      BY <3>1, TakeWalks
    <3>3. loads = 0 => ExactReport'
      BY <2>1, <3>1, ExactCount DEF Exact
    <3>. QED  BY <3>1, <3>2, <3>3 DEF Exact
  <2>4. ASSUME NEW i, CountNewcomer(i) PROVE ExactInv'
    <3>1. job = "external" /\ Take(i) /\ loads' = loads + 1 /\ loads \in Nat
      BY <2>4 DEF CountNewcomer, Exact
    <3>2. Copied' /\ job' = job
      BY <3>1, TakeWalks
    <3>. QED  BY <3>1, <3>2 DEF Exact
  <2>2. ASSUME NEW a, LoadActor(a) PROVE ExactInv'
    <3>1. /\ job = "external" /\ loads' = loads + 1 /\ loads \in Nat
          /\ UNCHANGED trafficVars /\ job' = job
      BY <2>2 DEF LoadActor, Exact, trafficVars
    <3>. QED  BY <3>1, CopyStays DEF Exact
  <2>3. CASE Summarise
    <3>1. /\ job = "external" /\ left = {} /\ summary' = <<Results>> /\ loads' = loads
          /\ UNCHANGED trafficVars /\ metrics' = metrics
          /\ UNCHANGED <<directory, metrics, domainsOf, contacts, partners, domainStats,
                         domainPartners, counts>>
      BY <2>3 DEF Summarise
    <3>2. /\ ExactContacts' = ExactContacts /\ ExactDomains' = ExactDomains
          /\ SeenInside' = SeenInside /\ Results' = Results /\ left' = left /\ job' = job
      BY <3>1, ExactStays
    <3>. QED  BY <3>1, <3>2, CopyStays DEF Exact, ExactReport
  <2>. QED  BY <1>3, <2>1, <2>2, <2>3, <2>4 DEF ExternalNext
<1>4. CASE CentralityNext /\ UNCHANGED externalVars
  <2>1. ASSUME NEW i, AddEdge(i) PROVE ExactInv'
    BY <1>2, <1>4, <2>1 DEF AddEdge, DegreeJobs
  <2>2. CASE Iterate \/ ToResults
    BY <1>1, <1>4, <2>2 DEF Iterate, ToResults
  <2>. QED  BY <1>4, <2>1, <2>2 DEF CentralityNext
<1>5. CASE TemporalNext /\ UNCHANGED externalVars
  <2>1. ASSUME NEW i, ScanInteraction(i) PROVE ExactInv'
    BY <1>2, <1>5, <2>1 DEF ScanInteraction
  <2>2. CASE FindWindow \/ BuildTimeline \/ ScanPoint \/ EndBursts
    BY <1>1, <1>5, <2>2 DEF FindWindow, BuildTimeline, ScanPoint, EndBursts
  <2>. QED  BY <1>5, <2>1, <2>2 DEF TemporalNext
<1>6. CASE UNCHANGED vars
  BY <1>1, <1>6 DEF vars
<1>. QED  BY <1>3, <1>4, <1>5, <1>6 DEF Next

LEMMA PairsOfOne ==
  ASSUME NEW a, NEW B, IsFiniteSet(B)
  PROVE  Cardinality({a} \X B) = Cardinality(B)
<1>1. Cardinality({a} \X B) = Cardinality({a}) * Cardinality(B) /\ Cardinality({a}) = 1
  BY FS_Singleton, FS_Product
<1>2. Cardinality(B) \in Nat
  BY FS_CardinalityType
<1>. QED  BY <1>1, <1>2

LEMMA ImageIsFinite == ASSUME NEW S, IsFiniteSet(S), NEW f PROVE IsFiniteSet({f[x] : x \in S})
<1>. DEFINE P == {T \in SUBSET S : IsFiniteSet({f[x] : x \in T})}
<1>1. {} \in P
  <2>1. {f[x] : x \in {}} = {}
    OBVIOUS
  <2>. QED  BY <2>1, FS_EmptySet
<1>2. ASSUME NEW T \in SUBSET S, NEW x \in S \ T, T \in P PROVE T \cup {x} \in P
  <2>. DEFINE I == {f[y] : y \in T}
  <2>1. {f[y] : y \in T \cup {x}} = I \cup {f[x]} /\ IsFiniteSet(I)
        /\ T \cup {x} \in SUBSET S
    BY <1>2
  <2>. HIDE DEF I
  <2>2. IsFiniteSet(I \cup {f[x]})
    BY <2>1, FS_AddElement
  <2>3. IsFiniteSet({f[y] : y \in T \cup {x}})
    BY <2>1, <2>2
  <2>. QED  BY <2>1, <2>3
<1>. HIDE DEF P
<1>3. S \in P
  BY <1>1, <1>2, FiniteInduction
<1>. QED  BY <1>3 DEF P

InsidersOf(S) ==
  {b \in Participants : Internal(b) /\ \E a \in S : Crossing(a, b) \cup Crossing(b, a) # {}}

LEMMA ExactImplies == ExactInv => ResultsAreCounts
<1>. SUFFICES ASSUME ExactInv, loads = 0, summary # <<>> PROVE ResultsAreCounts
  BY DEF ResultsAreCounts
<1>1. Copied /\ ExactContacts /\ ExactDomains /\ DOMAIN metrics = SeenInside
      /\ left = {} /\ summary[1] = Results
  BY DEF ExactInv, Exact, ExactReport
<1>2. Walked = DOMAIN traffic
  BY <1>1 DEF Walked
<1>3. /\ \A i \in DOMAIN traffic : /\ traffic[i].from \in Participants
                                   /\ traffic[i].to \in Participants
      /\ Participants \subseteq Actor /\ IsFiniteSet(Participants)
  BY <1>1, CopyIsFinite, SendersAreFinite DEF Participants
<1>4. \A a : InWalked(a) = In(a) /\ OutWalked(a) = Out(a)
  BY <1>2 DEF InWalked, OutWalked, In, Out, Crossing
<1>5. Contacted = Outsiders /\ IsFiniteSet(Outsiders)
  <2>1. \A a : In(a) \cup Out(a) # {} => a \in Participants
    BY <1>3 DEF In, Out, Crossing
  <2>2. Contacted = Outsiders
    BY <1>3, <1>4, <2>1 DEF Contacted, Outsiders
  <2>. QED  BY <1>3, <2>2, FS_Subset DEF Outsiders
<1>6. \A a, b : <<a, b>> \in Met <=> a \in Outsiders /\ b \in InsidersOf({a})
  <2>. TAKE a, b
  <2>1. ASSUME <<a, b>> \in Met PROVE a \in Outsiders /\ b \in InsidersOf({a})
    <3>1. PICK i \in DOMAIN traffic : Meets(i, a, b)
      BY <1>2, <2>1 DEF Met
    <3>2. a \in Participants /\ b \in Participants /\ ~ Internal(a) /\ Internal(b) /\ b \in Actor
      BY <1>3, <3>1 DEF Meets
    <3>3. i \in Crossing(a, b) \cup Crossing(b, a)
      BY <3>1 DEF Meets, Crossing
    <3>4. In(a) \cup Out(a) # {}
      BY <3>2, <3>3 DEF In, Out
    <3>. QED  BY <3>2, <3>3, <3>4 DEF Outsiders, InsidersOf
  <2>2. ASSUME a \in Outsiders, b \in InsidersOf({a}) PROVE <<a, b>> \in Met
    <3>1. ~ Internal(a) /\ Internal(b) /\ a \in Actor /\ b \in Actor
      BY <1>3, <2>2 DEF Outsiders, InsidersOf
    <3>2. PICK i : i \in Crossing(a, b) \cup Crossing(b, a)
      BY <2>2 DEF InsidersOf
    <3>3. i \in Walked /\ Meets(i, a, b)
      BY <1>2, <3>1, <3>2 DEF Crossing, Meets
    <3>. QED  BY <3>1, <3>3 DEF Met
  <2>. QED  BY <2>1, <2>2
<1>7. \A p \in Met : p = <<p[1], p[2]>>
  BY DEF Met
<1>8. \A S : IsFiniteSet(InsidersOf(S))
  BY <1>3, FS_Subset DEF InsidersOf
<1>9. DOMAIN contacts = Outsiders /\ \A a \in Outsiders : contacts[a] = Tallied(a)
  BY <1>1, <1>5 DEF ExactContacts
<1>10. \A d : Located(d) = {a \in Outsiders : extractDomain(a) = d}
  BY <1>5 DEF Located
<1>11. /\ DOMAIN summary[1].contacts = Outsiders
       /\ DOMAIN summary[1].domains = {extractDomain(a) : a \in Outsiders}
       /\ DOMAIN summary[1].internals = {a \in Participants : Internal(a)}
  <2>1. /\ DOMAIN Results.contacts = DOMAIN contacts /\ DOMAIN Results.domains = DOMAIN domainStats
        /\ DOMAIN Results.internals = DOMAIN metrics
    BY DEF Results
  <2>2. SeenInside = {a \in Participants : Internal(a)}
    BY <1>2, <1>3 DEF SeenInside, Participants
  <2>. QED  BY <1>1, <1>5, <1>9, <2>1, <2>2 DEF ExactDomains
<1>12. ASSUME NEW a \in Outsiders
       PROVE  /\ summary[1].contacts[a].contacts = contacts[a]
              /\ summary[1].contacts[a].contacts.inbound = Cardinality(In(a))
              /\ summary[1].contacts[a].contacts.outbound = Cardinality(Out(a))
              /\ summary[1].contacts[a].uniqueInternal = Cardinality(InsidersOf({a}))
  <2>1. /\ summary[1].contacts[a].contacts = contacts[a]
        /\ summary[1].contacts[a].uniqueInternal = Cardinality({p \in partners : p[1] = a})
    BY <1>1, <1>9 DEF Results
  <2>2. {p \in partners : p[1] = a} = {a} \X InsidersOf({a})
    BY <1>1, <1>6, <1>7 DEF ExactContacts
  <2>3. contacts[a].inbound = Cardinality(In(a)) /\ contacts[a].outbound = Cardinality(Out(a))
    BY <1>4, <1>9 DEF Tallied
  <2>. DEFINE B == InsidersOf({a})
  <2>4. IsFiniteSet(B)
    BY <1>8
  <2>. HIDE DEF B
  <2>5. Cardinality({a} \X B) = Cardinality(B)
    BY <2>4, PairsOfOne
  <2>6. Cardinality({p \in partners : p[1] = a}) = Cardinality(B)
    BY <2>2, <2>5 DEF B
  <2>. QED  BY <2>1, <2>3, <2>6 DEF B
<1>13. ASSUME NEW d \in DOMAIN summary[1].domains
       PROVE  LET at == {a \in Outsiders : extractDomain(a) = d} IN
              /\ summary[1].domains[d].totalContacts = Cardinality(at)
              /\ summary[1].domains[d].uniqueInternal = Cardinality(InsidersOf(at))
              /\ summary[1].domains[d].stats.total =
                   SumOver(at, LAMBDA a : summary[1].contacts[a].contacts.total)
  <2>. DEFINE at == {a \in Outsiders : extractDomain(a) = d}
              f == [a \in at |-> summary[1].contacts[a].contacts.total]
  <2>1. d \in DOMAIN domainStats
    BY <1>1, <1>13 DEF Results
  <2>2. /\ summary[1].domains[d].stats = domainStats[d]
        /\ summary[1].domains[d].uniqueInternal = Cardinality({p \in domainPartners : p[1] = d})
        /\ summary[1].domains[d].totalContacts
             = Cardinality({a \in DOMAIN contacts : contacts[a].domain = d})
    BY <1>1, <2>1 DEF Results
  <2>3. {a \in DOMAIN contacts : contacts[a].domain = d} = at
    BY <1>9 DEF Tallied
  <2>4. {p \in domainPartners : p[1] = d} = {d} \X InsidersOf(at)
    <3>1. domainPartners = {<<extractDomain(p[1]), p[2]>> : p \in Met}
      BY <1>1 DEF ExactDomains
    <3>2. \A b : <<d, b>> \in domainPartners <=> b \in InsidersOf(at)
      <4>. TAKE b
      <4>1. <<d, b>> \in domainPartners <=> \E a : <<a, b>> \in Met /\ extractDomain(a) = d
        <5>1. ASSUME <<d, b>> \in domainPartners
              PROVE  \E a : <<a, b>> \in Met /\ extractDomain(a) = d
          <6>1. PICK p \in Met : <<d, b>> = <<extractDomain(p[1]), p[2]>>
            BY <3>1, <5>1
          <6>2. <<p[1], b>> \in Met /\ extractDomain(p[1]) = d
            BY <1>7, <6>1
          <6>. QED  BY <6>2
        <5>2. ASSUME NEW a, <<a, b>> \in Met, extractDomain(a) = d
              PROVE  <<d, b>> \in domainPartners
          <6>. DEFINE p == <<a, b>>
          <6>1. p \in Met /\ <<extractDomain(p[1]), p[2]>> = <<d, b>>
            BY <5>2
          <6>. HIDE DEF p
          <6>. QED  BY <3>1, <6>1
        <5>. QED  BY <5>1, <5>2
      <4>2. b \in InsidersOf(at) <=> \E a \in at : b \in InsidersOf({a})
        BY DEF InsidersOf
      <4>. QED  BY <1>6, <4>1, <4>2
    <3>3. \A q \in domainPartners : q = <<q[1], q[2]>>
      BY <3>1
    <3>. QED  BY <3>2, <3>3
  <2>5. SumOver(at, LAMBDA a : summary[1].contacts[a].contacts.total) = AddUp(f, at)
    BY SumsAreAddUp DEF SumOver
  <2>6. at = Located(d) /\ at \subseteq Outsiders
    BY <1>10
  <2>7. IsFiniteSet(at)
    BY <1>5, <2>6, FS_Subset
  <2>8. \A a \in at : ContactTotals[a] = f[a] /\ ContactTotals[a] \in Int
    <3>. TAKE a \in at
    <3>1. f[a] = contacts[a].total /\ ContactTotals[a] = contacts[a].total
      BY <1>9, <1>12 DEF ContactTotals
    <3>2. contacts[a].total \in Int
      BY <1>1, <1>9, TalliesAreFinite DEF Tallied
    <3>. QED  BY <3>1, <3>2
  <2>9. domainStats[d].total = AddUp(ContactTotals, Located(d))
    BY <1>1, <2>1 DEF ExactDomains, DomainTotals
  <2>. HIDE DEF at, f
  <2>10. AddUp(f, at) = AddUp(ContactTotals, at)
    BY <2>7, <2>8, SumOfSame
  <2>11. Cardinality({d} \X InsidersOf(at)) = Cardinality(InsidersOf(at))
    BY <1>8, PairsOfOne
  <2>12. /\ summary[1].domains[d].totalContacts = Cardinality(at)
         /\ summary[1].domains[d].uniqueInternal = Cardinality(InsidersOf(at))
    BY <2>2, <2>3, <2>4, <2>11
  <2>13. summary[1].domains[d].stats.total = AddUp(f, at)
    BY <2>2, <2>6, <2>9, <2>10
  <2>. QED  BY <2>5, <2>12, <2>13 DEF at
<1>14. ASSUME NEW a \in DOMAIN summary[1].internals
       PROVE  summary[1].internals[a].uniqueDomains =
                Cardinality({extractDomain(b) : b \in {x \in Outsiders : a \in InsidersOf({x})}})
  <2>. DEFINE X == {x \in Outsiders : a \in InsidersOf({x})}
              B == {extractDomain(b) : b \in X}
  <2>1. summary[1].internals[a].uniqueDomains = Cardinality({p \in DOMAIN domainsOf : p[1] = a})
    BY <1>1, <1>14 DEF Results, DomainsOf
  <2>2. DOMAIN domainsOf = {<<p[2], extractDomain(p[1])>> : p \in Met}
    BY <1>1 DEF ExactDomains
  <2>3. \A e : <<a, e>> \in DOMAIN domainsOf <=> e \in B
    <3>. TAKE e
    <3>1. ASSUME <<a, e>> \in DOMAIN domainsOf
          PROVE  \E x : <<x, a>> \in Met /\ extractDomain(x) = e
      <4>1. PICK p \in Met : <<a, e>> = <<p[2], extractDomain(p[1])>>
        BY <2>2, <3>1
      <4>2. <<p[1], a>> \in Met /\ extractDomain(p[1]) = e
        BY <1>7, <4>1
      <4>. QED  BY <4>2
    <3>2. ASSUME NEW x, <<x, a>> \in Met, extractDomain(x) = e
          PROVE  <<a, e>> \in DOMAIN domainsOf
      <4>. DEFINE p == <<x, a>>
      <4>1. p \in Met /\ <<p[2], extractDomain(p[1])>> = <<a, e>>
        BY <3>2
      <4>. HIDE DEF p
      <4>. QED  BY <2>2, <4>1
    <3>3. <<a, e>> \in DOMAIN domainsOf <=> \E x : <<x, a>> \in Met /\ extractDomain(x) = e
      BY <3>1, <3>2
    <3>. QED  BY <1>6, <3>3
  <2>4. \A q \in DOMAIN domainsOf : q = <<q[1], q[2]>>
    BY <2>2
  <2>5. {p \in DOMAIN domainsOf : p[1] = a} = {a} \X B
    <3>. HIDE DEF B
    <3>. QED  BY <2>3, <2>4
  <2>6. IsFiniteSet(B)
    <3>. DEFINE f == [b \in X |-> extractDomain(b)]
    <3>1. IsFiniteSet(X)
      BY <1>5, FS_Subset
    <3>2. B = {f[b] : b \in X}
      OBVIOUS
    <3>. HIDE DEF X, f, B
    <3>. QED  BY <3>1, <3>2, ImageIsFinite
  <2>. HIDE DEF B
  <2>7. Cardinality({a} \X B) = Cardinality(B)
    BY <2>6, PairsOfOne
  <2>8. summary[1].internals[a].uniqueDomains = Cardinality(B)
    BY <2>1, <2>5, <2>7
  <2>. QED  BY <2>8 DEF B
<1>. QED  BY <1>11, <1>12, <1>13, <1>14 DEF ResultsAreCounts, InsidersOf

(***************************************************************************)
(* In whatever order the interactions come, if nobody is loaded meanwhile  *)
(* the numbers in an external report are the sizes of the sets that their  *)
(* names say (analysis/external.go:97-262).                                *)
(***************************************************************************)
THEOREM ReportsAreExact == Spec => []ResultsAreCounts
<1>1. Init => ExactInv
  BY ExactInit, CopiedInit DEF Init, ExactInv
<1>. QED  BY <1>1, ExactStep, ExactImplies, PTL DEF Spec
-----------------------------------------------------------------------------
(***************************************************************************)
(* Time: what a timeline adds up to, as sums over its positions.           *)
(***************************************************************************)
Point == [time : Nat, count : Nat]
CountsOf(s) == [k \in 1..Len(s) |-> s[k].count]
SquaresOf(s) == [k \in 1..Len(s) |-> s[k].count * s[k].count]

LEMMA SquareIsNatural == \A x \in Nat : x * x \in Nat
  OBVIOUS

\* The counts of the points of a timeline are naturals, and so are their
\* squares.
LEMMA PointsHaveNumbers ==
  ASSUME NEW s \in Seq(Point)
  PROVE  /\ DOMAIN s = 1..Len(s) /\ Len(s) \in Nat /\ IsFiniteSet(1..Len(s)) /\ 1..Len(s) \subseteq Nat
         /\ \A k \in 1..Len(s) :
              /\ s[k].time \in Nat /\ s[k].count \in Nat
              /\ CountsOf(s)[k] = s[k].count /\ CountsOf(s)[k] \in Nat
              /\ SquaresOf(s)[k] = s[k].count * s[k].count /\ SquaresOf(s)[k] \in Nat
<1>1. DOMAIN s = 1..Len(s) /\ Len(s) \in Nat /\ 1..Len(s) \subseteq Nat /\ IsFiniteSet(1..Len(s))
  BY FS_Interval
<1>2. ASSUME NEW k \in 1..Len(s)
      PROVE  /\ s[k].time \in Nat /\ s[k].count \in Nat
             /\ CountsOf(s)[k] = s[k].count /\ CountsOf(s)[k] \in Nat
             /\ SquaresOf(s)[k] = s[k].count * s[k].count /\ SquaresOf(s)[k] \in Nat
  <2>1. s[k] \in Point
    OBVIOUS
  <2>2. s[k].time \in Nat /\ s[k].count \in Nat
    BY <2>1 DEF Point
  <2>3. s[k].count * s[k].count \in Nat
    BY <2>2, SquareIsNatural
  <2>. QED  BY <2>2, <2>3 DEF CountsOf, SquaresOf
<1>. QED  BY <1>1, <1>2

\* The fold that totals a timeline is the sum of its counts.
LEMMA TotalIsSum ==
  ASSUME NEW s \in Seq(Point)
  PROVE  Total(s) = AddUp(CountsOf(s), 1..Len(s))
<1>. DEFINE D == DOMAIN s
            f == CountsOf(s)
            Step(g, S) == IF S = {} THEN 0 ELSE g[S \ {Max(S)}] + s[Max(S)].count
            iter == CHOOSE g : g = [S \in SUBSET D |-> Step(g, S)]
<1>1. Total(s) = iter[D]
  BY DEF Total, FoldLeft, MapThenFoldSet
<1>2. D = 1..Len(s) /\ IsFiniteSet(D) /\ D \subseteq Nat /\ \A x \in D : f[x] \in Int /\ f[x] = s[x].count
  BY PointsHaveNumbers
<1>. HIDE DEF D, f
<1>3. \A S \in SUBSET D : S # {} => Max(S) \in S
  BY <1>2, FS_Subset, LastOfFinite
<1>4. \A g : g \in [SUBSET D -> Int] \/ g = [S \in SUBSET D |-> Step(g, S)] =>
        (FromTheEnd(g, f, D) <=> \A S \in SUBSET D : g[S] = Step(g, S))
  BY <1>2, <1>3 DEF FromTheEnd
<1>5. PICK sum \in [SUBSET D -> Int] : FromTheEnd(sum, f, D)
  BY <1>2, SumRunsFromTheEnd
<1>6. iter = [S \in SUBSET D |-> Step(iter, S)]
  <2>1. \A S \in SUBSET D : sum[S] = Step(sum, S)
    BY <1>4, <1>5
  <2>. HIDE DEF Step
  <2>2. sum = [S \in SUBSET D |-> Step(sum, S)]
    BY <1>5, <2>1
  <2>. QED  BY <2>2
<1>. HIDE DEF iter
<1>7. FromTheEnd(iter, f, D)
  <2>1. \A S \in SUBSET D : iter[S] = Step(iter, S)
    <3>. HIDE DEF Step
    <3>. QED  BY <1>6
  <2>. QED  BY <1>4, <1>6, <2>1
<1>8. iter[D] = AddUp(f, D)
  BY <1>2, <1>7, SumFromTheEnd
<1>. QED  BY <1>1, <1>2, <1>8 DEF f

\* The fold over the squares is the sum of the squares.
LEMMA SquaresAreSum ==
  ASSUME NEW s \in Seq(Point)
  PROVE  Squares(s) = AddUp(SquaresOf(s), 1..Len(s))
<1>. DEFINE D == DOMAIN s
            f == SquaresOf(s)
            Step(g, S) == IF S = {} THEN 0 ELSE g[S \ {Max(S)}] + s[Max(S)].count * s[Max(S)].count
            iter == CHOOSE g : g = [S \in SUBSET D |-> Step(g, S)]
<1>1. Squares(s) = iter[D]
  BY DEF Squares, FoldLeft, MapThenFoldSet
<1>2. /\ D = 1..Len(s) /\ IsFiniteSet(D) /\ D \subseteq Nat
      /\ \A x \in D : f[x] \in Int /\ f[x] = s[x].count * s[x].count
  BY PointsHaveNumbers
<1>. HIDE DEF D, f
<1>3. \A S \in SUBSET D : S # {} => Max(S) \in S
  BY <1>2, FS_Subset, LastOfFinite
<1>4. \A g : g \in [SUBSET D -> Int] \/ g = [S \in SUBSET D |-> Step(g, S)] =>
        (FromTheEnd(g, f, D) <=> \A S \in SUBSET D : g[S] = Step(g, S))
  BY <1>2, <1>3 DEF FromTheEnd
<1>5. PICK sum \in [SUBSET D -> Int] : FromTheEnd(sum, f, D)
  BY <1>2, SumRunsFromTheEnd
<1>6. iter = [S \in SUBSET D |-> Step(iter, S)]
  <2>1. \A S \in SUBSET D : sum[S] = Step(sum, S)
    BY <1>4, <1>5
  <2>. HIDE DEF Step
  <2>2. sum = [S \in SUBSET D |-> Step(sum, S)]
    BY <1>5, <2>1
  <2>. QED  BY <2>2
<1>. HIDE DEF iter
<1>7. FromTheEnd(iter, f, D)
  <2>1. \A S \in SUBSET D : iter[S] = Step(iter, S)
    <3>. HIDE DEF Step
    <3>. QED  BY <1>6
  <2>. QED  BY <1>4, <1>6, <2>1
<1>8. iter[D] = AddUp(f, D)
  BY <1>2, <1>7, SumFromTheEnd
<1>. QED  BY <1>1, <1>2, <1>8 DEF f

(***************************************************************************)
(* Sorted puts every value in its place.                                   *)
(***************************************************************************)
Sortable(f) ==
  /\ IsFiniteSet(DOMAIN f) /\ DOMAIN f \subseteq Int
  /\ \A x \in DOMAIN f : f[x] \in Int

\* Who is before x has fewer before it than x has.
LEMMA BeforeIsSmaller ==
  ASSUME NEW f, Sortable(f), NEW x \in DOMAIN f
  PROVE  /\ IsFiniteSet(Before(f, x)) /\ Cardinality(Before(f, x)) \in Nat
         /\ Before(f, x) \subseteq DOMAIN f
         /\ Cardinality(Before(f, x)) < Cardinality(DOMAIN f)
         /\ \A y \in Before(f, x) : Cardinality(Before(f, y)) < Cardinality(Before(f, x))
<1>1. \A S, T : IsFiniteSet(T) /\ S \subseteq T =>
        /\ IsFiniteSet(S) /\ Cardinality(S) \in Nat /\ Cardinality(T) \in Nat
        /\ (S # T => Cardinality(S) < Cardinality(T))
  BY FS_Subset, FS_CardinalityType
<1>2. Before(f, x) \subseteq DOMAIN f /\ x \notin Before(f, x)
  BY DEF Before, Sortable
<1>3. IsFiniteSet(Before(f, x)) /\ Cardinality(Before(f, x)) \in Nat
      /\ Cardinality(Before(f, x)) < Cardinality(DOMAIN f)
  <2>1. Before(f, x) # DOMAIN f /\ IsFiniteSet(DOMAIN f)
    BY <1>2 DEF Sortable
  <2>. QED  BY <1>1, <1>2, <2>1
<1>4. ASSUME NEW y \in Before(f, x) PROVE Cardinality(Before(f, y)) < Cardinality(Before(f, x))
  <2>1. Before(f, y) \subseteq Before(f, x) /\ y \notin Before(f, y)
    BY DEF Before, Sortable
  <2>2. Before(f, y) # Before(f, x)
    BY <2>1
  <2>. QED  BY <1>1, <1>3, <2>1, <2>2
<1>. QED  BY <1>2, <1>3, <1>4

\* q numbers the domain of f in the order Sorted puts it in.
Arranges(q, f) ==
  /\ q \in [1..Cardinality(DOMAIN f) -> DOMAIN f]
  /\ Sorted(f) = [k \in 1..Cardinality(DOMAIN f) |-> f[q[k]]]
  /\ \A k \in 1..Cardinality(DOMAIN f) : Cardinality(Before(f, q[k])) = k - 1
  /\ \A x \in DOMAIN f : \E k \in 1..Cardinality(DOMAIN f) : q[k] = x

\* Sorted is a permutation of f in which every value has as many before it as
\* its place says.
LEMMA SortedArranges ==
  ASSUME NEW f, Sortable(f)
  PROVE  \E q : Arranges(q, f)
<1>. DEFINE D == DOMAIN f
            n == Cardinality(D)
            r == [x \in D |-> Cardinality(Before(f, x))]
            q == [k \in 1..n |-> CHOOSE x \in D : Cardinality(Before(f, x)) = k - 1]
<1>1. IsFiniteSet(D) /\ n \in Nat
  BY FS_CardinalityType DEF Sortable
<1>2. \A x \in D : r[x] = Cardinality(Before(f, x)) /\ r[x] \in Nat /\ r[x] < n
  BY BeforeIsSmaller
<1>3. \A x, y \in D : y \in Before(f, x) => r[y] < r[x]
  BY BeforeIsSmaller
<1>4. \A x, y \in D : x # y => x \in Before(f, y) \/ y \in Before(f, x)
  BY DEF Before, Sortable
<1>. DEFINE T == 0..(n - 1)
<1>. HIDE DEF r, n, D
<1>5. r \in [D -> T]
  <2>1. \A x \in D : r[x] \in T
    BY <1>1, <1>2
  <2>. QED  BY <2>1 DEF r
<1>6. r \in Injection(D, T)
  <2>1. \A x, y \in D : r[x] = r[y] => x = y
    BY <1>2, <1>3, <1>4
  <2>. QED  BY <1>5, <2>1 DEF Injection, IsInjective
<1>7. IsFiniteSet(T) /\ Cardinality(T) = n
  BY <1>1, FS_Interval
<1>8. r \in Surjection(D, T)
  <2>1. Cardinality(D) = Cardinality(T)
    BY <1>7 DEF n
  <2>. HIDE DEF T
  <2>. QED  BY <1>6, <1>7, <2>1, FS_Injection
<1>9. ASSUME NEW k \in 1..n PROVE \E x \in D : Cardinality(Before(f, x)) = k - 1
  <2>1. k - 1 \in T
    BY <1>1
  <2>2. PICK x \in D : r[x] = k - 1
    BY <1>8, <2>1 DEF Surjection
  <2>. QED  BY <1>2, <2>2
<1>10. \A k \in 1..n : q[k] \in D /\ Cardinality(Before(f, q[k])) = k - 1
  BY <1>9
<1>11. Sorted(f) = [k \in 1..n |-> f[q[k]]]
  BY DEF Sorted, D, n
<1>. HIDE DEF q
<1>12. ASSUME NEW x \in D PROVE \E k \in 1..n : q[k] = x
  <2>1. r[x] + 1 \in 1..n /\ (r[x] + 1) - 1 = r[x]
    BY <1>1, <1>2
  <2>2. q[r[x] + 1] \in D /\ Cardinality(Before(f, q[r[x] + 1])) = r[x]
    BY <1>10, <2>1
  <2>3. r[q[r[x] + 1]] = r[x]
    BY <1>2, <2>2
  <2>4. q[r[x] + 1] = x
    BY <1>6, <2>2, <2>3 DEF Injection, IsInjective
  <2>. QED  BY <2>1, <2>4
<1>13. q \in [1..n -> D]
  BY <1>10 DEF q
<1>14. Arranges(q, f)
  BY <1>10, <1>11, <1>12, <1>13 DEF Arranges, D, n
<1>. QED  BY <1>14

(***************************************************************************)
(* The timeline: buckets in order, each with what fell into it.            *)
(***************************************************************************)
LEMMA SetIsSorted ==
  ASSUME NEW B, IsFiniteSet(B), B \subseteq Nat
  PROVE  \E s \in [1..Cardinality(B) -> B] :
           /\ Sorted([b \in B |-> b]) = s
           /\ \A i, j \in 1..Cardinality(B) : i < j => s[i] < s[j]
           /\ \A b \in B : \E k \in 1..Cardinality(B) : s[k] = b
<1>. DEFINE f == [b \in B |-> b]
            n == Cardinality(B)
<1>1. DOMAIN f = B /\ Sortable(f) /\ n \in Nat
  BY FS_CardinalityType DEF Sortable
<1>2. PICK q : Arranges(q, f)
  BY <1>1, SortedArranges
<1>3. \A x \in B : f[x] = x
  OBVIOUS
<1>. HIDE DEF f
<1>4. q \in [1..n -> B] /\ Sorted(f) = [k \in 1..n |-> f[q[k]]]
      /\ (\A k \in 1..n : Cardinality(Before(f, q[k])) = k - 1)
      /\ \A b \in B : \E k \in 1..n : q[k] = b
  BY <1>1, <1>2 DEF Arranges
<1>. HIDE DEF n
<1>5. Sorted(f) = q
  <2>1. \A k \in 1..n : f[q[k]] = q[k]
    BY <1>3, <1>4
  <2>. QED  BY <1>4, <2>1
<1>6. ASSUME NEW i \in 1..n, NEW j \in 1..n, i < j PROVE q[i] < q[j]
  <2>1. q[i] # q[j] /\ q[i] \in B /\ q[j] \in B
    BY <1>1, <1>4, <1>6
  <2>2. ASSUME q[j] < q[i] PROVE FALSE
    <3>1. q[j] \in Before(f, q[i])
      BY <1>1, <1>3, <2>1, <2>2 DEF Before
    <3>2. Cardinality(Before(f, q[j])) < Cardinality(Before(f, q[i]))
      BY <1>1, <2>1, <3>1, BeforeIsSmaller
    <3>. QED  BY <1>1, <1>4, <1>6, <3>2
  <2>3. q[i] \in Nat /\ q[j] \in Nat
    BY <2>1
  <2>. QED  BY <2>1, <2>2, <2>3
<1>. QED  BY <1>4, <1>5, <1>6 DEF f, n

InOrder(s) == \A i, j \in 1..Len(s) : i < j => s[i].time < s[j].time

LEMMA BucketIsNatural == \A t \in Nat : Bucket(t) \in Nat
<1>1. Granularity \in Nat /\ Granularity > 0
  BY TemporalAssumption
<1>. QED  BY <1>1 DEF Bucket

\* A timeline is in order of time, and its counts add up to the number of
\* times it was made from.
LEMMA PointsAreTheTimes ==
  ASSUME NEW times, IsFiniteSet(DOMAIN times), \A i \in DOMAIN times : times[i] \in Nat
  PROVE  /\ Points(times) \in Seq(Point) /\ InOrder(Points(times))
         /\ Total(Points(times)) = Cardinality(DOMAIN times)
<1>. DEFINE D == DOMAIN times
            h == [i \in D |-> Bucket(times[i])]
            B == {Bucket(times[i]) : i \in D}
            Fell(b) == {i \in D : Bucket(times[i]) = b}
            n == Cardinality(B)
<1>1. B \subseteq Nat
  BY BucketIsNatural
<1>2. IsFiniteSet(B)
  <2>1. B = {h[i] : i \in D}
    OBVIOUS
  <2>. HIDE DEF h, B
  <2>. QED  BY <2>1, ImageIsFinite
<1>3. \A i \in D : Bucket(times[i]) \in B
  OBVIOUS
<1>4. \A b : IsFiniteSet(Fell(b)) /\ Cardinality(Fell(b)) \in Nat
  BY FS_Subset, FS_CardinalityType
<1>5. Points(times) = LET buckets == Sorted([b \in B |-> b])
                      IN  [k \in DOMAIN buckets |->
                             [time |-> buckets[k], count |-> Cardinality(Fell(buckets[k]))]]
  BY DEF Points
<1>. HIDE DEF B, n
<1>6. PICK s \in [1..n -> B] :
           /\ Sorted([b \in B |-> b]) = s
           /\ \A i, j \in 1..n : i < j => s[i] < s[j]
           /\ \A b \in B : \E k \in 1..n : s[k] = b
  BY <1>1, <1>2, SetIsSorted DEF n
<1>7. n \in Nat
  BY <1>2, FS_CardinalityType DEF n
<1>. DEFINE p == Points(times)
            c == [k \in 1..n |-> Fell(s[k])]
<1>8. p = [k \in 1..n |-> [time |-> s[k], count |-> Cardinality(Fell(s[k]))]]
  BY <1>5, <1>6
<1>. HIDE DEF p
<1>9. \A k \in 1..n : s[k] \in Nat /\ c[k] = Fell(s[k]) /\ p[k] \in Point
                     /\ p[k].time = s[k] /\ p[k].count = Cardinality(c[k])
  BY <1>1, <1>4, <1>8 DEF Point
<1>10. p \in Seq(Point) /\ Len(p) = n
  BY <1>7, <1>8, <1>9
<1>11. InOrder(p)
  <2>1. \A i, j \in 1..n : i < j => s[i] < s[j]
    BY <1>6
  <2>2. \A i, j \in 1..n : i < j => p[i].time < p[j].time
    BY <1>9, <2>1
  <2>. QED  BY <1>10, <2>2 DEF InOrder
<1>12. Total(p) = AddUp(CountsOf(p), 1..n)
  BY <1>10, TotalIsSum
<1>13. \A k \in 1..n : CountsOf(p)[k] = Cardinality(c[k])
  BY <1>9, <1>10 DEF CountsOf
<1>14. KeptApart(c, 1..n)
  <2>1. ASSUME NEW i \in 1..n, NEW j \in 1..n, i # j PROVE c[i] \cap c[j] = {}
    <3>1. s[i] # s[j]
      <4>1. i < j \/ j < i
        BY <1>7, <2>1
      <4>2. s[i] < s[j] \/ s[j] < s[i]
        BY <1>6, <4>1
      <4>3. s[i] \in Nat /\ s[j] \in Nat
        BY <1>9
      <4>. QED  BY <4>2, <4>3
    <3>. QED  BY <1>9, <3>1
  <2>. QED  BY <2>1 DEF KeptApart
<1>15. UNION {c[k] : k \in 1..n} = D
  <2>1. \A k \in 1..n : c[k] \subseteq D
    BY <1>9
  <2>2. ASSUME NEW i \in D PROVE \E k \in 1..n : i \in c[k]
    <3>1. PICK k \in 1..n : s[k] = Bucket(times[i])
      BY <1>3, <1>6
    <3>. QED  BY <1>9, <3>1
  <2>. QED  BY <2>1, <2>2
<1>16. IsFiniteSet(1..n) /\ \A k \in 1..n : IsFiniteSet(c[k])
  <2>1. IsFiniteSet(1..n)
    BY <1>7, FS_Interval
  <2>. QED  BY <1>4, <1>9, <2>1
<1>. HIDE DEF c
<1>17. AddUp(CountsOf(p), 1..n) = Cardinality(UNION {c[k] : k \in 1..n})
  BY <1>13, <1>14, <1>16, SumOfSizes
<1>18. Total(p) = Cardinality(D)
  BY <1>12, <1>15, <1>17
<1>. QED  BY <1>10, <1>11, <1>18 DEF p
-----------------------------------------------------------------------------
(***************************************************************************)
(* What falls inside the window.                                           *)
(***************************************************************************)
\* Strictly between the first and the last interaction of the copy, where one
\* without a time takes a bound away.
Between(t) ==
  /\ \E j \in DOMAIN traffic : Time(j) < t \/ Time(j) = NoTime
  /\ \/ \E k \in DOMAIN traffic : t < Time(k)
     \/ \A k \in DOMAIN traffic : Time(k) = NoTime
Inside == {i \in DOMAIN traffic : Between(Time(i))}
Arrived == {i \in DOMAIN Arrivals : Between(Arrivals[i].time)}

\* The window found spans the copy; the timeline counts what is strictly
\* inside, and of what arrived only what is inside too.
Timely ==
  /\ step \in {"window", "timeline", "scan", "over"}
  /\ window \in [start : Nat, end : Nat]
  /\ step = "window" => timeline = <<>>
  /\ step = "timeline" => \A t \in Nat : InWindow(t) <=> Between(t)
  /\ timeline \in Seq(Point) /\ InOrder(timeline)
  /\ step \in {"scan", "over"} =>
       Total(timeline) \in Cardinality(Inside) .. Cardinality(Inside) + Cardinality(Arrived)

TimelyInv == Copied /\ Timely

LEMMA TimesAreNatural ==
  ASSUME Copied
  PROVE  /\ \A i \in DOMAIN traffic : Time(i) \in Nat /\ i \notin DOMAIN Arrivals
         /\ \A i \in DOMAIN Arrivals : Arrivals[i].time \in Nat
         /\ IsFiniteSet(DOMAIN Arrivals)
  BY TemporalAssumption DEF Copied, TrafficTyped, Time

\* Only finitely many interactions are inside.
LEMMA InsideIsFinite ==
  ASSUME Copied
  PROVE  /\ IsFiniteSet(Inside) /\ Cardinality(Inside) \in Nat
         /\ IsFiniteSet(Arrived) /\ Cardinality(Arrived) \in Nat
<1>1. IsFiniteSet(DOMAIN traffic) /\ IsFiniteSet(DOMAIN Arrivals)
      /\ Inside \subseteq DOMAIN traffic /\ Arrived \subseteq DOMAIN Arrivals
  BY CopyIsFinite, TimesAreNatural DEF Inside, Arrived
<1>. QED  BY <1>1, FS_Subset, FS_CardinalityType

LEMMA NothingHasNoTotal == Total(<<>>) = 0 /\ <<>> \in Seq(Point) /\ InOrder(<<>>)
<1>. DEFINE e == <<>>
<1>1. e \in Seq(Point) /\ Len(e) = 0 /\ 1..Len(e) = {}
  OBVIOUS
<1>. HIDE DEF e
<1>2. Total(e) = AddUp(CountsOf(e), 1..Len(e))
  BY <1>1, TotalIsSum
<1>3. Total(e) = 0
  BY <1>1, <1>2, SumOfNone
<1>. QED  BY <1>1, <1>3 DEF InOrder, e

\* FindWindow: being in the window is being strictly between two interactions.
LEMMA WindowSpans ==
  ASSUME Copied, Timely, FindWindow
  PROVE  Timely'
<1>. USE DEF FindWindow
<1>1. traffic' = traffic /\ timeline' = timeline /\ step = "window" /\ timeline = <<>>
  BY DEF trafficVars, Timely
<1>2. Inside' = Inside /\ Arrived' = Arrived /\ \A t : Between(t)' <=> Between(t)
  BY <1>1 DEF Inside, Arrived, Between, Time
<1>3. CASE DOMAIN traffic = {}
  <2>1. step' = "over" /\ window' = window
    BY <1>3
  <2>2. Inside = {} /\ Arrived = {}
    BY <1>3 DEF Inside, Arrived, Between
  <2>3. Cardinality(Inside) = 0 /\ Cardinality(Arrived) = 0
    BY <2>2, FS_EmptySet
  <2>4. Total(timeline') \in Cardinality(Inside)' .. Cardinality(Inside)' + Cardinality(Arrived)'
    BY <1>1, <1>2, <2>3, NothingHasNoTotal
  <2>. QED  BY <1>1, <2>1, <2>4 DEF Timely
<1>4. CASE DOMAIN traffic # {}
  <2>. DEFINE S == {Time(i) : i \in DOMAIN traffic}
              f == [i \in DOMAIN traffic |-> Time(i)]
  <2>1. step' = "timeline" /\ window' = [start |-> Min(S), end |-> Max(S)]
    BY <1>4
  <2>2. S \subseteq Nat /\ S # {}
    BY <1>4, TimesAreNatural
  <2>3. IsFiniteSet(S)
    <3>1. S = {f[i] : i \in DOMAIN traffic} /\ IsFiniteSet(DOMAIN traffic)
      BY CopyIsFinite
    <3>. HIDE DEF f, S
    <3>. QED  BY <3>1, ImageIsFinite
  <2>4. /\ Max(S) \in S /\ \A x \in S : x <= Max(S)
        /\ Min(S) \in S /\ \A x \in S : Min(S) <= x
    <3>. HIDE DEF S
    <3>. QED  BY <2>2, <2>3, ExtremesExist
  <2>. DEFINE lo == Min(S)
              hi == Max(S)
  <2>5. lo \in Nat /\ hi \in Nat
    BY <2>2, <2>4
  <2>6. \A t \in Nat : Between(t) <=> (lo # 0 => lo < t) /\ (hi # 0 => t < hi)
    <3>0. \A i \in DOMAIN traffic : Time(i) \in Nat /\ lo <= Time(i) /\ Time(i) <= hi
      BY <2>4, TimesAreNatural
    <3>1. (\E j \in DOMAIN traffic : Time(j) = lo) /\ (\E k \in DOMAIN traffic : Time(k) = hi)
      BY <2>4
    <3>. HIDE DEF lo, hi, S
    <3>2. ASSUME NEW t \in Nat PROVE (\E j \in DOMAIN traffic : Time(j) < t \/ Time(j) = 0)
                                       <=> (lo # 0 => lo < t)
      BY <2>5, <3>0, <3>1
    <3>3. ASSUME NEW t \in Nat PROVE (\/ \E k \in DOMAIN traffic : t < Time(k)
                                      \/ \A k \in DOMAIN traffic : Time(k) = 0)
                                       <=> (hi # 0 => t < hi)
      BY <2>5, <3>0, <3>1
    <3>. QED  BY <3>2, <3>3 DEF Between, NoTime
  <2>. HIDE DEF lo, hi
  <2>7. \A t \in Nat : InWindow(t)' <=> Between(t)'
    BY <1>2, <2>1, <2>6 DEF InWindow, NoTime, lo, hi
  <2>8. window' \in [start : Nat, end : Nat]
    BY <2>1, <2>5 DEF lo, hi
  <2>9. timeline' \in Seq(Point) /\ InOrder(timeline)'
    BY <1>1, NothingHasNoTotal DEF InOrder
  <2>. QED  BY <2>1, <2>7, <2>8, <2>9 DEF Timely
<1>. QED  BY <1>3, <1>4

\* BuildTimeline: the timeline totals what the copy has inside and at most
\* what arrived there.
LEMMA TimelineCounts ==
  ASSUME Copied, Timely, BuildTimeline
  PROVE  Timely'
<1>1. traffic' = traffic /\ step = "timeline" /\ step' = "scan" /\ window' = window
  BY DEF trafficVars, BuildTimeline
<1>2. Inside' = Inside /\ Arrived' = Arrived
  BY <1>1 DEF Inside, Arrived, Between, Time
<1>. DEFINE Stored(new, i) == IF i \in new THEN Arrivals[i].time ELSE Time(i)
            Found(new) == {i \in DOMAIN traffic \cup new : InWindow(Stored(new, i))}
<1>3. PICK new \in SUBSET DOMAIN Arrivals :
        timeline' = Points([i \in Found(new) |-> Stored(new, i)])
  BY DEF BuildTimeline
<1>. DEFINE D == Found(new)
            times == [i \in D |-> Stored(new, i)]
<1>4. \A i \in DOMAIN traffic : i \notin new /\ Stored(new, i) = Time(i) /\ Time(i) \in Nat
  BY TimesAreNatural
<1>5. \A i \in new : i \in DOMAIN Arrivals /\ Stored(new, i) = Arrivals[i].time
                     /\ Arrivals[i].time \in Nat
  BY TimesAreNatural
<1>6. \A t \in Nat : InWindow(t) <=> Between(t)
  BY <1>1 DEF Timely
<1>7. Inside \subseteq D /\ D \subseteq Inside \cup Arrived /\ D \subseteq DOMAIN traffic \cup new
  BY <1>4, <1>5, <1>6 DEF Inside, Arrived
<1>8. \A i \in D : Stored(new, i) \in Nat
  BY <1>4, <1>5
<1>. HIDE DEF D
<1>9. IsFiniteSet(D) /\ Cardinality(D) \in Nat
      /\ Cardinality(Inside) <= Cardinality(D)
      /\ Cardinality(D) <= Cardinality(Inside) + Cardinality(Arrived)
  <2>1. IsFiniteSet(Inside) /\ IsFiniteSet(Arrived) /\ Cardinality(Inside) \in Nat
        /\ Cardinality(Arrived) \in Nat
    BY InsideIsFinite
  <2>2. IsFiniteSet(Inside \cup Arrived)
        /\ Cardinality(Inside \cup Arrived) <= Cardinality(Inside) + Cardinality(Arrived)
    <3>1. /\ IsFiniteSet(Inside \cup Arrived) /\ IsFiniteSet(Inside \cap Arrived)
          /\ Cardinality(Inside \cup Arrived)
               = Cardinality(Inside) + Cardinality(Arrived) - Cardinality(Inside \cap Arrived)
      BY <2>1, FS_Union, FS_Intersection
    <3>2. Cardinality(Inside \cap Arrived) \in Nat
      BY <3>1, FS_CardinalityType
    <3>. QED  BY <2>1, <3>1, <3>2
  <2>3. IsFiniteSet(D) /\ Cardinality(D) <= Cardinality(Inside \cup Arrived)
    BY <1>7, <2>2, FS_Subset
  <2>4. Cardinality(Inside) <= Cardinality(D)
    BY <1>7, <2>3, FS_Subset
  <2>5. Cardinality(D) \in Nat /\ Cardinality(Inside \cup Arrived) \in Nat
    BY <2>2, <2>3, FS_CardinalityType
  <2>. QED  BY <2>1, <2>2, <2>3, <2>4, <2>5
<1>10. DOMAIN times = D /\ \A i \in D : times[i] \in Nat
  BY <1>8
<1>11. timeline' = Points(times)
  BY <1>3 DEF D
<1>. HIDE DEF times
<1>12. timeline' \in Seq(Point) /\ InOrder(timeline') /\ Total(timeline') = Cardinality(D)
  BY <1>9, <1>10, <1>11, PointsAreTheTimes
<1>13. InOrder(timeline)' /\ Total(timeline)' = Cardinality(D)
  BY <1>12
<1>14. Total(timeline)' \in Cardinality(Inside)' .. Cardinality(Inside)' + Cardinality(Arrived)'
  <2>1. Cardinality(D) \in Cardinality(Inside) .. Cardinality(Inside) + Cardinality(Arrived)
    BY <1>9, InsideIsFinite
  <2>. QED  BY <1>2, <1>13, <2>1
<1>. QED  BY <1>1, <1>12, <1>13, <1>14 DEF Timely

\* A step of another analysis leaves the timeline alone.
LEMMA TimelyStays ==
  ASSUME Timely, traffic' = traffic, UNCHANGED <<window, timeline>>,
         step' = step \/ (step = "scan" /\ step' = "over")
  PROVE  Timely'
<1>1. Inside' = Inside /\ Arrived' = Arrived /\ \A t : Between(t)' <=> Between(t)
  BY DEF Inside, Arrived, Between, Time
<1>2. timeline' = timeline
  OBVIOUS
<1>3. \A t : InWindow(t)' <=> InWindow(t)
  BY DEF InWindow
<1>. QED  BY <1>1, <1>2, <1>3 DEF Timely

LEMMA TimelyStep == TimelyInv /\ [Next]_vars => TimelyInv'
<1>. SUFFICES ASSUME TimelyInv, [Next]_vars PROVE TimelyInv'
  OBVIOUS
<1>. USE DEF TimelyInv
<1>1. ASSUME UNCHANGED trafficVars, UNCHANGED <<step, window, timeline>> PROVE TimelyInv'
  BY <1>1, CopyStays, TimelyStays DEF trafficVars
<1>2. ASSUME NEW i, Take(i), UNCHANGED burstVars PROVE TimelyInv'
  BY <1>2, TakeWalks, TimelyStays DEF burstVars
<1>3. CASE ExternalNext /\ UNCHANGED <<centralityVars, temporalVars>>
  <2>1. ASSUME NEW i, CountInteraction(i) \/ CountNewcomer(i) PROVE TimelyInv'
    BY <1>2, <1>3, <2>1 DEF CountInteraction, CountNewcomer, temporalVars
  <2>2. ASSUME NEW a, LoadActor(a) PROVE TimelyInv'
    BY <1>1, <1>3, <2>2 DEF LoadActor, temporalVars, burstVars
  <2>3. CASE Summarise
    BY <1>1, <1>3, <2>3 DEF Summarise, temporalVars, burstVars
  <2>. QED  BY <1>3, <2>1, <2>2, <2>3 DEF ExternalNext
<1>4. CASE CentralityNext /\ UNCHANGED <<externalVars, temporalVars>>
  <2>1. ASSUME NEW i, AddEdge(i) PROVE TimelyInv'
    BY <1>2, <1>4, <2>1 DEF AddEdge, temporalVars
  <2>2. CASE Iterate \/ ToResults
    BY <1>1, <1>4, <2>2 DEF Iterate, ToResults, temporalVars, burstVars
  <2>. QED  BY <1>4, <2>1, <2>2 DEF CentralityNext
<1>5. CASE TemporalNext
  <2>1. ASSUME NEW i, ScanInteraction(i) PROVE TimelyInv'
    BY <1>2, <2>1 DEF ScanInteraction
  <2>2. CASE FindWindow
    BY <2>2, WindowSpans, CopyStays DEF FindWindow
  <2>3. CASE BuildTimeline
    BY <2>3, TimelineCounts, CopyStays DEF BuildTimeline
  <2>4. CASE ScanPoint
    BY <1>1, <2>4 DEF ScanPoint
  <2>5. CASE EndBursts
    <3>1. traffic' = traffic /\ UNCHANGED <<window, timeline>> /\ step = "scan" /\ step' = "over"
          /\ UNCHANGED trafficVars
      BY <2>5 DEF EndBursts, trafficVars
    <3>. QED  BY <3>1, CopyStays, TimelyStays
  <2>. QED  BY <1>5, <2>1, <2>2, <2>3, <2>4, <2>5 DEF TemporalNext
<1>6. CASE UNCHANGED vars
  BY <1>1, <1>6 DEF vars, temporalVars, burstVars
<1>. QED  BY <1>3, <1>4, <1>5, <1>6 DEF Next

\* Timely says what is counted.
LEMMA TimelyImplies == TimelyInv => OnlyTheInsideIsCounted
<1>. SUFFICES ASSUME TimelyInv, step \in {"scan", "over"} PROVE OnlyTheInsideIsCounted
  BY DEF OnlyTheInsideIsCounted
<1>1. Total(timeline) \in Cardinality(Inside) .. Cardinality(Inside) + Cardinality(Arrived)
  BY DEF TimelyInv, Timely
<1>2. OnlyTheInsideIsCounted <=>
        (job = "bursts" /\ step \in {"scan", "over"} =>
           Total(timeline) \in Cardinality(Inside) .. Cardinality(Inside) + Cardinality(Arrived))
  BY DEF OnlyTheInsideIsCounted, Inside, Arrived, Between
<1>. QED  BY <1>1, <1>2

LEMMA TimelyInit == Init => TimelyInv
<1>. SUFFICES ASSUME Init PROVE TimelyInv
  OBVIOUS
<1>1. TrafficInit /\ step = "window" /\ window = [start |-> 0, end |-> 0] /\ timeline = <<>>
  BY DEF Init, TemporalInit
<1>2. window \in [start : Nat, end : Nat]
  BY <1>1
<1>. QED  BY <1>1, <1>2, CopiedInit, NothingHasNoTotal DEF TimelyInv, Timely

(***************************************************************************)
(* Whatever arrives between its two queries, BurstDetection counts what    *)
(* lies strictly inside the window the first one found, and nothing else   *)
(* but arrivals inside (analysis/temporal.go:127-153).                     *)
(***************************************************************************)
THEOREM OnlyInsideCounts == Spec => []OnlyTheInsideIsCounted
  BY TimelyInit, TimelyStep, TimelyImplies, PTL DEF Spec
-----------------------------------------------------------------------------
(***************************************************************************)
(* Response times: what is kept of the interactions walked over.           *)
(***************************************************************************)
Pairs == Actor \X Actor
Happened(p) == {i \in Walked : Pair(i) = p}

\* The time kept for a pair is the latest of those walked over.
LastKept ==
  \A p \in Pairs :
    IF Happened(p) = {} THEN last[p] = <<>>
    ELSE \E j \in Happened(p) : last[p] = <<Time(j)>> /\ \A k \in Happened(p) : Time(k) <= Time(j)

\* The walk is in order of time.
InTime == \A i \in Walked, j \in left : Time(i) <= Time(j)

Answered(s, gap) == {k \in DOMAIN s : s[k] = gap}

\* The answers of gap kept for p are as many as some set of interactions that
\* holds every certain answer walked over and only possible ones.
Witnessed(s, p, gap) ==
  \E A \in SUBSET (Walked \cap AnswersAfter(p, gap)) :
    /\ {i \in Walked \cap AnswersAfter(p, gap) : ~ Crossed(i)} \subseteq A
    /\ Cardinality(A) = Cardinality(Answered(s, gap))

AnswersKept ==
  /\ last \in [Pairs -> Seq(Nat)] /\ answers \in [Pairs -> Seq(Nat)]
  /\ \A p \in Pairs : \A gap \in 1 .. MaxGap : Witnessed(answers[p], p, gap)

ResponsesKept == LastKept /\ InTime /\ AnswersKept

\* Both directions of an interaction are pairs of actors.
LEMMA PairsArePairs ==
  ASSUME Copied
  PROVE  \A i \in DOMAIN traffic : Pair(i) \in Pairs /\ Opposite(i) \in Pairs
  BY CopyIsFinite DEF Pair, Opposite, Pairs

\* There are finitely many earlier times, so there is a latest.
LEMMA EarlierIsFinite ==
  ASSUME Copied, NEW i \in DOMAIN traffic
  PROVE  IsFiniteSet(Earlier(i)) /\ Earlier(i) \subseteq Nat
<1>. DEFINE S == {k \in DOMAIN traffic : Pair(k) = Opposite(i) /\ Time(k) < Time(i)}
            f == [k \in DOMAIN traffic |-> Time(k)]
<1>1. IsFiniteSet(S)
  BY CopyIsFinite, FS_Subset
<1>2. Earlier(i) = {f[k] : k \in S}
  BY DEF Earlier
<1>3. Earlier(i) \subseteq Nat
  BY TimesAreNatural DEF Earlier
<1>. HIDE DEF S, f
<1>. QED  BY <1>1, <1>2, <1>3, ImageIsFinite

\* The next interaction is an answer to the last one the other way, unless
\* the two cross.
LEMMA LastIsLatest ==
  ASSUME Copied, LastKept, InTime, NEW i, First(i), LastToAnswer(i) # <<>>
  PROVE  /\ \E t \in Nat : LastToAnswer(i) = <<t>> /\ t <= Time(i)
         /\ Earlier(i) # {} => Max(Earlier(i)) \in Earlier(i) /\ Max(Earlier(i)) <= LastToAnswer(i)[1]
         /\ LastToAnswer(i)[1] < Time(i) =>
              Earlier(i) # {} /\ Max(Earlier(i)) = LastToAnswer(i)[1]
         /\ LastToAnswer(i)[1] = Time(i) => Crossed(i)
<1>1. i \in left /\ i \in DOMAIN traffic /\ \A j \in left : Time(i) <= Time(j)
  BY DEF First, Copied, TrafficTyped
<1>2. PICK j \in Happened(Opposite(i)) :
         LastToAnswer(i) = <<Time(j)>> /\ \A k \in Happened(Opposite(i)) : Time(k) <= Time(j)
  BY <1>1, PairsArePairs DEF LastKept, LastToAnswer
<1>3. j \in DOMAIN traffic /\ j # i /\ Pair(j) = Opposite(i) /\ Time(j) \in Nat /\ Time(i) \in Nat
      /\ Time(j) <= Time(i) /\ LastToAnswer(i)[1] = Time(j)
  BY <1>1, <1>2, TimesAreNatural DEF Happened, Walked, InTime
<1>4. ASSUME NEW t \in Earlier(i) PROVE t <= Time(j)
  <2>1. PICK k \in DOMAIN traffic : t = Time(k) /\ Pair(k) = Opposite(i) /\ Time(k) < Time(i)
    BY <1>4 DEF Earlier
  <2>2. Time(k) \in Nat
    BY TimesAreNatural
  <2>3. k \in Walked
    BY <1>1, <1>3, <2>1, <2>2 DEF Walked
  <2>. QED  BY <1>2, <2>1, <2>3 DEF Happened
<1>5. Earlier(i) # {} => /\ Max(Earlier(i)) \in Earlier(i)
                         /\ \A t \in Earlier(i) : t <= Max(Earlier(i))
  BY <1>1, EarlierIsFinite, ExtremesExist
<1>6. Time(j) < Time(i) => Time(j) \in Earlier(i)
  BY <1>3 DEF Earlier
<1>7. Time(j) < Time(i) => Earlier(i) # {} /\ Max(Earlier(i)) = Time(j)
  <2>1. SUFFICES ASSUME Time(j) < Time(i) PROVE Earlier(i) # {} /\ Max(Earlier(i)) = Time(j)
    OBVIOUS
  <2>2. Time(j) \in Earlier(i)
    BY <1>6, <2>1
  <2>3. Max(Earlier(i)) <= Time(j) /\ Time(j) <= Max(Earlier(i)) /\ Max(Earlier(i)) \in Nat
    BY <1>1, <1>4, <1>5, <2>2, EarlierIsFinite
  <2>. QED  BY <1>3, <2>2, <2>3
<1>8. Time(j) = Time(i) => Crossed(i)
  BY <1>3 DEF Crossed
<1>. QED  BY <1>2, <1>3, <1>4, <1>5, <1>7, <1>8

Gap(i) == Time(i) - LastToAnswer(i)[1]
IsAnswer(i) == LastToAnswer(i) # <<>> /\ Counts(Gap(i))

\* The next interaction counts as an answer only if it may be one, and does if
\* it must be one.
LEMMA NextAnswer ==
  ASSUME Copied, LastKept, InTime, NEW i, First(i)
  PROVE  /\ IsAnswer(i) => Gap(i) \in 1 .. MaxGap /\ i \in AnswersAfter(Pair(i), Gap(i))
         /\ \A p, gap : i \in AnswersAfter(p, gap) /\ ~ Crossed(i) =>
                          IsAnswer(i) /\ p = Pair(i) /\ gap = Gap(i)
<1>1. i \in left /\ i \in DOMAIN traffic /\ \A j \in left : Time(i) <= Time(j)
  BY DEF First, Copied, TrafficTyped
<1>2. Time(i) \in Nat /\ MaxGap \in Nat
  BY <1>1, TimesAreNatural, TemporalAssumption
<1>3. ASSUME IsAnswer(i)
      PROVE  Gap(i) \in 1 .. MaxGap /\ i \in AnswersAfter(Pair(i), Gap(i))
  <2>1. PICK t \in Nat : LastToAnswer(i) = <<t>> /\ t <= Time(i)
    BY <1>3, LastIsLatest DEF IsAnswer
  <2>2. Gap(i) = Time(i) - t /\ LastToAnswer(i)[1] = t
    BY <2>1 DEF Gap
  <2>3. Gap(i) > 0 /\ Gap(i) < MaxGap
    BY <1>3 DEF IsAnswer, Counts
  <2>4. LastToAnswer(i)[1] < Time(i)
    BY <1>2, <2>2, <2>3
  <2>5. Earlier(i) # {} /\ Max(Earlier(i)) = t
    BY <1>3, <2>2, <2>4, LastIsLatest DEF IsAnswer
  <2>6. i \in AnswersAfter(Pair(i), Gap(i))
    BY <1>1, <1>3, <2>2, <2>5 DEF AnswersAfter, IsAnswer
  <2>. QED  BY <1>2, <2>2, <2>3, <2>6
<1>4. ASSUME NEW p, NEW gap, i \in AnswersAfter(p, gap), ~ Crossed(i)
      PROVE  IsAnswer(i) /\ p = Pair(i) /\ gap = Gap(i)
  <2>1. p = Pair(i) /\ Counts(gap) /\ Earlier(i) # {} /\ gap = Time(i) - Max(Earlier(i))
    BY <1>4 DEF AnswersAfter
  <2>2. PICK k \in DOMAIN traffic : Pair(k) = Opposite(i) /\ Time(k) < Time(i)
    BY <2>1 DEF Earlier
  <2>3. k \in Happened(Opposite(i))
    <3>1. Time(k) \in Nat
      BY TimesAreNatural
    <3>. QED  BY <1>1, <1>2, <2>2, <3>1 DEF Happened, Walked
  <2>4. LastToAnswer(i) # <<>>
    <3>1. PICK j \in Happened(Opposite(i)) : LastToAnswer(i) = <<Time(j)>>
      BY <1>1, <2>3, PairsArePairs DEF LastKept, LastToAnswer
    <3>. QED  BY <3>1
  <2>5. PICK t \in Nat : LastToAnswer(i) = <<t>> /\ t <= Time(i)
    BY <2>4, LastIsLatest
  <2>6. LastToAnswer(i)[1] = t
    BY <2>5
  <2>7. t # Time(i)
    BY <1>4, <2>4, <2>6, LastIsLatest
  <2>8. Max(Earlier(i)) = t
    <3>1. LastToAnswer(i)[1] < Time(i)
      BY <1>2, <2>5, <2>6, <2>7
    <3>2. Max(Earlier(i)) = LastToAnswer(i)[1]
      BY <2>4, <3>1, LastIsLatest
    <3>. QED  BY <2>6, <3>2
  <2>9. gap = Gap(i)
    BY <2>1, <2>6, <2>8 DEF Gap
  <2>. QED  BY <2>1, <2>4, <2>9 DEF IsAnswer
<1>. QED  BY <1>3, <1>4

\* What counts as an answer depends on the copy alone.
LEMMA SameAnswers ==
  ASSUME traffic' = traffic
  PROVE  /\ \A i : Time(i)' = Time(i) /\ Pair(i)' = Pair(i) /\ (Crossed(i)' <=> Crossed(i))
         /\ \A p, gap : AnswersAfter(p, gap)' = AnswersAfter(p, gap)
<1>1. \A i : Time(i)' = Time(i) /\ Pair(i)' = Pair(i) /\ Opposite(i)' = Opposite(i)
  BY DEF Time, Pair, Opposite
<1>2. \A i : Crossed(i)' <=> Crossed(i)
  BY <1>1 DEF Crossed
<1>3. \A i : Earlier(i)' = Earlier(i)
  BY <1>1 DEF Earlier
<1>. QED  BY <1>1, <1>2, <1>3 DEF AnswersAfter

\* ScanInteraction keeps the times kept the latest, and the walk in order.
LEMMA LastStays ==
  ASSUME Copied, ResponsesKept, NEW i, ScanInteraction(i)
  PROVE  LastKept' /\ InTime' /\ last' \in [Pairs -> Seq(Nat)]
<1>1. /\ First(i) /\ Take(i) /\ i \in left /\ i \in DOMAIN traffic /\ traffic' = traffic
      /\ last' = [last EXCEPT ![Pair(i)] = <<Time(i)>>]
      /\ \A j \in left : Time(i) <= Time(j)
  BY DEF ScanInteraction, First, Take, Copied, TrafficTyped
<1>2. Walked' = Walked \cup {i} /\ left' \subseteq left
  BY <1>1, TakeWalks DEF Take
<1>3. \A j : Time(j)' = Time(j) /\ Pair(j)' = Pair(j)
  BY <1>1, SameAnswers
<1>4. Time(i) \in Nat /\ Pair(i) \in Pairs
  BY <1>1, TimesAreNatural, PairsArePairs
<1>5. last \in [Pairs -> Seq(Nat)] /\ LastKept /\ InTime
  BY DEF ResponsesKept, AnswersKept
<1>6. <<Time(i)>> \in Seq(Nat) /\ Time(i) <= Time(i)
  BY <1>4
<1>7. last' \in [Pairs -> Seq(Nat)] /\ last'[Pair(i)] = <<Time(i)>>
      /\ \A p \in Pairs : p # Pair(i) => last'[p] = last[p]
  BY <1>1, <1>4, <1>5, <1>6
<1>8. InTime'
  <2>1. ASSUME NEW k \in Walked', NEW j \in left' PROVE Time(k) <= Time(j)
    BY <1>1, <1>2, <1>5, <2>1 DEF InTime
  <2>. QED  BY <1>3, <2>1 DEF InTime
<1>9. \A p : Happened(p)' = IF p = Pair(i) THEN Happened(p) \cup {i} ELSE Happened(p)
  BY <1>2, <1>3 DEF Happened
<1>10. ASSUME NEW p \in Pairs
       PROVE  IF Happened(p)' = {} THEN last'[p] = <<>>
              ELSE \E j \in Happened(p)' :
                     last'[p] = <<Time(j)>> /\ \A k \in Happened(p)' : Time(k) <= Time(j)
  <2>1. CASE p = Pair(i)
    <3>1. \A k \in Happened(p)' : Time(k) <= Time(i)
      BY <1>1, <1>5, <1>6, <1>9, <2>1 DEF InTime, Happened
    <3>2. i \in Happened(p)'
      BY <1>9, <2>1
    <3>. QED  BY <1>7, <2>1, <3>1, <3>2
  <2>2. CASE p # Pair(i)
    <3>1. Happened(p)' = Happened(p) /\ last'[p] = last[p]
      BY <1>7, <1>9, <2>2
    <3>. QED  BY <1>5, <3>1 DEF LastKept
  <2>. QED  BY <2>1, <2>2
<1>11. LastKept'
  BY <1>3, <1>10 DEF LastKept
<1>. QED  BY <1>7, <1>8, <1>11

\* An answer appended is one more of its gap and of no other.
LEMMA OneMoreAnswer ==
  ASSUME NEW s \in Seq(Nat), NEW g \in Nat
  PROVE  /\ Append(s, g) \in Seq(Nat)
         /\ Cardinality(Answered(Append(s, g), g)) = Cardinality(Answered(s, g)) + 1
         /\ \A h : h # g => Answered(Append(s, g), h) = Answered(s, h)
<1>. DEFINE t == Append(s, g)
            n == Len(s)
<1>1. n \in Nat /\ t \in Seq(Nat) /\ DOMAIN s = 1..n /\ DOMAIN t = 1..(n + 1) /\ t[n + 1] = g
      /\ \A k \in 1..n : t[k] = s[k]
  OBVIOUS
<1>. HIDE DEF t, n
<1>2. 1..(n + 1) = 1..n \cup {n + 1} /\ n + 1 \notin 1..n
  BY <1>1
<1>3. \A h : h # g => Answered(t, h) = Answered(s, h)
  BY <1>1, <1>2 DEF Answered
<1>4. Answered(t, g) = Answered(s, g) \cup {n + 1} /\ n + 1 \notin Answered(s, g)
  BY <1>1, <1>2 DEF Answered
<1>5. IsFiniteSet(Answered(s, g))
  <2>1. IsFiniteSet(1..n) /\ Answered(s, g) \subseteq 1..n
    BY <1>1, FS_Interval DEF Answered
  <2>. QED  BY <2>1, FS_Subset
<1>6. Cardinality(Answered(t, g)) = Cardinality(Answered(s, g)) + 1
  BY <1>4, <1>5, FS_AddElement
<1>. QED  BY <1>1, <1>3, <1>6 DEF t

\* ScanInteraction keeps every gap witnessed.
LEMMA AnswersStay ==
  ASSUME Copied, ResponsesKept, NEW i, ScanInteraction(i)
  PROVE  AnswersKept'
<1>1. /\ First(i) /\ Take(i) /\ i \in left /\ i \in DOMAIN traffic /\ traffic' = traffic
      /\ answers' = IF IsAnswer(i) THEN [answers EXCEPT ![Pair(i)] = Append(@, Gap(i))] ELSE answers
  BY DEF ScanInteraction, First, Copied, TrafficTyped, Take, IsAnswer, Gap
<1>2. Walked' = Walked \cup {i} /\ i \notin Walked /\ Walked \subseteq DOMAIN traffic
      /\ IsFiniteSet(Walked)
  BY <1>1, TakeWalks, CopyIsFinite
<1>3. /\ \A j : Crossed(j)' <=> Crossed(j)
      /\ \A p, gap : AnswersAfter(p, gap)' = AnswersAfter(p, gap)
  BY <1>1, SameAnswers
<1>4. answers \in [Pairs -> Seq(Nat)] /\ LastKept /\ InTime /\ Pair(i) \in Pairs
      /\ \A p \in Pairs : \A gap \in 1 .. MaxGap : Witnessed(answers[p], p, gap)
  BY <1>1, PairsArePairs DEF ResponsesKept, AnswersKept
<1>5. IsAnswer(i) => Gap(i) \in 1 .. MaxGap /\ i \in AnswersAfter(Pair(i), Gap(i))
  BY <1>1, <1>4, NextAnswer
<1>6. \A p, gap : i \in AnswersAfter(p, gap) /\ ~ Crossed(i) =>
                    IsAnswer(i) /\ p = Pair(i) /\ gap = Gap(i)
  BY <1>1, <1>4, NextAnswer
<1>7. MaxGap \in Nat
  BY TemporalAssumption
<1>8. answers' \in [Pairs -> Seq(Nat)]
  <2>1. CASE IsAnswer(i)
    <3>1. Gap(i) \in Nat
      BY <1>5, <1>7, <2>1
    <3>2. Append(answers[Pair(i)], Gap(i)) \in Seq(Nat)
      BY <1>4, <3>1
    <3>. QED  BY <1>1, <1>4, <2>1, <3>2
  <2>. QED  BY <1>1, <1>4, <2>1
<1>. DEFINE More(p, gap) == (Walked \cup {i}) \cap AnswersAfter(p, gap)
            Sure(p, gap) == {j \in More(p, gap) : ~ Crossed(j)}
<1>9. ASSUME NEW p \in Pairs, NEW gap \in 1 .. MaxGap
      PROVE  \E A \in SUBSET More(p, gap) :
               Sure(p, gap) \subseteq A /\ Cardinality(A) = Cardinality(Answered(answers'[p], gap))
  <2>. DEFINE N == Walked \cap AnswersAfter(p, gap)
              S == {j \in N : ~ Crossed(j)}
  <2>1. PICK A \in SUBSET N : S \subseteq A /\ Cardinality(A) = Cardinality(Answered(answers[p], gap))
    BY <1>4 DEF Witnessed
  <2>2. IsFiniteSet(A) /\ i \notin A
    <3>1. A \subseteq Walked
      BY <2>1
    <3>. QED  BY <1>2, <3>1, FS_Subset
  <2>4. CASE IsAnswer(i) /\ p = Pair(i) /\ gap = Gap(i)
    <3>. DEFINE B == A \cup {i}
    <3>1. B \in SUBSET More(p, gap) /\ Sure(p, gap) \subseteq B
      BY <1>5, <2>1, <2>4
    <3>2. Cardinality(B) = Cardinality(A) + 1
      BY <2>2, FS_AddElement
    <3>3. answers'[p] = Append(answers[p], gap)
      BY <1>1, <1>4, <2>4
    <3>4. Cardinality(Answered(answers'[p], gap)) = Cardinality(Answered(answers[p], gap)) + 1
      <4>1. answers[p] \in Seq(Nat) /\ gap \in Nat
        BY <1>4, <1>7
      <4>. QED  BY <3>3, <4>1, OneMoreAnswer
    <3>5. Cardinality(B) = Cardinality(Answered(answers'[p], gap))
      BY <2>1, <3>2, <3>4
    <3>. HIDE DEF B, More, Sure
    <3>. QED  BY <3>1, <3>5
  <2>5. CASE ~ (IsAnswer(i) /\ p = Pair(i) /\ gap = Gap(i))
    <3>1. A \in SUBSET More(p, gap) /\ Sure(p, gap) \subseteq A
      BY <1>6, <2>1, <2>5
    <3>2. Answered(answers'[p], gap) = Answered(answers[p], gap)
      <4>1. CASE IsAnswer(i) /\ p = Pair(i)
        <5>1. answers'[p] = Append(answers[p], Gap(i)) /\ gap # Gap(i)
          BY <1>1, <1>4, <2>5, <4>1
        <5>2. answers[p] \in Seq(Nat) /\ Gap(i) \in Nat
          BY <1>4, <1>5, <1>7, <4>1
        <5>. QED  BY <5>1, <5>2, OneMoreAnswer
      <4>2. CASE ~ (IsAnswer(i) /\ p = Pair(i))
        <5>1. answers'[p] = answers[p]
          BY <1>1, <1>4, <4>2
        <5>. QED  BY <5>1
      <4>. QED  BY <4>1, <4>2
    <3>3. Cardinality(A) = Cardinality(Answered(answers'[p], gap))
      BY <2>1, <3>2
    <3>. HIDE DEF More, Sure
    <3>. QED  BY <3>1, <3>3
  <2>. QED  BY <2>4, <2>5
<1>10. \A p, gap : /\ More(p, gap) = (Walked \cap AnswersAfter(p, gap))'
                   /\ Sure(p, gap) = {j \in Walked \cap AnswersAfter(p, gap) : ~ Crossed(j)}'
  BY <1>2, <1>3
<1>. HIDE DEF More, Sure
<1>11. ASSUME NEW p \in Pairs, NEW gap \in 1 .. MaxGap PROVE Witnessed(answers[p], p, gap)'
  BY <1>9, <1>10 DEF Witnessed
<1>12. last' \in [Pairs -> Seq(Nat)]
  BY LastStays
<1>. QED  BY <1>8, <1>11, <1>12 DEF AnswersKept

\* More than half of a sequence is no greater than its median.
LEMMA MedianIsInTheMiddle ==
  ASSUME NEW s \in Seq(Nat), Len(s) >= 2
  PROVE  2 * Cardinality({k \in DOMAIN s : s[k] <= Median(s)}) > Len(s)
<1>. DEFINE n == Len(s)
            h == n \div 2
            Low == {k \in DOMAIN s : s[k] <= Median(s)}
<1>1. n \in Nat /\ DOMAIN s = 1..n /\ n >= 2 /\ IsFiniteSet(1..n) /\ \A k \in 1..n : s[k] \in Nat
  <2>1. Len(s) \in Nat /\ DOMAIN s = 1..Len(s) /\ \A k \in 1..Len(s) : s[k] \in Nat
    OBVIOUS
  <2>2. IsFiniteSet(1..Len(s))
    BY <2>1, FS_Interval
  <2>. QED  BY <2>1, <2>2
<1>2. h \in Nat /\ h + 1 \in 1..n /\ 2 * (h + 1) > n /\ Cardinality(DOMAIN s) = n
  <2>1. Cardinality(1..n) = n
    <3>1. Cardinality(1..n) = n - 1 + 1
      BY <1>1, FS_Interval
    <3>. QED  BY <1>1, <3>1
  <2>. HIDE DEF n
  <2>2. h \in Nat /\ 2 * h <= n /\ n <= 2 * h + 1
    BY <1>1
  <2>. HIDE DEF h
  <2>. QED  BY <1>1, <2>1, <2>2
<1>3. Sortable(s)
  <2>. HIDE DEF n
  <2>. QED  BY <1>1 DEF Sortable
<1>. HIDE DEF n, h
<1>4. PICK q : Arranges(q, s)
  BY <1>3, SortedArranges
<1>5. q \in [1..n -> DOMAIN s] /\ Sorted(s) = [k \in 1..n |-> s[q[k]]]
      /\ \A k \in 1..n : Cardinality(Before(s, q[k])) = k - 1
  BY <1>2, <1>4 DEF Arranges
<1>. DEFINE x == q[h + 1]
<1>6. x \in DOMAIN s /\ Median(s) = s[x] /\ Cardinality(Before(s, x)) = h
  BY <1>2, <1>5 DEF Median, n, h
<1>. HIDE DEF x
<1>7. IsFiniteSet(Before(s, x)) /\ x \notin Before(s, x)
  <2>1. IsFiniteSet(Before(s, x))
    BY <1>3, <1>6, BeforeIsSmaller
  <2>. QED  BY <1>1, <1>6, <2>1 DEF Before
<1>8. Before(s, x) \cup {x} \subseteq Low
  <2>1. \A y \in DOMAIN s : s[y] \in Nat
    BY <1>1
  <2>. QED  BY <1>6, <2>1 DEF Before
<1>9. IsFiniteSet(Low)
  BY <1>1, FS_Subset
<1>. HIDE DEF Low
<1>10. Cardinality(Before(s, x) \cup {x}) = h + 1
  BY <1>6, <1>7, FS_AddElement
<1>11. Cardinality(Low) >= h + 1 /\ Cardinality(Low) \in Nat
  BY <1>2, <1>8, <1>9, <1>10, FS_Subset, FS_CardinalityType
<1>12. 2 * Cardinality(Low) > n
  BY <1>1, <1>2, <1>11
<1>. QED  BY <1>12 DEF Low, n

AnswersInv == Copied /\ (job = "responses" => ResponsesKept)

\* When all is walked over, the witnesses are the answers of the property.
LEMMA AnswersImply == AnswersInv => AnswersAreToTheLatest
<1>. SUFFICES ASSUME AnswersInv, job = "responses", left = {},
                     NEW p \in DOMAIN answers, NEW gap \in 1 .. MaxGap
     PROVE  LET all == AnswersAfter(p, gap)
                counted == Cardinality({k \in DOMAIN answers[p] : answers[p][k] = gap})
            IN  /\ counted \in Cardinality({i \in all : ~ Crossed(i)}) .. Cardinality(all)
                /\ p \in DOMAIN Responses /\ gap = Responses[p].median =>
                     2 * Cardinality({k \in DOMAIN answers[p] : answers[p][k] <= gap})
                       > Responses[p].count
  BY DEF AnswersAreToTheLatest
<1>1. Copied /\ AnswersKept
  BY DEF AnswersInv, ResponsesKept
<1>2. answers \in [Pairs -> Seq(Nat)] /\ p \in Pairs /\ answers[p] \in Seq(Nat)
      /\ Witnessed(answers[p], p, gap)
  BY <1>1 DEF AnswersKept
<1>. DEFINE all == AnswersAfter(p, gap)
            sure == {i \in all : ~ Crossed(i)}
<1>3. Walked = DOMAIN traffic /\ IsFiniteSet(Walked)
  BY <1>1, CopyIsFinite DEF Walked
<1>4. all \subseteq Walked /\ sure \subseteq all /\ Walked \cap all = all
  BY <1>3 DEF AnswersAfter
<1>5. PICK A \in SUBSET all : sure \subseteq A /\ Cardinality(A) = Cardinality(Answered(answers[p], gap))
  <2>1. {i \in Walked \cap all : ~ Crossed(i)} = sure
    BY <1>4
  <2>. QED  BY <1>2, <1>4, <2>1 DEF Witnessed
<1>. HIDE DEF all, sure
<1>6. IsFiniteSet(all)
  BY <1>3, <1>4, FS_Subset
<1>7. IsFiniteSet(A) /\ IsFiniteSet(sure)
  BY <1>4, <1>5, <1>6, FS_Subset
<1>8. Cardinality(sure) <= Cardinality(A) /\ Cardinality(A) <= Cardinality(all)
      /\ Cardinality(sure) \in Nat /\ Cardinality(A) \in Nat /\ Cardinality(all) \in Nat
  BY <1>5, <1>6, <1>7, FS_Subset, FS_CardinalityType
<1>9. Cardinality({k \in DOMAIN answers[p] : answers[p][k] = gap})
        \in Cardinality(sure) .. Cardinality(all)
  BY <1>5, <1>8 DEF Answered
<1>10. ASSUME p \in DOMAIN Responses, gap = Responses[p].median
       PROVE  2 * Cardinality({k \in DOMAIN answers[p] : answers[p][k] <= gap}) > Responses[p].count
  <2>1. Len(answers[p]) >= 2 /\ Responses[p].count = Len(answers[p])
        /\ Responses[p].median = Median(answers[p])
    BY <1>10 DEF Responses
  <2>2. gap = Median(answers[p])
    BY <1>10, <2>1
  <2>3. 2 * Cardinality({k \in DOMAIN answers[p] : answers[p][k] <= Median(answers[p])})
          > Len(answers[p])
    BY <1>2, <2>1, MedianIsInTheMiddle
  <2>. QED  BY <2>1, <2>2, <2>3
<1>. QED  BY <1>9, <1>10 DEF all, sure

LEMMA AnswersInit == Init => AnswersInv
<1>. SUFFICES ASSUME Init PROVE AnswersInv
  OBVIOUS
<1>1. Copied /\ Walked = {} /\ last = NoTimes /\ answers = NoTimes
  BY CopiedInit DEF Init, TemporalInit
<1>2. NoTimes \in [Pairs -> Seq(Nat)] /\ \A p \in Pairs : NoTimes[p] = <<>>
  BY DEF NoTimes, Pairs
<1>3. LastKept /\ InTime
  BY <1>1, <1>2 DEF LastKept, InTime, Happened
<1>4. ASSUME NEW p, NEW gap PROVE Witnessed(<<>>, p, gap)
  <2>1. Answered(<<>>, gap) = {}
    BY DEF Answered
  <2>2. {} \in SUBSET (Walked \cap AnswersAfter(p, gap))
        /\ {i \in Walked \cap AnswersAfter(p, gap) : ~ Crossed(i)} \subseteq {}
    BY <1>1
  <2>. QED  BY <2>1, <2>2 DEF Witnessed
<1>5. AnswersKept
  BY <1>1, <1>2, <1>4 DEF AnswersKept
<1>. QED  BY <1>1, <1>3, <1>5 DEF AnswersInv, ResponsesKept

LEMMA ResponsesStay ==
  ASSUME ResponsesKept, traffic' = traffic, left' = left, UNCHANGED responseVars
  PROVE  ResponsesKept'
<1>1. Walked' = Walked /\ last' = last /\ answers' = answers
  BY DEF Walked, responseVars
<1>2. /\ \A i : Time(i)' = Time(i) /\ Pair(i)' = Pair(i) /\ (Crossed(i)' <=> Crossed(i))
      /\ \A p, gap : AnswersAfter(p, gap)' = AnswersAfter(p, gap)
  BY SameAnswers
<1>3. \A p : Happened(p)' = Happened(p)
  BY <1>1, <1>2 DEF Happened
<1>4. LastKept' /\ InTime'
  BY <1>1, <1>2, <1>3 DEF ResponsesKept, LastKept, InTime
<1>5. \A s, p, gap : Witnessed(s, p, gap)' <=> Witnessed(s, p, gap)
  BY <1>1, <1>2 DEF Witnessed
<1>6. AnswersKept'
  BY <1>1, <1>5 DEF ResponsesKept, AnswersKept
<1>. QED  BY <1>4, <1>6 DEF ResponsesKept

LEMMA AnswersStep == AnswersInv /\ [Next]_vars => AnswersInv'
<1>. SUFFICES ASSUME AnswersInv, [Next]_vars PROVE AnswersInv'
  OBVIOUS
<1>. USE DEF AnswersInv
<1>1. ASSUME UNCHANGED trafficVars, UNCHANGED responseVars PROVE AnswersInv'
  BY <1>1, CopyStays, ResponsesStay DEF trafficVars
<1>2. ASSUME NEW i, Take(i), job # "responses" PROVE AnswersInv'
  BY <1>2, TakeWalks
<1>3. CASE ExternalNext /\ UNCHANGED <<centralityVars, temporalVars>>
  <2>1. ASSUME NEW i, CountInteraction(i) \/ CountNewcomer(i) PROVE AnswersInv'
    BY <1>2, <2>1 DEF CountInteraction, CountNewcomer
  <2>2. ASSUME NEW a, LoadActor(a) PROVE AnswersInv'
    BY <1>1, <1>3, <2>2 DEF LoadActor, temporalVars
  <2>3. CASE Summarise
    BY <1>1, <1>3, <2>3 DEF Summarise, temporalVars
  <2>. QED  BY <1>3, <2>1, <2>2, <2>3 DEF ExternalNext
<1>4. CASE CentralityNext /\ UNCHANGED <<externalVars, temporalVars>>
  <2>1. ASSUME NEW i, AddEdge(i) PROVE AnswersInv'
    BY <1>2, <2>1 DEF AddEdge, DegreeJobs
  <2>2. CASE Iterate \/ ToResults
    BY <1>1, <1>4, <2>2 DEF Iterate, ToResults, temporalVars
  <2>. QED  BY <1>4, <2>1, <2>2 DEF CentralityNext
<1>5. CASE TemporalNext
  <2>1. ASSUME NEW i, ScanInteraction(i) PROVE AnswersInv'
    <3>1. job = "responses" /\ Take(i) /\ Copied /\ ResponsesKept
      BY <2>1 DEF ScanInteraction
    <3>2. Copied'
      BY <3>1, TakeWalks
    <3>3. ResponsesKept'
      BY <2>1, <3>1, LastStays, AnswersStay DEF ResponsesKept
    <3>. QED  BY <3>2, <3>3
  <2>2. CASE FindWindow \/ BuildTimeline \/ ScanPoint \/ EndBursts
    BY <1>1, <2>2 DEF FindWindow, BuildTimeline, ScanPoint, EndBursts
  <2>. QED  BY <1>5, <2>1, <2>2 DEF TemporalNext
<1>6. CASE UNCHANGED vars
  BY <1>1, <1>6 DEF vars, temporalVars
<1>. QED  BY <1>3, <1>4, <1>5, <1>6 DEF Next

(***************************************************************************)
(* In whatever order the sort leaves equal times, ResponseTimes counts for *)
(* every pair each interaction that follows one the other way, by the time *)
(* from the latest such one, and no other; only crossing interactions may  *)
(* go either way. The median is in the middle                              *)
(* (analysis/temporal.go:224-279).                                         *)
(***************************************************************************)
THEOREM AnswersAreLatest == Spec => []AnswersAreToTheLatest
  BY AnswersInit, AnswersStep, AnswersImply, PTL DEF Spec
-----------------------------------------------------------------------------
(***************************************************************************)
(* Bursts: runs of points above the threshold.                             *)
(***************************************************************************)
\* If the counts do not spread they are all the same.
LEMMA NoSpreadNoExcess ==
  ASSUME NEW s \in Seq(Point), Spread(s) = 0, NEW k \in 1..Len(s)
  PROVE  Excess(s, k) = 0
<1>. DEFINE n == Len(s)
            D == 1..Len(s)
            c == CountsOf(s)
            sq == SquaresOf(s)
            t == Total(s)
            q == Squares(s)
<1>1. n \in Nat /\ IsFiniteSet(D) /\ Cardinality(D) = n /\ k \in D
  <2>1. Len(s) \in Nat /\ IsFiniteSet(1..Len(s)) /\ k \in 1..Len(s)
    BY PointsHaveNumbers
  <2>2. Cardinality(1..Len(s)) = Len(s)
    BY <2>1, FS_Interval
  <2>. QED  BY <2>1, <2>2
<1>2. \A x \in D : c[x] = s[x].count /\ c[x] \in Nat /\ sq[x] = c[x] * c[x] /\ sq[x] \in Nat
  BY PointsHaveNumbers
<1>3. t = AddUp(c, D) /\ q = AddUp(sq, D)
  BY TotalIsSum, SquaresAreSum
<1>4. n * q - t * t = 0 /\ Excess(s, k) = n * s[k].count - t
  BY DEF Spread, Excess
<1>. HIDE DEF n, D, c, sq, t, q
<1>5. t \in Nat /\ q \in Nat
  <2>1. AddUp(c, D) \in Nat
    BY <1>1, <1>2, SumIsNatural
  <2>2. AddUp(sq, D) \in Nat
    BY <1>1, <1>2, SumIsNatural
  <2>. QED  BY <1>3, <2>1, <2>2
<1>0. IsFiniteSet(D)
  BY <1>1
<1>. DEFINE one == [x \in D |-> 1]
            nn == n * n
            nt == 0 - 2 * (n * t)
            tt == t * t
            squares == [x \in D |-> sq[x] * nn]
            mixed == [x \in D |-> c[x] * nt]
            same == [x \in D |-> one[x] * tt]
            part == [x \in D |-> squares[x] + mixed[x]]
            d == [x \in D |-> part[x] + same[x]]
<1>6. nn \in Int /\ nt \in Int /\ tt \in Int
  BY <1>1, <1>5
<1>. HIDE DEF nn, nt, tt
<1>7. \A x \in D : one[x] = 1 /\ one[x] \in Int /\ squares[x] = sq[x] * nn /\ squares[x] \in Int
                   /\ mixed[x] = c[x] * nt /\ mixed[x] \in Int /\ same[x] = one[x] * tt
                   /\ same[x] \in Int
  BY <1>2, <1>6
<1>. HIDE DEF one, squares, mixed, same
<1>8. \A x \in D : part[x] = squares[x] + mixed[x] /\ part[x] \in Int
  BY <1>7
<1>. HIDE DEF part
<1>9. \A x \in D : d[x] = part[x] + same[x] /\ d[x] \in Int
  BY <1>7, <1>8
<1>. HIDE DEF d
<1>10. AddUp(squares, D) = q * nn
  <2>1. (\A x \in D : sq[x] \in Int) /\ \A x \in D : squares[x] = sq[x] * nn
    BY <1>2, <1>7
  <2>2. AddUp(squares, D) = AddUp(sq, D) * nn
    BY <1>0, <1>6, <2>1, SumOfMultiples
  <2>. QED  BY <1>3, <2>2
<1>11. AddUp(mixed, D) = t * nt
  <2>1. (\A x \in D : c[x] \in Int) /\ \A x \in D : mixed[x] = c[x] * nt
    BY <1>2, <1>7
  <2>2. AddUp(mixed, D) = AddUp(c, D) * nt
    BY <1>0, <1>6, <2>1, SumOfMultiples
  <2>. QED  BY <1>3, <2>2
<1>12. AddUp(same, D) = n * tt
  <2>1. AddUp(one, D) = n
    BY <1>1, <1>7, SumOfOnes
  <2>2. (\A x \in D : one[x] \in Int) /\ \A x \in D : same[x] = one[x] * tt
    BY <1>7
  <2>3. AddUp(same, D) = AddUp(one, D) * tt
    BY <1>0, <1>6, <2>2, SumOfMultiples
  <2>. QED  BY <2>1, <2>3
<1>13. AddUp(d, D) = (q * nn + t * nt) + n * tt
  <2>1. AddUp(part, D) = AddUp(squares, D) + AddUp(mixed, D)
    <3>1. \A x \in D : squares[x] \in Int /\ mixed[x] \in Int /\ part[x] = squares[x] + mixed[x]
      BY <1>7, <1>8
    <3>. QED  BY <1>0, <3>1, SumOfSums
  <2>2. AddUp(d, D) = AddUp(part, D) + AddUp(same, D)
    <3>1. \A x \in D : part[x] \in Int /\ same[x] \in Int /\ d[x] = part[x] + same[x]
      BY <1>7, <1>8, <1>9
    <3>. QED  BY <1>0, <3>1, SumOfSums
  <2>. QED  BY <1>10, <1>11, <1>12, <2>1, <2>2
<1>14. (q * nn + t * nt) + n * tt = n * (n * q - t * t)
  BY <1>1, <1>5 DEF nn, nt, tt
<1>15. AddUp(d, D) = 0
  <2>1. n * 0 = 0
    BY <1>1
  <2>. QED  BY <1>4, <1>13, <1>14, <2>1
<1>16. ASSUME NEW x \in D PROVE d[x] = (n * c[x] - t) * (n * c[x] - t) /\ d[x] \in Nat
  <2>. DEFINE y == c[x]
  <2>1. y \in Nat /\ sq[x] = y * y
    BY <1>2
  <2>2. d[x] = ((y * y) * (n * n) + y * (0 - 2 * (n * t))) + t * t
    <3>1. d[x] = (sq[x] * nn + c[x] * nt) + one[x] * tt /\ one[x] = 1
      BY <1>7, <1>8, <1>9
    <3>2. d[x] = ((y * y) * nn + y * nt) + 1 * tt
      BY <2>1, <3>1
    <3>. QED  BY <1>6, <3>2 DEF nn, nt, tt
  <2>. HIDE DEF y
  <2>3. ((y * y) * (n * n) + y * (0 - 2 * (n * t))) + t * t = (n * y - t) * (n * y - t)
    BY <1>1, <1>5, <2>1
  <2>4. n * y - t \in Int
    BY <1>1, <1>5, <2>1
  <2>5. \A z \in Int : z * z \in Nat
    OBVIOUS
  <2>. QED  BY <2>2, <2>3, <2>4, <2>5 DEF y
<1>17. d[k] = 0
  <2>1. AddUp(d, {k}) = d[k]
    BY <1>1, <1>9, SumOfOne
  <2>2. AddUp(d, {k}) <= AddUp(d, D)
    BY <1>1, <1>16, SumOfPart
  <2>. QED  BY <1>1, <1>15, <1>16, <2>1, <2>2
<1>18. n * c[k] - t = 0
  <2>1. n * c[k] - t \in Int
    BY <1>1, <1>2, <1>5
  <2>2. \A z \in Int : z * z = 0 => z = 0
    OBVIOUS
  <2>. QED  BY <1>1, <1>16, <1>17, <2>1, <2>2
<1>. QED  BY <1>1, <1>2, <1>4, <1>18

\* The total of a run one point longer.
LEMMA TotalOfAppend ==
  ASSUME NEW s \in Seq(Point), NEW p \in Point
  PROVE  Append(s, p) \in Seq(Point) /\ Total(Append(s, p)) = Total(s) + p.count /\ Total(s) \in Nat
<1>. DEFINE u == Append(s, p)
            n == Len(s)
            f == CountsOf(u)
            g == CountsOf(s)
<1>1. u \in Seq(Point) /\ Len(u) = n + 1 /\ n \in Nat /\ u[n + 1] = p
      /\ \A k \in 1..n : u[k] = s[k]
  OBVIOUS
<1>2. IsFiniteSet(1..n) /\ (\A k \in 1..n : g[k] = s[k].count /\ g[k] \in Nat)
  BY PointsHaveNumbers
<1>3. p.count \in Nat
  BY DEF Point
<1>. HIDE DEF u
<1>4. \A k \in 1..(n + 1) : f[k] = u[k].count /\ f[k] \in Nat
  BY <1>1, PointsHaveNumbers
<1>5. Total(u) = AddUp(f, 1..(n + 1)) /\ Total(s) = AddUp(g, 1..n)
  BY <1>1, TotalIsSum
<1>. HIDE DEF f, g, n
<1>6. 1..(n + 1) = 1..n \cup {n + 1} /\ n + 1 \notin 1..n
  BY <1>1
<1>7. AddUp(f, 1..n \cup {n + 1}) = AddUp(f, 1..n) + f[n + 1]
  <2>1. \A k \in 1..n \cup {n + 1} : f[k] \in Int
    BY <1>4, <1>6
  <2>2. IsFiniteSet(1..n) /\ n + 1 \notin 1..n
    BY <1>2, <1>6
  <2>. QED  BY <2>1, <2>2, SumOfOneMore
<1>8. AddUp(f, 1..n) = AddUp(g, 1..n)
  <2>1. \A k \in 1..n : g[k] \in Int /\ f[k] = g[k]
    BY <1>1, <1>2, <1>4
  <2>. QED  BY <1>2, <2>1, SumOfSame
<1>9. f[n + 1] = p.count
  BY <1>1, <1>4
<1>10. AddUp(g, 1..n) \in Nat
  BY <1>2, SumIsNatural
<1>. QED  BY <1>1, <1>3, <1>5, <1>6, <1>7, <1>8, <1>9, <1>10 DEF u

\* The same for the part of a timeline from one point to another.
LEMMA TotalOfMore ==
  ASSUME NEW s \in Seq(Point), NEW a \in 1..Len(s), NEW b \in Nat, a - 1 <= b, b < Len(s)
  PROVE  /\ Total(SubSeq(s, a, b + 1)) = Total(SubSeq(s, a, b)) + s[b + 1].count
         /\ Total(SubSeq(s, a, b)) \in Nat
         /\ b = a - 1 => Total(SubSeq(s, a, b)) = 0
<1>. DEFINE u == SubSeq(s, a, b)
            v == SubSeq(s, a, b + 1)
            p == s[b + 1]
<1>1. p \in Point /\ b + 1 \in 1..Len(s)
  OBVIOUS
<1>2. u \in Seq(Point) /\ v \in Seq(Point) /\ Len(u) = b - a + 1 /\ Len(v) = Len(u) + 1
      /\ v[Len(u) + 1] = p /\ \A k \in 1..Len(u) : v[k] = u[k]
  OBVIOUS
<1>. HIDE DEF u, v, p
<1>3. v = Append(u, p)
  BY <1>1, <1>2
<1>4. Total(v) = Total(u) + p.count /\ Total(u) \in Nat
  BY <1>1, <1>2, <1>3, TotalOfAppend
<1>5. b = a - 1 => u = <<>>
  BY <1>2
<1>. QED  BY <1>4, <1>5, NothingHasNoTotal DEF u, v, p

High(k) == IsHigh(timeline, k)
RunsTo(n) == {r \in Runs : r[2] < n}

\* The points from r on to the last one looked at are above the threshold,
\* the one before them is not.
Opens(r) ==
  /\ r \in 1 .. next - 1
  /\ \A k \in r .. next - 1 : High(k)
  /\ r > 1 => ~ High(r - 1)

\* The bursts b are those of the runs R, one for each.
Stand(b, R) ==
  /\ IsFiniteSet(b) /\ IsFiniteSet(R) /\ Cardinality(b) = Cardinality(R)
  /\ \A r \in R : \E x \in b : IsBurstOf(x, r)
  /\ \A x \in b : \E r \in R : IsBurstOf(x, r)

\* While the timeline is looked at, the bursts over are those of the runs
\* over, and the one open is that of the points up to the last one looked at.
Scanned ==
  /\ next \in 1 .. Len(timeline) + 1
  /\ Spread(timeline) = 0 => next = 1
  /\ burst = <<>> => next = 1 \/ ~ High(next - 1)
  /\ burst # <<>> => \E b : \E r : burst = <<b>> /\ Opens(r) /\ IsBurstOf(b, <<r, next - 1>>)
  /\ Stand(bursts, RunsTo(next - 1))

ABurst == [start : Nat, end : Nat, peak : Nat, peakCount : Nat, total : Nat]

BurstsKept ==
  /\ burst = <<>> \/ \E b \in ABurst : burst = <<b>>
  /\ bursts \subseteq ABurst
  /\ next \in Nat
  /\ DOMAIN last = Pairs /\ DOMAIN answers = Pairs
  /\ step \in {"window", "timeline"} => next = 1 /\ burst = <<>> /\ bursts = {}
  /\ step = "scan" => Scanned
  /\ step = "over" => Stand(bursts, Runs)

\* A run that begins after all others has a burst that is not among theirs.
LEMMA OneMoreStands ==
  ASSUME timeline \in Seq(Point), InOrder(timeline), NEW b, NEW R, Stand(b, R),
         NEW x, NEW r, IsBurstOf(x, r), r[1] \in DOMAIN timeline,
         \A q \in R : q[1] \in DOMAIN timeline /\ q[1] < r[1]
  PROVE  Stand(b \cup {x}, R \cup {r})
<1>1. DOMAIN timeline = 1..Len(timeline) /\ \A k \in 1..Len(timeline) : timeline[k].time \in Nat
  BY PointsHaveNumbers
<1>2. r \notin R
  BY <1>1
<1>3. x \notin b
  <2>1. SUFFICES ASSUME x \in b PROVE FALSE
    OBVIOUS
  <2>2. PICK q \in R : IsBurstOf(x, q)
    BY <2>1 DEF Stand
  <2>3. timeline[q[1]].time = timeline[r[1]].time
    BY <2>2 DEF IsBurstOf
  <2>4. timeline[q[1]].time < timeline[r[1]].time
    BY <1>1 DEF InOrder
  <2>. QED  BY <1>1, <2>3, <2>4
<1>4. IsFiniteSet(b) /\ IsFiniteSet(R) /\ Cardinality(b) = Cardinality(R)
  BY DEF Stand
<1>5. IsFiniteSet(b \cup {x}) /\ Cardinality(b \cup {x}) = Cardinality(b) + 1
  BY <1>3, <1>4, FS_AddElement
<1>6. IsFiniteSet(R \cup {r}) /\ Cardinality(R \cup {r}) = Cardinality(R) + 1
  BY <1>2, <1>4, FS_AddElement
<1>7. \A q \in R \cup {r} : \E y \in b \cup {x} : IsBurstOf(y, q)
  BY DEF Stand
<1>8. \A y \in b \cup {x} : \E q \in R \cup {r} : IsBurstOf(y, q)
  BY DEF Stand
<1>. QED  BY <1>4, <1>5, <1>6, <1>7, <1>8 DEF Stand

LEMMA RunsAre ==
  ASSUME timeline \in Seq(Point)
  PROVE  \A r : r \in Runs <=>
           \E i, j \in 1..Len(timeline) :
             /\ r = <<i, j>> /\ i <= j /\ \A k \in i .. j : High(k)
             /\ i > 1 => ~ High(i - 1)
             /\ j < Len(timeline) => ~ High(j + 1)
<1>1. DOMAIN timeline = 1..Len(timeline)
  OBVIOUS
<1>. QED  BY <1>1 DEF Runs, High

\* A run is over at the first point that is not high.
LEMMA RunEnds ==
  ASSUME timeline \in Seq(Point), InOrder(timeline), Scanned,
         next <= Len(timeline) => ~ High(next)
  PROVE  Stand(bursts \cup ToSet(burst), RunsTo(next))
<1>1. next \in Nat /\ Len(timeline) \in Nat /\ next >= 1 /\ next <= Len(timeline) + 1
      /\ DOMAIN timeline = 1..Len(timeline) /\ Stand(bursts, RunsTo(next - 1))
  BY DEF Scanned
<1>2. ASSUME NEW i \in 1..Len(timeline), NEW j \in 1..Len(timeline), <<i, j>> \in Runs
      PROVE  /\ i <= j /\ (\A k \in i .. j : High(k)) /\ (i > 1 => ~ High(i - 1))
             /\ i \in Nat /\ j \in Nat
  BY <1>2, RunsAre
<1>3. CASE burst = <<>>
  <2>1. ASSUME NEW r \in Runs, r[2] < next PROVE r[2] < next - 1
    <3>1. PICK i, j \in 1..Len(timeline) : r = <<i, j>>
      BY RunsAre
    <3>2. j # next - 1
      <4>1. SUFFICES ASSUME j = next - 1 PROVE FALSE
        OBVIOUS
      <4>2. High(j)
        BY <1>2, <3>1
      <4>3. next # 1
        BY <4>1
      <4>. QED  BY <1>3, <4>1, <4>2, <4>3 DEF Scanned
    <3>. QED  BY <1>1, <2>1, <3>1, <3>2
  <2>2. \A r \in Runs : r[2] < next - 1 => r[2] < next
    <3>1. \A r \in Runs : r[2] \in Nat
      BY RunsAre
    <3>. QED  BY <1>1, <3>1
  <2>3. RunsTo(next) = RunsTo(next - 1)
    BY <2>1, <2>2 DEF RunsTo
  <2>4. bursts \cup ToSet(burst) = bursts
    BY <1>3, ElementsOfNone
  <2>. QED  BY <1>1, <2>3, <2>4
<1>4. CASE burst # <<>>
  <2>1. PICK b, s : burst = <<b>> /\ Opens(s) /\ IsBurstOf(b, <<s, next - 1>>)
    BY <1>4 DEF Scanned
  <2>. DEFINE new == <<s, next - 1>>
  <2>2. s \in 1..Len(timeline) /\ next - 1 \in 1..Len(timeline) /\ s <= next - 1 /\ s \in Nat
    BY <1>1, <2>1 DEF Opens
  <2>3. new \in Runs
    BY <1>1, <2>1, <2>2, RunsAre DEF Opens
  <2>4. ASSUME NEW i \in 1..Len(timeline), NEW j \in 1..Len(timeline), <<i, j>> \in Runs, j < next
        PROVE  <<i, j>> = new \/ (j < next - 1 /\ i < s)
    <3>1. i <= j /\ (\A k \in i .. j : High(k)) /\ (i > 1 => ~ High(i - 1)) /\ i \in Nat /\ j \in Nat
      BY <1>2, <2>4
    <3>2. (\A k \in s .. next - 1 : High(k)) /\ (s > 1 => ~ High(s - 1))
      BY <2>1 DEF Opens
    <3>3. CASE i > s
      <4>1. i - 1 \in s .. next - 1 /\ i > 1
        BY <1>1, <2>2, <2>4, <3>1, <3>3
      <4>. QED  BY <3>1, <3>2, <4>1
    <3>4. CASE i < s
      <4>1. j < s - 1
        <5>1. SUFFICES ASSUME j >= s - 1 PROVE FALSE
          BY <2>2, <3>1
        <5>2. s - 1 \in i .. j /\ s > 1
          BY <2>2, <2>4, <3>1, <3>4, <5>1
        <5>. QED  BY <3>1, <3>2, <5>2
      <4>. QED  BY <1>1, <2>2, <3>1, <3>4, <4>1
    <3>5. CASE i = s
      <4>1. j = next - 1
        <5>1. SUFFICES ASSUME j < next - 1 PROVE FALSE
          BY <1>1, <2>4, <3>1
        <5>2. j + 1 \in s .. next - 1 /\ j < Len(timeline)
          BY <1>1, <2>2, <3>1, <3>5, <5>1
        <5>3. ~ High(j + 1)
          BY <2>4, <5>2, RunsAre
        <5>. QED  BY <3>2, <5>2, <5>3
      <4>. QED  BY <3>5, <4>1
    <3>. QED  BY <2>2, <3>1, <3>3, <3>4, <3>5
  <2>5. RunsTo(next) = RunsTo(next - 1) \cup {new}
    <3>1. ASSUME NEW r \in RunsTo(next) PROVE r \in RunsTo(next - 1) \cup {new}
      <4>1. PICK i, j \in 1..Len(timeline) : r = <<i, j>>
        BY RunsAre DEF RunsTo
      <4>. QED  BY <2>4, <4>1 DEF RunsTo
    <3>2. ASSUME NEW r \in RunsTo(next - 1) PROVE r \in RunsTo(next)
      <4>1. PICK i, j \in 1..Len(timeline) : r = <<i, j>>
        BY RunsAre DEF RunsTo
      <4>. QED  BY <1>1, <4>1 DEF RunsTo
    <3>3. new \in RunsTo(next)
      BY <1>1, <2>3 DEF RunsTo
    <3>. HIDE DEF new
    <3>. QED  BY <3>1, <3>2, <3>3
  <2>6. \A q \in RunsTo(next - 1) : q[1] \in DOMAIN timeline /\ q[1] < new[1]
    <3>1. SUFFICES ASSUME NEW q \in RunsTo(next - 1)
                   PROVE  q[1] \in DOMAIN timeline /\ q[1] < new[1]
      OBVIOUS
    <3>2. PICK i, j \in 1..Len(timeline) : q = <<i, j>>
      BY RunsAre DEF RunsTo
    <3>3. j < next - 1 /\ <<i, j>> \in Runs
      BY <3>2 DEF RunsTo
    <3>. QED  BY <1>1, <2>4, <3>2, <3>3
  <2>7. new[1] \in DOMAIN timeline /\ IsBurstOf(b, new)
    BY <1>1, <2>1, <2>2
  <2>. HIDE DEF new
  <2>8. Stand(bursts \cup {b}, RunsTo(next - 1) \cup {new})
    BY <1>1, <2>6, <2>7, OneMoreStands
  <2>9. ToSet(burst) = {b}
    BY <2>1, ElementsOfOne
  <2>. QED  BY <2>5, <2>8, <2>9
<1>. QED  BY <1>3, <1>4

\* Runs depend on the timeline alone.
LEMMA SameRuns ==
  ASSUME timeline' = timeline
  PROVE  /\ \A k : High(k)' <=> High(k)
         /\ Runs' = Runs /\ \A n : RunsTo(n)' = RunsTo(n)
         /\ \A x, r : IsBurstOf(x, r)' <=> IsBurstOf(x, r)
         /\ \A b, R : Stand(b, R)' <=> Stand(b, R)
<1>1. \A k : High(k)' <=> High(k)
  BY DEF High
<1>2. Runs' = Runs /\ \A n : RunsTo(n)' = RunsTo(n)
  BY DEF Runs, RunsTo
<1>3. \A x, r : IsBurstOf(x, r)' <=> IsBurstOf(x, r)
  BY DEF IsBurstOf
<1>4. \A b, R : Stand(b, R)' <=> Stand(b, R)
  BY <1>3 DEF Stand
<1>. QED  BY <1>1, <1>2, <1>3, <1>4

\* A first high point is a burst of its own.
LEMMA NewBurstIsOne ==
  ASSUME timeline \in Seq(Point), NEW n \in 1..Len(timeline)
  PROVE  IsBurstOf(NewBurst(timeline[n]), <<n, n>>) /\ NewBurst(timeline[n]) \in ABurst
<1>. DEFINE p == timeline[n]
            b == NewBurst(p)
<1>1. p.time \in Nat /\ p.count \in Nat /\ n \in Nat /\ Len(timeline) \in Nat
  BY PointsHaveNumbers
<1>2. b.start = p.time /\ b.end = p.time /\ b.peak = p.time /\ b.peakCount = p.count
      /\ b.total = p.count /\ b \in ABurst
  BY <1>1 DEF NewBurst, ABurst
<1>3. Total(SubSeq(timeline, n, n)) = p.count
  <2>. DEFINE m == n - 1
  <2>1. m \in Nat /\ n - 1 <= m /\ m < Len(timeline) /\ m + 1 = n
    BY <1>1
  <2>. HIDE DEF m
  <2>2. Total(SubSeq(timeline, n, m + 1)) = Total(SubSeq(timeline, n, m)) + timeline[m + 1].count
    BY <2>1, TotalOfMore
  <2>3. Total(SubSeq(timeline, n, m)) = 0
    BY <1>1, <2>1, TotalOfMore
  <2>. QED  BY <1>1, <2>1, <2>2, <2>3
<1>. HIDE DEF b
<1>4. \E k \in n .. n :
        /\ b.peak = timeline[k].time /\ b.peakCount = timeline[k].count
        /\ \A j \in n .. n : timeline[j].count <= b.peakCount
        /\ \A j \in n .. k - 1 : timeline[j].count < b.peakCount
  <2>1. n \in n .. n /\ \A j \in n .. n : j = n
    BY <1>1
  <2>2. \A j \in n .. n - 1 : FALSE
    BY <1>1
  <2>3. timeline[n].count <= b.peakCount
    BY <1>1, <1>2
  <2>. QED  BY <1>2, <2>1, <2>2, <2>3
<1>5. IsBurstOf(b, <<n, n>>)
  BY <1>2, <1>3, <1>4 DEF IsBurstOf
<1>. QED  BY <1>2, <1>5 DEF b

\* A burst extended by the next high point is that of the longer run.
LEMMA ExtendedIsOne ==
  ASSUME timeline \in Seq(Point), NEW n \in 1..Len(timeline), NEW s \in 1..n - 1,
         NEW b \in ABurst, IsBurstOf(b, <<s, n - 1>>)
  PROVE  IsBurstOf(Extend(b, timeline[n]), <<s, n>>) /\ Extend(b, timeline[n]) \in ABurst
<1>. DEFINE p == timeline[n]
            x == Extend(b, p)
<1>1. p.time \in Nat /\ p.count \in Nat /\ n \in Nat /\ s \in Nat /\ Len(timeline) \in Nat
      /\ s <= n - 1 /\ n <= Len(timeline) /\ s \in 1..Len(timeline)
  BY PointsHaveNumbers
<1>2. b.start \in Nat /\ b.end \in Nat /\ b.peak \in Nat /\ b.peakCount \in Nat /\ b.total \in Nat
  BY DEF ABurst
<1>3. /\ x.start = b.start /\ x.end = p.time /\ x.total = b.total + p.count
      /\ x.peak = IF p.count > b.peakCount THEN p.time ELSE b.peak
      /\ x.peakCount = IF p.count > b.peakCount THEN p.count ELSE b.peakCount
  BY DEF Extend
<1>4. x \in ABurst
  BY <1>1, <1>2 DEF Extend, ABurst
<1>. HIDE DEF x
<1>5. b.start = timeline[s].time /\ b.total = Total(SubSeq(timeline, s, n - 1))
  BY DEF IsBurstOf
<1>6. PICK k \in s .. n - 1 :
        /\ b.peak = timeline[k].time /\ b.peakCount = timeline[k].count
        /\ \A j \in s .. n - 1 : timeline[j].count <= b.peakCount
        /\ \A j \in s .. k - 1 : timeline[j].count < b.peakCount
  BY DEF IsBurstOf
<1>7. x.total = Total(SubSeq(timeline, s, n))
  <2>. DEFINE m == n - 1
  <2>1. m \in Nat /\ s - 1 <= m /\ m < Len(timeline) /\ m + 1 = n
    BY <1>1
  <2>2. b.total = Total(SubSeq(timeline, s, m))
    BY <1>5
  <2>. HIDE DEF m
  <2>3. Total(SubSeq(timeline, s, m + 1)) = Total(SubSeq(timeline, s, m)) + timeline[m + 1].count
    BY <1>1, <2>1, TotalOfMore
  <2>. QED  BY <1>3, <2>1, <2>2, <2>3
<1>8. \E h \in s .. n :
        /\ x.peak = timeline[h].time /\ x.peakCount = timeline[h].count
        /\ \A j \in s .. n : timeline[j].count <= x.peakCount
        /\ \A j \in s .. h - 1 : timeline[j].count < x.peakCount
  <2>0. \A j \in s .. n : (j \in s .. n - 1 \/ j = n) /\ timeline[j].count \in Nat
    <3>1. \A j \in s .. n : j \in 1..Len(timeline) /\ (j \in s .. n - 1 \/ j = n)
      BY <1>1
    <3>. QED  BY <3>1, PointsHaveNumbers
  <2>1. CASE p.count > b.peakCount
    <3>1. n \in s .. n /\ x.peak = timeline[n].time /\ x.peakCount = timeline[n].count
      BY <1>1, <1>3, <2>1
    <3>2. \A j \in s .. n - 1 : timeline[j].count <= b.peakCount /\ timeline[j].count \in Nat
      <4>1. \A j \in s .. n - 1 : j \in s .. n
        BY <1>1
      <4>. QED  BY <1>6, <2>0, <4>1
    <3>3. \A j \in s .. n - 1 : timeline[j].count < x.peakCount
      BY <1>1, <1>2, <1>3, <2>1, <3>2
    <3>4. \A j \in s .. n : timeline[j].count <= x.peakCount
      <4>1. \A j \in s .. n - 1 : timeline[j].count <= x.peakCount
        BY <1>1, <1>3, <2>1, <3>2, <3>3
      <4>2. timeline[n].count <= x.peakCount
        BY <1>1, <3>1
      <4>. QED  BY <2>0, <4>1, <4>2
    <3>. QED  BY <3>1, <3>3, <3>4
  <2>2. CASE ~ (p.count > b.peakCount)
    <3>1. x.peak = b.peak /\ x.peakCount = b.peakCount /\ p.count <= b.peakCount
      BY <1>1, <1>2, <1>3, <2>2
    <3>2. \A j \in s .. n : timeline[j].count <= x.peakCount
      BY <1>6, <2>0, <3>1
    <3>3. k \in s .. n
      BY <1>1
    <3>. QED  BY <1>6, <3>1, <3>2, <3>3
  <2>. QED  BY <2>1, <2>2
<1>9. IsBurstOf(x, <<s, n>>)
  BY <1>3, <1>5, <1>7, <1>8 DEF IsBurstOf
<1>. QED  BY <1>4, <1>9 DEF x

\* ScanPoint preserves the correspondence of bursts and runs.
LEMMA ScanKeeps ==
  ASSUME Timely, BurstsKept, ScanPoint
  PROVE  BurstsKept'
<1>1. /\ step = "scan" /\ next \in DOMAIN timeline /\ next' = next + 1 /\ step' = step
      /\ timeline' = timeline /\ last' = last /\ answers' = answers /\ Spread(timeline) > 0
  BY DEF ScanPoint, responseVars
<1>2. Scanned /\ timeline \in Seq(Point) /\ InOrder(timeline) /\ Len(timeline) \in Nat
      /\ next \in 1..Len(timeline) /\ next \in Nat
  BY <1>1 DEF BurstsKept, Timely
<1>. DEFINE p == timeline[next]
<1>3. /\ High(next) => /\ bursts' = bursts
                       /\ burst' = IF burst = <<>> THEN <<NewBurst(p)>> ELSE <<Extend(burst[1], p)>>
      /\ ~ High(next) => bursts' = bursts \cup ToSet(burst) /\ burst' = <<>>
  BY DEF ScanPoint, High
<1>4. bursts \subseteq ABurst /\ (burst = <<>> \/ \E b \in ABurst : burst = <<b>>)
      /\ DOMAIN last = Pairs /\ DOMAIN answers = Pairs
  BY DEF BurstsKept
<1>5. next' - 1 = next /\ next' \in Nat /\ next' \in 1 .. Len(timeline) + 1
  BY <1>1, <1>2
<1>6. CASE High(next)
  <2>1. RunsTo(next) = RunsTo(next - 1)
    <3>1. ASSUME NEW r \in Runs PROVE r[2] < next <=> r[2] < next - 1
      <4>1. PICK i, j \in 1..Len(timeline) :
              r = <<i, j>> /\ (j < Len(timeline) => ~ High(j + 1))
        BY <1>2, RunsAre
      <4>2. j # next - 1
        <5>1. SUFFICES ASSUME j = next - 1 PROVE FALSE
          OBVIOUS
        <5>2. j + 1 = next /\ j < Len(timeline)
          BY <1>2, <5>1
        <5>. QED  BY <1>6, <4>1, <5>2
      <4>. QED  BY <1>2, <4>1, <4>2
    <3>. QED  BY <3>1 DEF RunsTo
  <2>2. Stand(bursts, RunsTo(next))
    BY <1>2, <2>1 DEF Scanned
  <2>3. \E b \in ABurst : \E s \in 1 .. next :
          /\ burst' = <<b>> /\ (\A k \in s .. next : High(k)) /\ (s > 1 => ~ High(s - 1))
          /\ IsBurstOf(b, <<s, next>>)
    <3>1. CASE burst = <<>>
      <4>1. burst' = <<NewBurst(p)>>
        BY <1>3, <1>6, <3>1
      <4>2. next > 1 => ~ High(next - 1)
        BY <1>2, <3>1 DEF Scanned
      <4>3. IsBurstOf(NewBurst(p), <<next, next>>) /\ NewBurst(p) \in ABurst
        BY <1>2, NewBurstIsOne
      <4>4. next \in 1 .. next /\ \A k \in next .. next : High(k)
        BY <1>2, <1>6
      <4>. HIDE DEF p
      <4>. QED  BY <4>1, <4>2, <4>3, <4>4
    <3>2. CASE burst # <<>>
      <4>1. PICK b, s : burst = <<b>> /\ Opens(s) /\ IsBurstOf(b, <<s, next - 1>>)
        BY <1>2, <3>2 DEF Scanned
      <4>2. b \in ABurst
        BY <1>4, <4>1
      <4>3. s \in 1 .. next - 1 /\ (\A k \in s .. next - 1 : High(k)) /\ (s > 1 => ~ High(s - 1))
        BY <4>1 DEF Opens
      <4>4. IsBurstOf(Extend(b, p), <<s, next>>) /\ Extend(b, p) \in ABurst
        BY <1>2, <4>1, <4>2, <4>3, ExtendedIsOne
      <4>5. burst' = <<Extend(b, p)>>
        BY <1>3, <1>6, <3>2, <4>1
      <4>6. s \in 1 .. next /\ \A k \in s .. next : High(k)
        <5>1. \A k \in s .. next : k \in s .. next - 1 \/ k = next
          BY <1>2, <4>3
        <5>2. s \in 1 .. next
          BY <1>2, <4>3
        <5>. QED  BY <1>6, <4>3, <5>1, <5>2
      <4>. HIDE DEF p
      <4>. QED  BY <4>3, <4>4, <4>5, <4>6
    <3>. QED  BY <3>1, <3>2
  <2>4. PICK b \in ABurst, s \in 1 .. next :
          /\ burst' = <<b>> /\ (\A k \in s .. next : High(k)) /\ (s > 1 => ~ High(s - 1))
          /\ IsBurstOf(b, <<s, next>>)
    BY <2>3
  <2>5. Opens(s)' /\ IsBurstOf(b, <<s, next - 1>>)'
    BY <1>1, <1>5, <2>4, SameRuns DEF Opens
  <2>6. Stand(bursts, RunsTo(next - 1))'
    BY <1>1, <1>3, <1>5, <1>6, <2>2, SameRuns
  <2>7. Scanned'
    BY <1>1, <1>5, <2>4, <2>5, <2>6 DEF Scanned
  <2>. QED  BY <1>1, <1>3, <1>4, <1>5, <1>6, <2>4, <2>7 DEF BurstsKept
<1>7. CASE ~ High(next)
  <2>1. Stand(bursts \cup ToSet(burst), RunsTo(next))
    BY <1>2, <1>7, RunEnds
  <2>2. Stand(bursts, RunsTo(next - 1))'
    BY <1>1, <1>3, <1>5, <1>7, <2>1, SameRuns
  <2>3. burst' = <<>> /\ ~ High(next - 1)'
    BY <1>1, <1>3, <1>5, <1>7, SameRuns
  <2>4. Scanned'
    BY <1>1, <1>5, <2>2, <2>3 DEF Scanned
  <2>5. bursts' \subseteq ABurst
    <3>1. CASE burst = <<>>
      BY <1>3, <1>4, <1>7, <3>1, ElementsOfNone
    <3>2. CASE burst # <<>>
      <4>1. PICK b \in ABurst : burst = <<b>>
        BY <1>4, <3>2
      <4>2. ToSet(burst) = {b}
        BY <4>1, ElementsOfOne
      <4>. QED  BY <1>3, <1>4, <1>7, <4>2
    <3>. QED  BY <3>1, <3>2
  <2>. QED  BY <1>1, <1>4, <1>5, <2>3, <2>4, <2>5 DEF BurstsKept
<1>. QED  BY <1>6, <1>7

LEMMA NothingStands ==
  ASSUME NEW R, R = {} PROVE Stand({}, R)
  BY FS_EmptySet DEF Stand

\* An empty timeline has no runs.
LEMMA NoRunsInNothing ==
  ASSUME timeline \in Seq(Point), timeline = <<>>
  PROVE  Runs = {}
<1>1. Len(timeline) = 0
  OBVIOUS
<1>2. \A r : r \notin Runs
  BY <1>1, RunsAre
<1>. QED  BY <1>2

\* FindWindow: no bursts and no runs.
LEMMA WindowKeeps ==
  ASSUME Timely, BurstsKept, FindWindow
  PROVE  BurstsKept'
<1>1. /\ step = "window" /\ step' \in {"over", "timeline"} /\ timeline' = timeline /\ timeline = <<>>
      /\ timeline \in Seq(Point) /\ next' = next /\ burst' = burst /\ bursts' = bursts
      /\ last' = last /\ answers' = answers
  BY DEF FindWindow, Timely, responseVars
<1>2. bursts = {} /\ burst = <<>>
  BY <1>1 DEF BurstsKept
<1>3. Stand(bursts, Runs)'
  BY <1>1, <1>2, NoRunsInNothing, NothingStands, SameRuns
<1>. QED  BY <1>1, <1>3 DEF BurstsKept

\* BuildTimeline: nothing is looked at yet.
LEMMA TimelineKeeps ==
  ASSUME BurstsKept, Timely', BuildTimeline
  PROVE  BurstsKept'
<1>1. /\ step = "timeline" /\ step' = "scan" /\ next' = next /\ burst' = burst /\ bursts' = bursts
      /\ last' = last /\ answers' = answers
  BY DEF BuildTimeline, responseVars
<1>2. next = 1 /\ bursts = {} /\ burst = <<>>
  BY <1>1 DEF BurstsKept
<1>3. timeline' \in Seq(Point)
  BY DEF Timely
<1>4. RunsTo(next - 1)' = {}
  <2>1. \A r \in Runs' : r[2] \in Nat /\ r[2] >= 1
    <3>1. DOMAIN timeline' = 1..Len(timeline')
      BY <1>3
    <3>. QED  BY <3>1 DEF Runs
  <2>. QED  BY <1>1, <1>2, <2>1 DEF RunsTo
<1>5. Stand(bursts, RunsTo(next - 1))'
  <2>1. IsFiniteSet({}) /\ Cardinality({}) = 0
    BY FS_EmptySet
  <2>. QED  BY <1>1, <1>2, <1>4, <2>1 DEF Stand
<1>6. next' \in 1 .. Len(timeline') + 1
  <2>1. Len(timeline') \in Nat
    BY <1>3
  <2>. QED  BY <1>1, <1>2, <2>1
<1>7. Scanned'
  BY <1>1, <1>2, <1>5, <1>6 DEF Scanned
<1>. QED  BY <1>1, <1>7 DEF BurstsKept

\* EndBursts: the open burst is that of the last run; without deviation there
\* are no runs.
LEMMA EndKeeps ==
  ASSUME Timely, BurstsKept, EndBursts
  PROVE  BurstsKept'
<1>1. /\ step = "scan" /\ step' = "over" /\ timeline' = timeline /\ next' = next
      /\ bursts' = bursts \cup ToSet(burst) /\ burst' = <<>>
      /\ last' = last /\ answers' = answers
      /\ next > Len(timeline) \/ Spread(timeline) = 0
  BY DEF EndBursts, responseVars, LastBurst
<1>2. Scanned /\ timeline \in Seq(Point) /\ InOrder(timeline) /\ Len(timeline) \in Nat
      /\ next \in 1..Len(timeline) + 1 /\ next \in Nat
  <2>1. Scanned /\ timeline \in Seq(Point) /\ InOrder(timeline) /\ next \in Nat
    BY <1>1 DEF BurstsKept, Timely
  <2>2. Len(timeline) \in Nat
    BY <2>1
  <2>3. next \in 1..Len(timeline) + 1
    BY <2>1 DEF Scanned
  <2>. QED  BY <2>1, <2>2, <2>3
<1>3. Stand(bursts', Runs)
  <2>1. CASE next > Len(timeline)
    <3>1. RunsTo(next) = Runs
      <4>1. \A r \in Runs : r[2] \in 1..Len(timeline)
        BY <1>2, RunsAre
      <4>2. \A r \in Runs : r[2] < next
        BY <1>2, <2>1, <4>1
      <4>. QED  BY <4>2 DEF RunsTo
    <3>2. Stand(bursts \cup ToSet(burst), RunsTo(next))
      BY <1>2, <2>1, RunEnds
    <3>. QED  BY <1>1, <3>1, <3>2
  <2>2. CASE Spread(timeline) = 0
    <3>1. \A k \in 1..Len(timeline) : ~ High(k)
      <4>1. \A k \in 1..Len(timeline) : Excess(timeline, k) = 0
        BY <1>2, <2>2, NoSpreadNoExcess
      <4>. QED  BY <4>1 DEF High, IsHigh
    <3>2. Runs = {}
      <4>1. ASSUME NEW r \in Runs PROVE FALSE
        <5>1. PICK i, j \in 1..Len(timeline) : i <= j /\ \A k \in i .. j : High(k)
          BY <1>2, RunsAre
        <5>2. i \in i .. j
          BY <5>1
        <5>. QED  BY <3>1, <5>1, <5>2
      <4>. QED  BY <4>1
    <3>3. next = 1
      BY <1>2, <2>2 DEF Scanned
    <3>4. burst = <<>>
      <4>1. SUFFICES ASSUME burst # <<>> PROVE FALSE
        OBVIOUS
      <4>2. PICK s : Opens(s)
        BY <1>2, <4>1 DEF Scanned
      <4>. QED  BY <3>3, <4>2 DEF Opens
    <3>5. bursts = {}
      <4>1. RunsTo(next - 1) = {}
        BY <3>2 DEF RunsTo
      <4>2. IsFiniteSet(bursts) /\ Cardinality(bursts) = Cardinality({})
        BY <1>2, <4>1 DEF Scanned, Stand
      <4>. QED  BY <4>2, FS_EmptySet
    <3>6. bursts' = {}
      BY <1>1, <3>4, <3>5, ElementsOfNone
    <3>. QED  BY <3>2, <3>6, NothingStands
  <2>. QED  BY <1>1, <2>1, <2>2
<1>4. Stand(bursts, Runs)'
  BY <1>1, <1>3, SameRuns
<1>5. bursts' \subseteq ABurst
  <2>1. bursts \subseteq ABurst
    BY DEF BurstsKept
  <2>2. CASE burst = <<>>
    BY <1>1, <2>1, <2>2, ElementsOfNone
  <2>3. CASE burst # <<>>
    <3>1. PICK b \in ABurst : burst = <<b>>
      BY <2>3 DEF BurstsKept
    <3>2. ToSet(burst) = {b}
      BY <3>1, ElementsOfOne
    <3>. QED  BY <1>1, <2>1, <3>2
  <2>. QED  BY <2>2, <2>3
<1>. QED  BY <1>1, <1>2, <1>4, <1>5 DEF BurstsKept

\* Other steps leave the bursts alone.
LEMMA BurstsStay ==
  ASSUME BurstsKept, UNCHANGED burstVars,
         DOMAIN last' = DOMAIN last, DOMAIN answers' = DOMAIN answers
  PROVE  BurstsKept'
<1>1. step' = step /\ timeline' = timeline /\ next' = next /\ burst' = burst /\ bursts' = bursts
  BY DEF burstVars
<1>2. (\A r : Opens(r)' <=> Opens(r)) /\ (High(next - 1)' <=> High(next - 1))
  BY <1>1, SameRuns DEF Opens
<1>3. Scanned' <=> Scanned
  BY <1>1, <1>2, SameRuns DEF Scanned
<1>4. Stand(bursts, Runs)' <=> Stand(bursts, Runs)
  BY <1>1, SameRuns
<1>. QED  BY <1>1, <1>3, <1>4 DEF BurstsKept

BurstsInv == TimelyInv /\ BurstsKept

LEMMA BurstsStep == BurstsInv /\ [Next]_vars => BurstsInv'
<1>. SUFFICES ASSUME BurstsInv, [Next]_vars PROVE BurstsInv'
  OBVIOUS
<1>. USE DEF BurstsInv
<1>0. TimelyInv' /\ Timely /\ Timely' /\ BurstsKept
  BY TimelyStep DEF TimelyInv
<1>1. ASSUME UNCHANGED temporalVars PROVE BurstsKept'
  BY <1>0, <1>1, BurstsStay DEF temporalVars, responseVars
<1>2. CASE TemporalNext
  <2>1. ASSUME NEW i, ScanInteraction(i) PROVE BurstsKept'
    <3>1. UNCHANGED burstVars /\ DOMAIN last' = DOMAIN last /\ DOMAIN answers' = DOMAIN answers
      BY <2>1 DEF ScanInteraction
    <3>. QED  BY <1>0, <3>1, BurstsStay
  <2>. QED  BY <1>0, <1>2, <2>1, WindowKeeps, TimelineKeeps, ScanKeeps, EndKeeps DEF TemporalNext
<1>. QED  BY <1>0, <1>1, <1>2 DEF Next, vars

LEMMA BurstsInit == Init => BurstsInv
<1>. SUFFICES ASSUME Init PROVE BurstsInv
  OBVIOUS
<1>1. TimelyInv
  BY TimelyInit
<1>2. step = "window" /\ next = 1 /\ burst = <<>> /\ bursts = {} /\ last = NoTimes /\ answers = NoTimes
  BY DEF Init, TemporalInit
<1>3. DOMAIN NoTimes = Pairs
  BY DEF NoTimes, Pairs
<1>. QED  BY <1>1, <1>2, <1>3 DEF BurstsInv, BurstsKept

LEMMA BurstsImply == BurstsInv => BurstsAreMaximalRuns
<1>. SUFFICES ASSUME BurstsInv PROVE BurstsAreMaximalRuns
  OBVIOUS
<1>1. Timely /\ BurstsKept
  BY DEF BurstsInv, TimelyInv
<1>2. ToSet(timeline) \subseteq [time : Nat, count : Nat]
  <2>1. timeline \in Seq(Point)
    BY <1>1 DEF Timely
  <2>2. ToSet(timeline) \subseteq Point
    BY <2>1, ElementIndex
  <2>. QED  BY <2>2 DEF Point
<1>3. bursts \cup ToSet(burst) \subseteq ABurst
  <2>1. ToSet(burst) \subseteq ABurst
    BY <1>1, ElementsOfNone, ElementsOfOne DEF BurstsKept
  <2>. QED  BY <1>1, <2>1 DEF BurstsKept
<1>4. TemporalTyped
  BY <1>1, <1>2, <1>3 DEF TemporalTyped, Timely, BurstsKept, ABurst, Pairs
<1>5. step = "over" => /\ Cardinality(bursts) = Cardinality(Runs)
                       /\ \A r \in Runs : \E b \in bursts : IsBurstOf(b, r)
  BY <1>1 DEF BurstsKept, Stand
<1>. QED  BY <1>4, <1>5 DEF BurstsAreMaximalRuns

(***************************************************************************)
(* For any timeline, threshold and granularity detectBursts returns one    *)
(* burst for each maximal run of points above the threshold, with its      *)
(* bounds, its total and the first of its highest points                   *)
(* (analysis/temporal.go:162-213).                                         *)
(***************************************************************************)
THEOREM BurstsAreRuns == Spec => []BurstsAreMaximalRuns
  BY BurstsInit, BurstsStep, BurstsImply, PTL DEF Spec
=============================================================================
