------------------------------ MODULE Temporal ------------------------------
(***************************************************************************)
(* analysis/temporal.go: Timeline, BurstDetection and ResponseTimes.       *)
(*                                                                         *)
(* Time is a natural number of ticks.  BurstDetection asks the store a     *)
(* second time, and other goroutines may have stored more by then.  The    *)
(* code compares floating-point numbers with a mean and a standard         *)
(* deviation; here the comparison is squared and multiplied out, which     *)
(* makes it exact: with n points that add up to sum, and their squares to  *)
(* squares, a count c is more than k deviations over the mean if n*c - sum *)
(* is positive and its square more than k*k*(n*squares - sum*sum).         *)
(***************************************************************************)
EXTENDS Traffic, Integers, Sequences, SequencesExt

CONSTANTS
  Arrivals,     \* what another goroutine may store during a call: position -> interaction
  Granularity,  \* length of a bucket in ticks: 24 hours for bursts
  Threshold,    \* deviations over the mean that make a burst
  MaxGap        \* 7 days: later answers are not counted

ASSUME TemporalAssumption ==
  /\ {Granularity, Threshold, MaxGap} \subseteq Nat /\ Granularity > 0
  /\ \A j \in Jobs : \A t \in Traffics[j] : \A i \in DOMAIN t :
       t[i].time \in Nat /\ i \notin DOMAIN Arrivals
  /\ IsFiniteSet(DOMAIN Arrivals)
  /\ \A i \in DOMAIN Arrivals : Arrivals[i].time \in Nat

VARIABLES
  step,       \* "window", "timeline", "scan" or "over"
  window,     \* [start, end] found by the first query
  timeline,   \* the points in order of time
  next,       \* the point to be looked at next
  burst,      \* <<>>, or <<currentBurst>>
  bursts,     \* bursts completed
  last,       \* lastMessage: <<from, to>> -> time of the last interaction
  answers     \* responseTimes: <<from, to>> -> the times an answer took

burstVars == <<step, window, timeline, next, burst, bursts>>
responseVars == <<last, answers>>
temporalVars == <<burstVars, responseVars>>

NoTimes == [p \in Actor \X Actor |-> <<>>]

TemporalInit ==
  /\ step = "window" /\ window = [start |-> 0, end |-> 0]
  /\ timeline = <<>> /\ next = 1 /\ burst = <<>> /\ bursts = {}
  /\ last = NoTimes /\ answers = NoTimes
-----------------------------------------------------------------------------
Time(i) == traffic[i].time

\* sort.Slice: how many come before x when the domain of f is in order of its
\* values.  Which of two equal values is first makes no difference here.
Before(f, x) == {y \in DOMAIN f : f[y] < f[x] \/ (f[y] = f[x] /\ y < x)}
Sorted(f) ==
  [k \in 1 .. Cardinality(DOMAIN f) |->
     f[CHOOSE x \in DOMAIN f : Cardinality(Before(f, x)) = k - 1]]

FindWindow ==
  /\ job = "bursts" /\ step = "window"
  /\ IF DOMAIN traffic = {} THEN step' = "over" /\ UNCHANGED window
     ELSE /\ window' = [start |-> Min({Time(i) : i \in DOMAIN traffic}),
                        end   |-> Max({Time(i) : i \in DOMAIN traffic})]
          /\ step' = "timeline"
  /\ UNCHANGED <<trafficVars, timeline, next, burst, bursts, responseVars>>

\* The zero value of a time.
NoTime == 0

\* Fault: the window includes its ends.
InWindowClosed(t) == window.start <= t /\ t <= window.end

\* The store's window is open at both ends, and a zero time is no bound at all.
InWindow(t) == /\ window.start # NoTime => window.start < t
               /\ window.end # NoTime => t < window.end

Bucket(t) == t - (t % Granularity)

\* Timeline: only buckets in which something happened become points.
Points(times) ==
  LET found == {Bucket(times[i]) : i \in DOMAIN times}
      buckets == Sorted([b \in found |-> b])
  IN  [k \in DOMAIN buckets |->
        [time |-> buckets[k],
         count |-> Cardinality({i \in DOMAIN times : Bucket(times[i]) = buckets[k]})]]

\* The second query finds what the first one did and what arrived meanwhile.
BuildTimeline ==
  /\ job = "bursts" /\ step = "timeline"
  /\ \E new \in SUBSET DOMAIN Arrivals :
       LET stored(i) == IF i \in new THEN Arrivals[i].time ELSE Time(i)
           found == {i \in DOMAIN traffic \cup new : InWindow(stored(i))}
       IN  timeline' = Points([i \in found |-> stored(i)])
  /\ step' = "scan"
  /\ UNCHANGED <<trafficVars, window, next, burst, bursts, responseVars>>

Total(points) == FoldLeft(LAMBDA s, p : s + p.count, 0, points)
Squares(points) == FoldLeft(LAMBDA s, p : s + p.count * p.count, 0, points)
Spread(points) == Len(points) * Squares(points) - Total(points) * Total(points)
Excess(points, k) == Len(points) * points[k].count - Total(points)

IsHigh(points, k) ==
  /\ Excess(points, k) > 0
  /\ Excess(points, k) * Excess(points, k) > Threshold * Threshold * Spread(points)

NewBurst(p) == [start |-> p.time, end |-> p.time, peak |-> p.time,
                peakCount |-> p.count, total |-> p.count]

Extend(b, p) ==
  [start |-> b.start, end |-> p.time, total |-> b.total + p.count,
   peak |-> IF p.count > b.peakCount THEN p.time ELSE b.peak,
   peakCount |-> IF p.count > b.peakCount THEN p.count ELSE b.peakCount]

\* Points above the threshold, one after the other, are one burst.
ScanPoint ==
  /\ job = "bursts" /\ step = "scan"
  /\ next \in DOMAIN timeline
  /\ Spread(timeline) > 0
  /\ LET p == timeline[next] IN
     IF IsHigh(timeline, next)
     THEN /\ burst' = IF burst = <<>> THEN <<NewBurst(p)>> ELSE <<Extend(burst[1], p)>>
          /\ UNCHANGED bursts
     ELSE bursts' = bursts \cup ToSet(burst) /\ burst' = <<>>
  /\ next' = next + 1
  /\ UNCHANGED <<trafficVars, step, window, timeline, responseVars>>

\* Fault: a burst that is not over when the timeline ends is forgotten.
LastBurstDropped == {}

\* "Don't forget the last burst."
LastBurst == ToSet(burst)

EndBursts ==
  /\ job = "bursts" /\ step = "scan"
  /\ next > Len(timeline) \/ Spread(timeline) = 0
  /\ bursts' = bursts \cup LastBurst
  /\ burst' = <<>>
  /\ step' = "over"
  /\ UNCHANGED <<trafficVars, window, timeline, next, responseVars>>
-----------------------------------------------------------------------------
(***************************************************************************)
(* ResponseTimes walks its copy in order of time; sort.Slice leaves equal  *)
(* times in any order.                                                     *)
(***************************************************************************)
First(i) == i \in left /\ \A j \in left : Time(i) <= Time(j)
Pair(i) == <<traffic[i].from, traffic[i].to>>
Opposite(i) == <<traffic[i].to, traffic[i].from>>

\* Fault: an answer is looked for among the interactions of its own sender.
LastOfSame(i) == last[Pair(i)]

\* The last interaction the other way, if there was one.
LastToAnswer(i) == last[Opposite(i)]

Counts(gap) == gap > 0 /\ gap < MaxGap

\* Every interaction is an answer to the last one the other way, and then
\* the last one itself.
ScanInteraction(i) ==
  /\ job = "responses"
  /\ First(i) /\ Take(i)
  /\ LET gap == Time(i) - LastToAnswer(i)[1]
     IN  answers' = IF LastToAnswer(i) # <<>> /\ Counts(gap)
                    THEN [answers EXCEPT ![Pair(i)] = Append(@, gap)] ELSE answers
  /\ last' = [last EXCEPT ![Pair(i)] = <<Time(i)>>]
  /\ UNCHANGED burstVars

\* A pair is reported with two answers or more; the median is the upper one.
Median(times) == Sorted(times)[(Len(times) \div 2) + 1]
Responses ==
  [p \in {q \in DOMAIN answers : Len(answers[q]) >= 2} |->
     [count |-> Len(answers[p]), median |-> Median(answers[p])]]

TemporalNext ==
  FindWindow \/ BuildTimeline \/ ScanPoint \/ EndBursts \/ (\E i \in left : ScanInteraction(i))
-----------------------------------------------------------------------------
TemporalTyped ==
  /\ step \in {"window", "timeline", "scan", "over"} /\ next \in Nat
  /\ window \in [start : Nat, end : Nat]
  /\ ToSet(timeline) \subseteq [time : Nat, count : Nat]
  /\ bursts \cup ToSet(burst) \subseteq
       [start : Nat, end : Nat, peak : Nat, peakCount : Nat, total : Nat]
  /\ DOMAIN last = Actor \X Actor /\ DOMAIN answers = Actor \X Actor

\* The runs of points above the threshold that no neighbour extends.
Runs ==
  {r \in (DOMAIN timeline) \X (DOMAIN timeline) :
     /\ r[1] <= r[2] /\ \A k \in r[1] .. r[2] : IsHigh(timeline, k)
     /\ r[1] > 1 => ~ IsHigh(timeline, r[1] - 1)
     /\ r[2] < Len(timeline) => ~ IsHigh(timeline, r[2] + 1)}

IsBurstOf(b, r) ==
  /\ b.start = timeline[r[1]].time /\ b.end = timeline[r[2]].time
  /\ b.total = Total(SubSeq(timeline, r[1], r[2]))
  /\ \E k \in r[1] .. r[2] :
       /\ b.peak = timeline[k].time /\ b.peakCount = timeline[k].count
       /\ \A j \in r[1] .. r[2] : timeline[j].count <= b.peakCount
       /\ \A j \in r[1] .. k - 1 : timeline[j].count < b.peakCount

\* What detectBursts returns is the maximal runs of points above the
\* threshold, each once, with its total and the first of its highest points:
\* no burst is split, joined with another or lost when the timeline ends
\* in it (analysis/temporal.go:163).
BurstsAreMaximalRuns ==
  /\ TemporalTyped
  /\ job = "bursts" /\ step = "over" =>
       /\ Cardinality(bursts) = Cardinality(Runs)
       /\ \A r \in Runs : \E b \in bursts : IsBurstOf(b, r)

\* BurstDetection counts what lies strictly between the first and the last
\* interaction its first query saw, and nothing else: neither those two nor
\* anything that arrived outside, but possibly what arrived inside before the
\* second query (analysis/temporal.go:152).  Only interactions stored without
\* a time take a bound away and are counted themselves (storage/memory.go:122).
OnlyTheInsideIsCounted ==
  job = "bursts" /\ step \in {"scan", "over"} =>
    LET between(t) ==
          /\ \E j \in DOMAIN traffic : Time(j) < t \/ Time(j) = NoTime
          /\ \/ \E k \in DOMAIN traffic : t < Time(k)
             \/ \A k \in DOMAIN traffic : Time(k) = NoTime
        inside == {i \in DOMAIN traffic : between(Time(i))}
        arrived == {i \in DOMAIN Arrivals : between(Arrivals[i].time)}
    IN  Total(timeline) \in
          Cardinality(inside) .. Cardinality(inside) + Cardinality(arrived)

\* The times of interactions the other way before i.
Earlier(i) == {Time(j) : j \in {k \in DOMAIN traffic : Pair(k) = Opposite(i) /\ Time(k) < Time(i)}}

\* The interactions from p[1] to p[2] that answer one from p[2] to p[1] of
\* exactly gap earlier, the latest before them.
AnswersAfter(p, gap) ==
  {i \in DOMAIN traffic :
     /\ Pair(i) = p /\ Counts(gap)
     /\ Earlier(i) # {} /\ gap = Time(i) - Max(Earlier(i))}

\* Another interaction crosses i: at the same instant, the other way.
Crossed(i) ==
  \E j \in DOMAIN traffic : j # i /\ Time(j) = Time(i) /\ Pair(j) = Opposite(i)

\* A response time is the time from the latest earlier interaction the other
\* way, one for every interaction that has one within the limit.  Only for
\* interactions that cross at the same instant does it depend on the order
\* the sort leaves them in (analysis/temporal.go:233).  More than half of the
\* answers of a pair took no longer than its median.
AnswersAreToTheLatest ==
  job = "responses" /\ left = {} =>
    \A p \in DOMAIN answers : \A gap \in 1 .. MaxGap :
      LET all == AnswersAfter(p, gap)
          counted == Cardinality({k \in DOMAIN answers[p] : answers[p][k] = gap})
      IN  /\ counted \in Cardinality({i \in all : ~ Crossed(i)}) .. Cardinality(all)
          /\ p \in DOMAIN Responses /\ gap = Responses[p].median =>
               2 * Cardinality({k \in DOMAIN answers[p] : answers[p][k] <= gap})
                 > Responses[p].count
=============================================================================
