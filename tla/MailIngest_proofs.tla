------------------------- MODULE MailIngest_proofs --------------------------
(***************************************************************************)
(* Machine-checked facts about MailIngest, for channels of any size, every *)
(* source and any of the four calls.                                       *)
(***************************************************************************)
EXTENDS MailIngest, DataLemmas, SequenceTheorems

\* Where messages are, from the reader's hands back to the producer's.
Got == ToSet(got)
Out == ToSet(chan["out"])
Passing == ToSet(held["relay"])
Base == ToSet(chan["base"])
InHand == ToSet(held["producer"])

Everything == Got \cup Out \cup Passing \cup Base \cup InHand
Sent == Got \cup ToSet(chan[Offered])
Passed == Got \cup Out \cup Passing \cup Base

Mail == {m \in 1..Len(source) : source[m] # "bad"}
WantedMail == {m \in Mail : IsWanted(m)}

\* All wanted messages up to the last of S are in S.
Gapless(S) == \A x \in S : \A m \in WantedMail : m <= x => m \in S
AllRead(S) == \A m \in WantedMail : m < next => m \in S

ProducerLive == at["producer"] \in {"read", "send", "final"}
RelayLive == mode.incremental => at["relay"] \in {"read", "send"}

\* An error is on its way to the reader, or has reached it.
Reported == errs["out"] # <<>> \/ at["reader"] = "failed"
Evidence == Excused \/ errs["base"] # <<>> \/ Reported

(***************************************************************************)
(* Who is where: a goroutine holds a message only while it sends; channels *)
(* are closed by their owner's last steps; a call without a relay leaves   *)
(* the relay's channels alone.                                             *)
(***************************************************************************)
Places ==
  /\ at["producer"] \in {"read", "send", "final", "closing", "closed"}
  /\ at["relay"] \in {"read", "send", "errors", "closing", "closed"}
  /\ at["reader"] \in {"read", "errors", "ok", "failed"}
  /\ at["producer"] \notin {"send", "final"} => held["producer"] = <<>>
  /\ at["relay"] # "send" => held["relay"] = <<>>
  /\ <<"base", "msg">> \in closed => at["producer"] = "closed"
  /\ <<"base", "err">> \in closed => at["producer"] \in {"closing", "closed"}
  /\ <<"out", "msg">> \in closed => at["relay"] = "closed"
  /\ <<"out", "err">> \in closed => at["relay"] \in {"closing", "closed"}
  /\ ~mode.incremental =>
       at["relay"] = "closed" /\ chan["out"] = <<>> /\ errs["out"] = <<>>
  /\ next <= Len(source) + 1
  /\ at["producer"] = "final" => next = Len(source) + 1
  /\ \A c \in Channel : "ctx" \in ToSet(errs[c]) => ctx # "live"

\* The messages under way are in source order, and past the relay wanted.
Sorted ==
  /\ InOrder(got) /\ InOrder(chan["out"]) /\ InOrder(held["relay"])
  /\ InOrder(chan["base"]) /\ InOrder(held["producer"])
  /\ \A x \in Got : \A y \in Out \cup Passing \cup Base \cup InHand : x < y
  /\ \A x \in Out : \A y \in Passing \cup Base \cup InHand : x < y
  /\ \A x \in Passing : \A y \in Base \cup InHand : x < y
  /\ \A x \in Base : \A y \in InHand : x < y
  /\ Len(got) + Len(chan["out"]) + Len(held["relay"]) + Len(chan["base"])
       + Len(held["producer"]) < next
  /\ Everything \subseteq Mail
  /\ \A m \in Everything : m < next
  /\ Got \cup Out \cup Passing \subseteq WantedMail

(***************************************************************************)
(* What was dropped was dropped at the end of what is passed on, and is    *)
(* accounted for by an error or by the excuse.                             *)
(***************************************************************************)
Accounted ==
  /\ Gapless(Sent)
  /\ mode.incremental /\ RelayLive => Gapless(Passed)
  /\ ProducerLive /\ RelayLive => AllRead(Everything)
  /\ AllRead(Everything) \/ Evidence
  /\ ProducerLive \/ next > Len(source) \/ Evidence

\* How the reader can rely on closed channels.
Drained ==
  /\ at["reader"] # "read" => chan[Offered] = <<>> /\ <<Offered, "msg">> \in closed
  /\ mode.incremental /\ at["relay"] \in {"errors", "closing", "closed"} =>
       \/ Reported
       \/ chan["base"] = <<>> /\ held["relay"] = <<>> /\ <<"base", "msg">> \in closed
  /\ mode.incremental /\ at["relay"] \in {"closing", "closed"} =>
       \/ Reported
       \/ errs["base"] = <<>> /\ <<"base", "err">> \in closed

FlowInv == TypeOK /\ Places /\ Sorted /\ Accounted /\ Drained
-----------------------------------------------------------------------------
(***************************************************************************)
(* Order.                                                                  *)
(***************************************************************************)
LEMMA OrderOfConcat ==
  ASSUME NEW s \in Seq(Nat), NEW t \in Seq(Nat)
  PROVE  InOrder(s \o t) <=>
           /\ InOrder(s) /\ InOrder(t)
           /\ \A x \in ToSet(s) : \A y \in ToSet(t) : x < y
<1>1. \A i \in 1..Len(s) : (s \o t)[i] = s[i] /\ i \in 1..Len(s \o t)
  OBVIOUS
<1>2. \A i \in 1..Len(t) : (s \o t)[Len(s) + i] = t[i] /\ Len(s) + i \in 1..Len(s \o t)
  OBVIOUS
<1>3. ASSUME NEW i \in 1..Len(s \o t), i \notin 1..Len(s)
      PROVE  i > Len(s) /\ i - Len(s) \in 1..Len(t) /\ (s \o t)[i] = t[i - Len(s)]
  BY <1>3
<1>4. /\ \A x : x \in ToSet(s) <=> \E i \in 1..Len(s) : s[i] = x
      /\ \A x : x \in ToSet(t) <=> \E i \in 1..Len(t) : t[i] = x
  BY ElementIndex
<1>5. ASSUME InOrder(s \o t)
      PROVE  InOrder(s) /\ InOrder(t) /\ \A x \in ToSet(s) : \A y \in ToSet(t) : x < y
  <2>1. InOrder(s)
    BY <1>1, <1>5 DEF InOrder
  <2>2. InOrder(t)
    <3>1. ASSUME NEW i \in 1..Len(t), NEW j \in 1..Len(t), i < j PROVE t[i] < t[j]
      <4>1. Len(s) + i < Len(s) + j
        BY <3>1
      <4>. QED  BY <1>2, <1>5, <4>1 DEF InOrder
    <3>. QED  BY <3>1 DEF InOrder
  <2>3. ASSUME NEW x \in ToSet(s), NEW y \in ToSet(t) PROVE x < y
    <3>1. PICK i \in 1..Len(s) : s[i] = x
      BY <1>4
    <3>2. PICK j \in 1..Len(t) : t[j] = y
      BY <1>4
    <3>3. i < Len(s) + j
      OBVIOUS
    <3>. QED  BY <1>1, <1>2, <1>5, <3>1, <3>2, <3>3 DEF InOrder
  <2>. QED  BY <2>1, <2>2, <2>3
<1>6. ASSUME InOrder(s), InOrder(t), \A x \in ToSet(s) : \A y \in ToSet(t) : x < y
      PROVE  InOrder(s \o t)
  <2>1. ASSUME NEW i \in 1..Len(s \o t), NEW j \in 1..Len(s \o t), i < j
        PROVE  (s \o t)[i] < (s \o t)[j]
    <3>1. CASE j \in 1..Len(s)
      <4>1. i \in 1..Len(s)
        BY <2>1, <3>1
      <4>. QED  BY <1>1, <1>6, <2>1, <3>1, <4>1 DEF InOrder
    <3>2. CASE i \in 1..Len(s) /\ j \notin 1..Len(s)
      BY <1>1, <1>3, <1>4, <1>6, <3>2
    <3>3. CASE i \notin 1..Len(s)
      <4>1. j \notin 1..Len(s)
        BY <2>1, <3>3
      <4>2. i - Len(s) < j - Len(s)
        BY <2>1
      <4>. QED  BY <1>3, <1>6, <3>3, <4>1, <4>2 DEF InOrder
    <3>. QED  BY <3>1, <3>2, <3>3
  <2>. QED  BY <2>1 DEF InOrder
<1>. QED  BY <1>5, <1>6

LEMMA OrderOfOne == InOrder(<<>>) /\ \A x \in Nat : InOrder(<<x>>)
  BY DEF InOrder

LEMMA OrderOfTail ==
  ASSUME NEW s \in Seq(Nat), s # <<>>, InOrder(s)
  PROVE  InOrder(Tail(s)) /\ \A y \in ToSet(Tail(s)) : Head(s) < y
<1>. DEFINE h == <<Head(s)>>
            t == Tail(s)
<1>1. Head(s) \in Nat /\ t \in Seq(Nat) /\ s = h \o t
  BY ElementsOfTail
<1>2. h \in Seq(Nat) /\ ToSet(h) = {Head(s)}
  BY <1>1, ElementsOfOne
<1>3. InOrder(h \o t)
  BY <1>1
<1>. HIDE DEF h, t
<1>4. InOrder(t) /\ \A x \in ToSet(h) : \A y \in ToSet(t) : x < y
  BY <1>1, <1>2, <1>3, OrderOfConcat
<1>. QED  BY <1>2, <1>4 DEF t

LEMMA OrderOfAppend ==
  ASSUME NEW s \in Seq(Nat), NEW x \in Nat
  PROVE  /\ Append(s, x) \in Seq(Nat) /\ Len(Append(s, x)) = Len(s) + 1
         /\ ToSet(Append(s, x)) = ToSet(s) \cup {x}
         /\ InOrder(s) /\ (\A y \in ToSet(s) : y < x) => InOrder(Append(s, x))
<1>. DEFINE h == <<x>>
<1>1. Append(s, x) = s \o h /\ h \in Seq(Nat) /\ ToSet(h) = {x} /\ InOrder(h)
  BY OrderOfOne, ElementsOfOne
<1>2. Append(s, x) \in Seq(Nat) /\ Len(Append(s, x)) = Len(s) + 1
  OBVIOUS
<1>. HIDE DEF h
<1>3. ToSet(s \o h) = ToSet(s) \cup ToSet(h)
  BY <1>1, ElementsOfConcat
<1>4. InOrder(s) /\ (\A y \in ToSet(s) : y < x) => InOrder(s \o h)
  BY <1>1, OrderOfConcat
<1>. QED  BY <1>1, <1>2, <1>3, <1>4

(***************************************************************************)
(* A sequence in order is determined by its elements: one whose elements   *)
(* are the first of another's is the beginning of the other.               *)
(***************************************************************************)
LEMMA OrderedPrefix ==
  ASSUME NEW s \in Seq(Nat), NEW w \in Seq(Nat), InOrder(s), InOrder(w),
         ToSet(s) \subseteq ToSet(w),
         \A x \in ToSet(s) : \A m \in ToSet(w) : m <= x => m \in ToSet(s)
  PROVE  Len(s) <= Len(w) /\ \A i \in 1..Len(s) : s[i] = w[i]
<1>. DEFINE S == {n \in Nat : \A i \in 1..n : i <= Len(s) => i <= Len(w) /\ s[i] = w[i]}
<1>0. /\ \A x : x \in ToSet(s) <=> \E i \in 1..Len(s) : s[i] = x
      /\ \A x : x \in ToSet(w) <=> \E i \in 1..Len(w) : w[i] = x
  BY ElementIndex
<1>1. 0 \in S
  OBVIOUS
<1>2. ASSUME NEW n \in Nat, n \in S PROVE n + 1 \in S
  <2>1. ASSUME n + 1 <= Len(s) PROVE n + 1 <= Len(w) /\ s[n + 1] = w[n + 1]
    <3>1. n + 1 \in 1..Len(s) /\ s[n + 1] \in ToSet(s)
      BY <1>0, <2>1
    <3>2. PICK k \in 1..Len(w) : w[k] = s[n + 1]
      BY <1>0, <3>1
    <3>3. \A i \in 1..n : i \in 1..Len(w) /\ i \in 1..Len(s) /\ s[i] = w[i]
      BY <1>2, <2>1
    <3>4. k >= n + 1
      <4>1. SUFFICES ASSUME k \in 1..n PROVE FALSE
        OBVIOUS
      <4>2. s[k] = s[n + 1] /\ k < n + 1 /\ k \in 1..Len(s)
        BY <3>2, <3>3, <4>1
      <4>. QED  BY <3>1, <4>2 DEF InOrder
    <3>5. n + 1 \in 1..Len(w)
      BY <3>4
    <3>6. CASE k > n + 1
      <4>1. w[n + 1] < w[k]
        BY <3>5, <3>6 DEF InOrder
      <4>2. w[n + 1] \in ToSet(s)
        <5>1. w[n + 1] \in ToSet(w) /\ w[n + 1] <= s[n + 1]
          BY <1>0, <3>2, <3>5, <4>1
        <5>. QED  BY <3>1, <5>1
      <4>3. PICK j \in 1..Len(s) : s[j] = w[n + 1]
        BY <1>0, <4>2
      <4>4. j < n + 1
        <5>1. s[j] < s[n + 1]
          BY <3>2, <4>1, <4>3
        <5>2. j # n + 1
          BY <5>1
        <5>3. ASSUME n + 1 < j PROVE FALSE
          BY <3>1, <5>1, <5>3 DEF InOrder
        <5>. QED  BY <5>2, <5>3
      <4>5. w[j] = w[n + 1] /\ j \in 1..Len(w)
        BY <3>3, <4>3, <4>4
      <4>. QED  BY <3>5, <4>4, <4>5 DEF InOrder
    <3>7. CASE k = n + 1
      BY <3>2, <3>7
    <3>. QED  BY <3>4, <3>6, <3>7
  <2>2. \A i \in 1..(n + 1) : i \in 1..n \/ i = n + 1
    OBVIOUS
  <2>. QED  BY <1>2, <2>1, <2>2
<1>3. Nat \subseteq S
  <2>. HIDE DEF S
  <2>. QED  BY <1>1, <1>2, NatSetInduction
<1>4. Len(s) \in S
  <2>1. Len(s) \in Nat
    OBVIOUS
  <2>. HIDE DEF S
  <2>. QED  BY <1>3, <2>1
<1>5. \A i \in 1..Len(s) : i <= Len(w) /\ s[i] = w[i]
  BY <1>4
<1>6. Len(s) <= Len(w)
  <2>1. CASE Len(s) = 0
    BY <2>1
  <2>2. CASE Len(s) # 0
    <3>1. Len(s) \in 1..Len(s)
      BY <2>2
    <3>. QED  BY <1>5, <3>1
  <2>. QED  BY <2>1, <2>2
<1>. QED  BY <1>5, <1>6

(***************************************************************************)
(* The wanted messages, by recursion over the source: in order, and all of *)
(* them.                                                                   *)
(***************************************************************************)
LEMMA WantedUpToStep ==
  ASSUME Len(source) \in Nat
  PROVE  /\ WantedUpTo[0] = <<>>
         /\ \A n \in 1..Len(source) :
              WantedUpTo[n] = IF IsWanted(n) THEN Append(WantedUpTo[n - 1], n)
                              ELSE WantedUpTo[n - 1]
<1>. DEFINE N == Len(source)
            Step(g, i) == IF i = 0 THEN <<>>
                          ELSE IF IsWanted(i) THEN Append(g[i - 1], i) ELSE g[i - 1]
            S == {n \in Nat : \E g : g = [i \in 0..n |-> Step(g, i)]}
<1>1. 0 \in S
  <2>. DEFINE g == [i \in 0..0 |-> <<>>]
  <2>1. g = [i \in 0..0 |-> Step(g, i)]
    OBVIOUS
  <2>. QED  BY <2>1
<1>2. ASSUME NEW n \in Nat, n \in S PROVE n + 1 \in S
  <2>1. PICK g : g = [i \in 0..n |-> Step(g, i)]
    BY <1>2
  <2>. DEFINE h == [i \in 0..(n + 1) |-> IF i = n + 1 THEN Step(g, i) ELSE g[i]]
  <2>2. \A i \in 0..n : h[i] = g[i]
    OBVIOUS
  <2>3. \A i \in 0..n : g[i] = Step(g, i)
    BY <2>1
  <2>4. \A i \in 1..(n + 1) : i - 1 \in 0..n
    OBVIOUS
  <2>5. \A i \in 0..(n + 1) : Step(h, i) = Step(g, i)
    BY <2>2, <2>4
  <2>6. \A i \in 0..(n + 1) : h[i] = Step(h, i)
    BY <2>2, <2>3, <2>5
  <2>7. h = [i \in 0..(n + 1) |-> Step(h, i)]
    <3>. HIDE DEF Step
    <3>. QED  BY <2>6
  <2>8. \E f : f = [i \in 0..(n + 1) |-> Step(f, i)]
    <3>. HIDE DEF h, Step
    <3>. QED  BY <2>7
  <2>. QED  BY SMTT(30), <2>8
<1>3. N \in S
  <2>. HIDE DEF S, N
  <2>1. Nat \subseteq S
    BY <1>1, <1>2, NatSetInduction
  <2>. QED  BY <2>1 DEF N
<1>4. WantedUpTo = CHOOSE g : g = [i \in 0..N |-> Step(g, i)]
  BY DEF WantedUpTo
<1>5. WantedUpTo = [i \in 0..N |-> Step(WantedUpTo, i)]
  <2>1. \E g : g = [i \in 0..N |-> Step(g, i)]
    BY <1>3
  <2>. HIDE DEF Step, N
  <2>. QED  BY <1>4, <2>1
<1>6. \A i \in 0..N : WantedUpTo[i] = Step(WantedUpTo, i)
  <2>. HIDE DEF Step
  <2>. QED  BY <1>5
<1>. QED  BY <1>6

LEMMA WantedInOrder ==
  ASSUME Len(source) \in Nat
  PROVE  Wanted \in Seq(Nat) /\ InOrder(Wanted) /\ ToSet(Wanted) = WantedMail
<1>. DEFINE Good(n) == /\ WantedUpTo[n] \in Seq(Nat) /\ InOrder(WantedUpTo[n])
                       /\ ToSet(WantedUpTo[n]) = {m \in 1..n : IsWanted(m)}
            S == {n \in Nat : n <= Len(source) => Good(n)}
<1>1. 0 \in S
  <2>0. WantedUpTo[0] = <<>>
    BY WantedUpToStep
  <2>1. ToSet(WantedUpTo[0]) = {} /\ InOrder(WantedUpTo[0])
    BY <2>0, OrderOfOne, ElementsOfNone
  <2>2. {m \in 1..0 : IsWanted(m)} = {}
    OBVIOUS
  <2>3. Good(0)
    BY <2>0, <2>1, <2>2
  <2>. QED  BY <2>3
<1>2. ASSUME NEW n \in Nat, n \in S PROVE n + 1 \in S
  <2>1. SUFFICES ASSUME n + 1 <= Len(source) PROVE Good(n + 1)
    OBVIOUS
  <2>2. Good(n)
    BY <1>2, <2>1
  <2>3. WantedUpTo[n + 1] = IF IsWanted(n + 1) THEN Append(WantedUpTo[n], n + 1)
                            ELSE WantedUpTo[n]
    <3>1. n + 1 \in 1..Len(source) /\ (n + 1) - 1 = n
      BY <2>1
    <3>. QED  BY <3>1, WantedUpToStep
  <2>4. \A y \in ToSet(WantedUpTo[n]) : y < n + 1
    BY <2>2
  <2>5. CASE IsWanted(n + 1)
    <3>1. WantedUpTo[n + 1] = Append(WantedUpTo[n], n + 1)
      BY <2>3, <2>5
    <3>2. /\ WantedUpTo[n + 1] \in Seq(Nat) /\ InOrder(WantedUpTo[n + 1])
          /\ ToSet(WantedUpTo[n + 1]) = ToSet(WantedUpTo[n]) \cup {n + 1}
      <4>. DEFINE s == WantedUpTo[n]
      <4>1. s \in Seq(Nat) /\ InOrder(s) /\ n + 1 \in Nat
        BY <2>2
      <4>2. \A y \in ToSet(s) : y < n + 1
        BY <2>4
      <4>3. WantedUpTo[n + 1] = Append(s, n + 1)
        BY <3>1
      <4>. HIDE DEF s
      <4>4. /\ Append(s, n + 1) \in Seq(Nat) /\ InOrder(Append(s, n + 1))
            /\ ToSet(Append(s, n + 1)) = ToSet(s) \cup {n + 1}
        BY <4>1, <4>2, OrderOfAppend
      <4>5. ToSet(WantedUpTo[n + 1]) = ToSet(s) \cup {n + 1}
        BY <4>3, <4>4
      <4>. QED  BY <4>3, <4>4, <4>5 DEF s
    <3>3. {m \in 1..(n + 1) : IsWanted(m)} = {m \in 1..n : IsWanted(m)} \cup {n + 1}
      BY <2>5
    <3>. QED  BY <2>2, <3>2, <3>3
  <2>6. CASE ~IsWanted(n + 1)
    <3>1. WantedUpTo[n + 1] = WantedUpTo[n]
      BY <2>3, <2>6
    <3>2. {m \in 1..(n + 1) : IsWanted(m)} = {m \in 1..n : IsWanted(m)}
      BY <2>6
    <3>. QED  BY <2>2, <3>1, <3>2
  <2>. QED  BY <2>5, <2>6
<1>3. Len(source) \in S
  <2>. HIDE DEF S
  <2>1. Nat \subseteq S
    BY <1>1, <1>2, NatSetInduction
  <2>. QED  BY <2>1
<1>4. Good(Len(source))
  BY <1>3
<1>5. {m \in 1..Len(source) : IsWanted(m)} = WantedMail
  BY DEF WantedMail, Mail, IsWanted, NewerThanCheckpoint
<1>. QED  BY <1>4, <1>5 DEF Wanted
-----------------------------------------------------------------------------
(***************************************************************************)
(* Steps.                                                                  *)
(***************************************************************************)
LEMMA Parts ==
  ASSUME TypeOK
  PROVE  /\ Len(source) \in Nat /\ Len(source) <= MaxEntries /\ next \in Nat \ {0}
         /\ got \in Seq(Nat) /\ chan["out"] \in Seq(Nat) /\ chan["base"] \in Seq(Nat)
         /\ held["relay"] \in Seq(Nat) /\ held["producer"] \in Seq(Nat)
         /\ mode.incremental \in BOOLEAN /\ Position \subseteq Nat
<1>1. Position \subseteq Nat
  BY DEF Position
<1>2. \A s : \A n \in Nat : s \in SeqOf(Position, n) => s \in Seq(Nat)
  <2>1. ASSUME NEW n \in Nat, NEW s \in SeqOf(Position, n) PROVE s \in Seq(Nat)
    <3>1. s \in Seq(Position)
      BY <2>1, SeqOfIsSeq
    <3>. QED  BY <1>1, <3>1, SeqMonotonic
  <2>. QED  BY <2>1
<1>3. source \in Seq(Kinds) /\ Len(source) <= MaxEntries
  BY SeqOfIsSeq, MaxEntriesAssumption DEF TypeOK
<1>4. 1 \in Nat
  OBVIOUS
<1>5. /\ got \in SeqOf(Position, MaxEntries)
      /\ chan["out"] \in SeqOf(Position, Capacity) /\ chan["base"] \in SeqOf(Position, Capacity)
      /\ held["relay"] \in SeqOf(Position, 1) /\ held["producer"] \in SeqOf(Position, 1)
  BY DEF TypeOK, Channel, Goroutine
<1>6. /\ got \in Seq(Nat) /\ chan["out"] \in Seq(Nat) /\ chan["base"] \in Seq(Nat)
      /\ held["relay"] \in Seq(Nat) /\ held["producer"] \in Seq(Nat)
  BY <1>2, <1>4, <1>5, CapacityAssumption, MaxEntriesAssumption
<1>7. mode.incremental \in BOOLEAN
  BY ModesAssumption DEF TypeOK, Mode
<1>. QED  BY <1>1, <1>3, <1>6, <1>7, MaxEntriesAssumption DEF TypeOK

LEMMA SameMail ==
  UNCHANGED <<mode, source>> =>
    Mail' = Mail /\ WantedMail' = WantedMail /\ Offered' = Offered
  BY DEF Mail, WantedMail, IsWanted, NewerThanCheckpoint, Offered

LEMMA SameParts ==
  UNCHANGED <<mode, chan, got>> =>
    Got' = Got /\ Out' = Out /\ Base' = Base /\ Sent' = Sent
  BY DEF Got, Out, Base, Sent, Offered

LEMMA SameHeld == UNCHANGED held => Passing' = Passing /\ InHand' = InHand
  BY DEF Passing, InHand

\* A step that moves no message.
LEMMA Standing ==
  ASSUME Sorted, UNCHANGED <<mode, source, next, held, chan, got>>
  PROVE  /\ Sorted'
         /\ Mail' = Mail /\ WantedMail' = WantedMail /\ Offered' = Offered
         /\ Sent' = Sent /\ Passed' = Passed /\ Everything' = Everything
<1>1. /\ Mail' = Mail /\ WantedMail' = WantedMail /\ Offered' = Offered
      /\ Got' = Got /\ Out' = Out /\ Base' = Base /\ Sent' = Sent
      /\ Passing' = Passing /\ InHand' = InHand
  BY SameMail, SameParts, SameHeld
<1>2. Passed' = Passed /\ Everything' = Everything
  BY <1>1 DEF Passed, Everything
<1>. QED  BY <1>1, <1>2 DEF Sorted, InOrder

LEMMA CancelInv == FlowInv /\ Cancel => FlowInv'
<1>. SUFFICES ASSUME FlowInv, Cancel PROVE FlowInv'
  OBVIOUS
<1>. USE DEF FlowInv
<1>1. /\ ctx = "live" /\ ctx' \in {"canceled", "deadline"}
      /\ UNCHANGED <<mode, source, next, held, at, chan, errs, closed, got>>
  BY DEF Cancel
<1>2. TypeOK'
  BY <1>1 DEF TypeOK
<1>3. Places'
  BY <1>1 DEF Places
<1>4. /\ Sorted' /\ WantedMail' = WantedMail /\ Offered' = Offered
      /\ Sent' = Sent /\ Passed' = Passed /\ Everything' = Everything
  BY <1>1, Standing
<1>5. Evidence => Evidence'
  BY <1>1 DEF Evidence, Excused, Reported
<1>6. Accounted'
  BY <1>1, <1>4, <1>5 DEF Accounted, Gapless, AllRead, ProducerLive, RelayLive
<1>7. Drained'
  BY <1>1, <1>4 DEF Drained, Reported
<1>. QED  BY <1>2, <1>3, <1>4, <1>6, <1>7

LEMMA CloseErrorsInv ==
  ASSUME FlowInv, NEW g \in Goroutine, CloseErrors(g)
  PROVE  FlowInv'
<1>. USE DEF FlowInv
<1>1. /\ at[g] = "closing"
      /\ closed' = closed \cup {<<Own(g), "err">>}
      /\ UNCHANGED <<mode, source, next, held, at, chan, errs, ctx, got>>
  BY DEF CloseErrors
<1>2. Own(g) \in Channel /\ (Own(g) = "base" => g = "producer") /\ (Own(g) = "out" => g = "relay")
  BY DEF Own, Channel, Goroutine
<1>3. TypeOK'
  BY <1>1, <1>2 DEF TypeOK
<1>4. Places'
  BY <1>1, <1>2 DEF Places
<1>5. /\ Sorted' /\ WantedMail' = WantedMail /\ Offered' = Offered
      /\ Sent' = Sent /\ Passed' = Passed /\ Everything' = Everything
  BY <1>1, Standing
<1>6. Accounted'
  BY <1>1, <1>5 DEF Accounted, Gapless, AllRead, ProducerLive, RelayLive, Evidence, Excused, Reported
<1>7. Drained'
  BY <1>1, <1>5 DEF Drained, Reported
<1>. QED  BY <1>3, <1>4, <1>5, <1>6, <1>7

LEMMA CloseMessagesInv ==
  ASSUME FlowInv, NEW g \in Goroutine, CloseMessages(g)
  PROVE  FlowInv'
<1>. USE DEF FlowInv
<1>1. /\ at[g] = "closing" /\ <<Own(g), "err">> \in closed
      /\ closed' = closed \cup {<<Own(g), "msg">>}
      /\ at' = [at EXCEPT ![g] = "closed"]
      /\ UNCHANGED <<mode, source, next, held, chan, errs, ctx, got>>
  BY DEF CloseMessages, Go
<1>2. Own(g) \in Channel /\ (Own(g) = "base" => g = "producer") /\ (Own(g) = "out" => g = "relay")
  BY DEF Own, Channel, Goroutine
<1>3. TypeOK'
  BY <1>1, <1>2 DEF TypeOK
<1>4. at'[g] = "closed" /\ \A h \in Goroutine \cup {"reader"} : h # g => at'[h] = at[h]
  BY <1>1 DEF TypeOK
<1>5. Places'
  BY <1>1, <1>2, <1>4 DEF Places, Goroutine
<1>6. /\ Sorted' /\ WantedMail' = WantedMail /\ Offered' = Offered
      /\ Sent' = Sent /\ Passed' = Passed /\ Everything' = Everything
  BY <1>1, Standing
<1>7. (ProducerLive' <=> ProducerLive) /\ (RelayLive' <=> RelayLive) /\ at'["reader"] = at["reader"]
  BY <1>1, <1>4 DEF ProducerLive, RelayLive, Goroutine
<1>8. Accounted'
  BY <1>1, <1>6, <1>7 DEF Accounted, Gapless, AllRead, Evidence, Excused, Reported
<1>9. at'["relay"] \in {"errors", "closing", "closed"} => at["relay"] \in {"errors", "closing", "closed"}
      /\ (at'["relay"] \in {"closing", "closed"} => at["relay"] \in {"closing", "closed"})
  BY <1>1, <1>4 DEF Goroutine
<1>10. Drained'
  BY <1>1, <1>6, <1>7, <1>9 DEF Drained, Reported
<1>. QED  BY <1>3, <1>5, <1>6, <1>8, <1>10

LEMMA ReaderStandsInv == FlowInv /\ (ReadClosed \/ SeeError \/ SeeNoError) => FlowInv'
<1>. SUFFICES ASSUME FlowInv, ReadClosed \/ SeeError \/ SeeNoError PROVE FlowInv'
  OBVIOUS
<1>. USE DEF FlowInv
<1>1. /\ UNCHANGED <<mode, source, next, held, chan, closed, ctx, got>>
      /\ at' \in [Goroutine \cup {"reader"} ->
                   {"read", "send", "final", "errors", "closing", "closed", "ok", "failed"}]
      /\ at'["producer"] = at["producer"] /\ at'["relay"] = at["relay"]
      /\ at'["reader"] \in {"errors", "ok", "failed"}
      /\ at["reader"] \in {"read", "errors"}
  BY DEF ReadClosed, SeeError, SeeNoError, Go, TypeOK, Goroutine
<1>2. \/ UNCHANGED errs
      \/ /\ errs[Offered] # <<>> /\ errs' = [errs EXCEPT ![Offered] = Tail(@)]
         /\ at'["reader"] = "failed"
  BY DEF ReadClosed, SeeError, SeeNoError, Go, TypeOK
<1>3. /\ errs' \in [Channel -> SeqOf({"ctx", "io"}, 1)]
      /\ \A c \in Channel : ToSet(errs'[c]) \subseteq ToSet(errs[c])
  <2>1. CASE UNCHANGED errs
    BY <2>1 DEF TypeOK
  <2>2. CASE errs[Offered] # <<>> /\ errs' = [errs EXCEPT ![Offered] = Tail(@)]
    <3>1. Offered \in Channel /\ errs[Offered] \in SeqOf({"ctx", "io"}, 1)
      BY DEF Offered, Channel, TypeOK
    <3>2. errs[Offered] \in Seq({"ctx", "io"}) /\ Len(errs[Offered]) <= 1
      BY <3>1, SeqOfIsSeq
    <3>. DEFINE t == Tail(errs[Offered])
    <3>3. /\ t \in Seq({"ctx", "io"}) /\ Len(t) <= 1
          /\ ToSet(t) \subseteq ToSet(errs[Offered])
      <4>1. Tail(errs[Offered]) \in Seq({"ctx", "io"}) /\ Len(Tail(errs[Offered])) <= 1
        BY <2>2, <3>2
      <4>2. ToSet(errs[Offered]) = {Head(errs[Offered])} \cup ToSet(Tail(errs[Offered]))
        BY <2>2, <3>2, ElementsOfTail
      <4>. QED  BY <4>1, <4>2
    <3>4. errs' = [errs EXCEPT ![Offered] = t]
      BY <2>2
    <3>. HIDE DEF t
    <3>5. t \in SeqOf({"ctx", "io"}, 1)
      BY <3>3, SeqOfIsSeq
    <3>. QED  BY <3>1, <3>3, <3>4, <3>5 DEF TypeOK
  <2>. QED  BY <1>2, <2>1, <2>2
<1>4. TypeOK'
  BY <1>1, <1>3 DEF TypeOK
<1>5. /\ Sorted' /\ WantedMail' = WantedMail /\ Offered' = Offered
      /\ Sent' = Sent /\ Passed' = Passed /\ Everything' = Everything
  BY <1>1, Standing
<1>6. errs["out"] = <<>> => errs'["out"] = <<>>
  <2>1. CASE Offered = "out"
    BY <1>2, <2>1 DEF TypeOK, Channel
  <2>2. CASE Offered = "base"
    BY <1>2, <2>2 DEF TypeOK, Channel
  <2>. QED  BY <2>1, <2>2 DEF Offered
<1>7. ~mode.incremental => errs["out"] = <<>>
  BY DEF Places
<1>8. Places'
  BY <1>1, <1>3, <1>6 DEF Places
<1>9. (Reported => Reported') /\ (Evidence => Evidence')
  BY <1>1, <1>2 DEF Reported, Evidence, Excused, Offered
<1>10. (ProducerLive' <=> ProducerLive) /\ (RelayLive' <=> RelayLive)
  BY <1>1 DEF ProducerLive, RelayLive
<1>11. Accounted'
  BY <1>1, <1>5, <1>9, <1>10 DEF Accounted, Gapless, AllRead
<1>12. chan[Offered] = <<>> /\ <<Offered, "msg">> \in closed
  BY DEF ReadClosed, SeeError, SeeNoError, Drained
<1>13. errs["base"] = <<>> => errs'["base"] = <<>> \/ Reported'
  BY <1>2 DEF TypeOK, Reported
<1>14. Drained'
  BY <1>1, <1>5, <1>9, <1>12, <1>13 DEF Drained
<1>. QED  BY <1>4, <1>5, <1>8, <1>11, <1>14

LEMMA RelayBaseClosedInv == FlowInv /\ RelayBaseClosed => FlowInv'
<1>. SUFFICES ASSUME FlowInv, RelayBaseClosed PROVE FlowInv'
  OBVIOUS
<1>. USE DEF FlowInv
<1>1. /\ at["relay"] = "read" /\ chan["base"] = <<>> /\ <<"base", "msg">> \in closed
      /\ at' = [at EXCEPT !["relay"] = "errors"]
      /\ UNCHANGED <<mode, source, next, held, chan, errs, closed, ctx, got>>
  BY DEF RelayBaseClosed, Go
<1>2. /\ at'["relay"] = "errors"
      /\ at'["producer"] = at["producer"] /\ at'["reader"] = at["reader"]
  BY <1>1 DEF TypeOK, Goroutine
<1>3. TypeOK'
  BY <1>1 DEF TypeOK
<1>4. Places'
  BY <1>1, <1>2 DEF Places
<1>5. /\ Sorted' /\ WantedMail' = WantedMail /\ Offered' = Offered
      /\ Sent' = Sent /\ Passed' = Passed /\ Everything' = Everything
  BY <1>1, Standing
<1>6. /\ ProducerLive' <=> ProducerLive
      /\ RelayLive' => RelayLive
  BY <1>1, <1>2 DEF ProducerLive, RelayLive
<1>7. Accounted'
  BY <1>1, <1>2, <1>5, <1>6 DEF Accounted, Gapless, AllRead, Evidence, Excused, Reported
<1>8. held["relay"] = <<>>
  BY <1>1 DEF Places
<1>9. Drained'
  BY <1>1, <1>2, <1>5, <1>8 DEF Drained, Reported
<1>. QED  BY <1>3, <1>4, <1>5, <1>7, <1>9

LEMMA RelayForwardErrorInv == FlowInv /\ RelayForwardError => FlowInv'
<1>. SUFFICES ASSUME FlowInv, RelayForwardError PROVE FlowInv'
  OBVIOUS
<1>. USE DEF FlowInv
<1>1. /\ at["relay"] = "errors" /\ errs["base"] # <<>> /\ Len(errs["out"]) < 1
      /\ errs' = [errs EXCEPT !["base"] = Tail(@), !["out"] = Append(@, Head(errs["base"]))]
      /\ UNCHANGED <<mode, source, next, held, at, chan, closed, ctx, got>>
  BY DEF RelayForwardError
<1>. DEFINE e == errs["base"]
            o == errs["out"]
<1>2. e \in SeqOf({"ctx", "io"}, 1) /\ o \in SeqOf({"ctx", "io"}, 1)
  BY DEF TypeOK, Channel
<1>3. e \in Seq({"ctx", "io"}) /\ Len(e) <= 1 /\ o \in Seq({"ctx", "io"}) /\ e # <<>> /\ Len(o) < 1
  <2>. HIDE DEF e, o
  <2>1. e \in Seq({"ctx", "io"}) /\ Len(e) <= 1 /\ o \in Seq({"ctx", "io"})
    BY <1>2, SeqOfIsSeq
  <2>. QED  BY <1>1, <2>1 DEF e, o
<1>4. /\ errs'["base"] = Tail(e) /\ errs'["out"] = Append(o, Head(e))
      /\ errs' = [[errs EXCEPT !["base"] = Tail(e)] EXCEPT !["out"] = Append(o, Head(e))]
  BY <1>1 DEF TypeOK, Channel
<1>5. o = <<>> /\ Append(o, Head(e)) = <<Head(e)>>
  <2>. HIDE DEF e, o
  <2>1. o = <<>>
    BY <1>3
  <2>. QED  BY <2>1
<1>6. /\ Tail(e) \in SeqOf({"ctx", "io"}, 1) /\ <<Head(e)>> \in SeqOf({"ctx", "io"}, 1)
      /\ ToSet(<<Head(e)>>) \subseteq ToSet(e) /\ ToSet(Tail(e)) \subseteq ToSet(e)
  <2>. DEFINE t == Tail(e)
              h == <<Head(e)>>
  <2>. HIDE DEF e
  <2>1. /\ ToSet(e) = {Head(e)} \cup ToSet(Tail(e))
        /\ Head(e) \in {"ctx", "io"} /\ Tail(e) \in Seq({"ctx", "io"})
        /\ Len(Tail(e)) = Len(e) - 1
    BY <1>3, ElementsOfTail
  <2>2. h \in Seq({"ctx", "io"}) /\ Len(h) <= 1 /\ ToSet(h) = {Head(e)}
    BY <2>1, ElementsOfOne
  <2>3. t \in Seq({"ctx", "io"}) /\ Len(t) <= 1
    BY <1>3, <2>1
  <2>4. ToSet(h) \subseteq ToSet(e) /\ ToSet(t) \subseteq ToSet(e)
    BY <2>1, <2>2
  <2>5. t \in SeqOf({"ctx", "io"}, 1) /\ h \in SeqOf({"ctx", "io"}, 1)
    <3>. HIDE DEF t, h
    <3>. QED  BY <2>2, <2>3, SeqOfIsSeq
  <2>. QED  BY <2>4, <2>5 DEF t, h
<1>. HIDE DEF e, o
<1>7. TypeOK'
  <2>1. errs' \in [Channel -> SeqOf({"ctx", "io"}, 1)]
    BY <1>4, <1>5, <1>6 DEF TypeOK
  <2>. QED  BY <1>1, <2>1 DEF TypeOK
<1>8. \A c \in Channel : "ctx" \in ToSet(errs'[c]) => ctx # "live"
  <2>1. "ctx" \in ToSet(e) => ctx # "live"
    BY DEF Places, Channel, e
  <2>. QED  BY <1>4, <1>5, <1>6, <2>1 DEF Channel
<1>9. mode.incremental
  BY <1>1 DEF Places
<1>10. Places'
  BY <1>1, <1>8, <1>9 DEF Places
<1>11. /\ Sorted' /\ WantedMail' = WantedMail /\ Offered' = Offered
       /\ Sent' = Sent /\ Passed' = Passed /\ Everything' = Everything
  BY <1>1, Standing
<1>12. Reported'
  BY <1>4, <1>5 DEF Reported
<1>13. Accounted'
  BY <1>1, <1>11, <1>12 DEF Accounted, Gapless, AllRead, Evidence, ProducerLive, RelayLive
<1>14. Drained'
  BY <1>1, <1>11, <1>12 DEF Drained
<1>. QED  BY <1>7, <1>10, <1>11, <1>13, <1>14

(***************************************************************************)
(* A goroutine that leaves drops what it holds.                            *)
(***************************************************************************)
LEMMA ErrorSent ==
  ASSUME TypeOK, NEW c \in Channel, NEW e \in {"ctx", "io"}, Len(errs[c]) < 1,
         errs' = [errs EXCEPT ![c] = Append(@, e)]
  PROVE  /\ errs' \in [Channel -> SeqOf({"ctx", "io"}, 1)]
         /\ errs'[c] = <<e>>
         /\ \A d \in Channel : d # c => errs'[d] = errs[d]
<1>1. errs[c] \in SeqOf({"ctx", "io"}, 1)
  BY DEF TypeOK
<1>2. errs[c] \in Seq({"ctx", "io"})
  BY <1>1, SeqOfIsSeq
<1>3. errs[c] = <<>>
  BY <1>2
<1>4. errs' = [errs EXCEPT ![c] = <<e>>]
  BY <1>3
<1>5. <<e>> \in SeqOf({"ctx", "io"}, 1)
  <2>. DEFINE s == <<e>>
  <2>1. s \in Seq({"ctx", "io"}) /\ Len(s) <= 1
    OBVIOUS
  <2>. HIDE DEF s
  <2>2. s \in SeqOf({"ctx", "io"}, 1)
    BY <2>1, SeqOfIsSeq
  <2>. QED  BY <2>2 DEF s
<1>. QED  BY <1>4, <1>5 DEF TypeOK

LEMMA Dropping ==
  ASSUME TypeOK, Sorted, NEW g \in Goroutine, held' = [held EXCEPT ![g] = <<>>],
         UNCHANGED <<mode, source, next, chan, got>>
  PROVE  /\ Sorted'
         /\ held' \in [Goroutine -> SeqOf(Position, 1)]
         /\ held'[g] = <<>> /\ \A h \in Goroutine : h # g => held'[h] = held[h]
         /\ Mail' = Mail /\ WantedMail' = WantedMail /\ Offered' = Offered
         /\ Got' = Got /\ Out' = Out /\ Base' = Base /\ Sent' = Sent
         /\ Everything' \subseteq Everything
         /\ held[g] = <<>> => Everything' = Everything
         /\ g = "producer" => Passed' = Passed
<1>1. /\ Mail' = Mail /\ WantedMail' = WantedMail /\ Offered' = Offered
      /\ Got' = Got /\ Out' = Out /\ Base' = Base /\ Sent' = Sent
  BY SameMail, SameParts
<1>2. held'[g] = <<>> /\ \A h \in Goroutine : h # g => held'[h] = held[h]
  BY DEF TypeOK
<1>3. held' \in [Goroutine -> SeqOf(Position, 1)]
  BY EmptyIsSeqOf DEF TypeOK
<1>4. /\ Passing' \subseteq Passing /\ InHand' \subseteq InHand
      /\ held[g] = <<>> => Passing' = Passing /\ InHand' = InHand
      /\ g = "producer" => Passing' = Passing
  BY <1>2, ElementsOfNone DEF Passing, InHand, Goroutine
<1>5. /\ Everything' \subseteq Everything
      /\ held[g] = <<>> => Everything' = Everything
      /\ g = "producer" => Passed' = Passed
  BY <1>1, <1>4 DEF Everything, Passed
<1>6. /\ InOrder(held'["relay"]) /\ InOrder(held'["producer"])
      /\ Len(held'["relay"]) <= Len(held["relay"])
      /\ Len(held'["producer"]) <= Len(held["producer"])
      /\ Len(held'["relay"]) \in Nat /\ Len(held'["producer"]) \in Nat
  <2>1. /\ Len(held["relay"]) \in Nat /\ Len(held["producer"]) \in Nat
        /\ Len(<<>>) = 0 /\ InOrder(<<>>) /\ InOrder(held["relay"]) /\ InOrder(held["producer"])
    BY Parts, OrderOfOne DEF Sorted
  <2>. QED  BY <1>2, <2>1 DEF Goroutine
<1>7. Sorted'
  <2>1. /\ Len(got) \in Nat /\ Len(chan["out"]) \in Nat /\ Len(chan["base"]) \in Nat
        /\ Len(held["relay"]) \in Nat /\ Len(held["producer"]) \in Nat /\ next \in Nat
    BY Parts
  <2>2. Len(got) + Len(chan["out"]) + Len(held'["relay"]) + Len(chan["base"])
          + Len(held'["producer"]) < next
    <3>. DEFINE a == Len(got)
                b == Len(chan["out"])
                c == Len(held["relay"])
                d == Len(chan["base"])
                e == Len(held["producer"])
                c1 == Len(held'["relay"])
                e1 == Len(held'["producer"])
    <3>1. a + b + c + d + e < next
      BY DEF Sorted
    <3>2. /\ a \in Nat /\ b \in Nat /\ c \in Nat /\ d \in Nat /\ e \in Nat /\ next \in Nat
          /\ c1 \in Nat /\ e1 \in Nat /\ c1 <= c /\ e1 <= e
      BY <1>6, <2>1
    <3>. HIDE DEF a, b, c, d, e, c1, e1
    <3>3. a + b + c1 + d + e1 < next
      BY <3>1, <3>2
    <3>. QED  BY <3>3 DEF a, b, c1, d, e1
  <2>3. /\ InOrder(got)' /\ InOrder(chan["out"])' /\ InOrder(held["relay"])'
        /\ InOrder(chan["base"])' /\ InOrder(held["producer"])'
    BY <1>6 DEF Sorted, InOrder
  <2>. QED  BY <1>1, <1>4, <1>5, <2>2, <2>3 DEF Sorted
<1>. QED  BY <1>1, <1>2, <1>3, <1>5, <1>7

\* What the producer's three ways to leave have in common.
ProducerLeaves ==
  /\ at["producer"] \in {"read", "send"}
  /\ held' = [held EXCEPT !["producer"] = <<>>]
  /\ at' = [at EXCEPT !["producer"] = "closing"]
  /\ \/ errs' = errs /\ Excused
     \/ errs' = errs /\ at["producer"] = "read" /\ next > Len(source)
     \/ \E e \in {"ctx", "io"} : /\ e = "ctx" => ctx # "live"
                                 /\ Len(errs["base"]) < 1
                                 /\ errs' = [errs EXCEPT !["base"] = Append(@, e)]
  /\ UNCHANGED <<mode, source, next, chan, closed, ctx, got>>

LEMMA ProducerLeavesSteps == EndOfSource \/ ReadError \/ ProducerCancelled => ProducerLeaves
<1>1. EndOfSource => ProducerLeaves
  BY DEF EndOfSource, ProducerLeaves, Leave, Go
<1>2. ReadError => ProducerLeaves
  BY DEF ReadError, ProducerLeaves, Abort, Go, Own
<1>3. ProducerCancelled => ProducerLeaves
  BY DEF ProducerCancelled, CtxError, ProducerLeaves, Abort, Leave, Go, Own, Excused
<1>. QED  BY <1>1, <1>2, <1>3

LEMMA ProducerLeavesInv == FlowInv /\ ProducerLeaves => FlowInv'
<1>. SUFFICES ASSUME FlowInv, ProducerLeaves PROVE FlowInv'
  OBVIOUS
<1>. USE DEF FlowInv
<1>1. /\ at["producer"] \in {"read", "send"}
      /\ held' = [held EXCEPT !["producer"] = <<>>]
      /\ at' = [at EXCEPT !["producer"] = "closing"]
      /\ UNCHANGED <<mode, source, next, chan, closed, ctx, got>>
  BY DEF ProducerLeaves
<1>2. /\ at'["producer"] = "closing" /\ at'["relay"] = at["relay"]
      /\ at'["reader"] = at["reader"]
  BY <1>1 DEF TypeOK, Goroutine
<1>3. /\ errs' \in [Channel -> SeqOf({"ctx", "io"}, 1)]
      /\ errs'["out"] = errs["out"]
      /\ \A c \in Channel : "ctx" \in ToSet(errs'[c]) => ctx # "live"
      /\ errs["base"] # <<>> => errs'["base"] # <<>>
      /\ \/ errs'["base"] # <<>>
         \/ Excused
         \/ at["producer"] = "read" /\ next > Len(source)
  <2>1. CASE errs' = errs /\ (Excused \/ (at["producer"] = "read" /\ next > Len(source)))
    <3>1. /\ errs' \in [Channel -> SeqOf({"ctx", "io"}, 1)]
          /\ \A c \in Channel : "ctx" \in ToSet(errs'[c]) => ctx # "live"
      BY <2>1 DEF TypeOK, Places
    <3>. QED  BY <2>1, <3>1
  <2>2. CASE \E e \in {"ctx", "io"} : /\ e = "ctx" => ctx # "live"
                                     /\ Len(errs["base"]) < 1
                                     /\ errs' = [errs EXCEPT !["base"] = Append(@, e)]
    <3>1. PICK e \in {"ctx", "io"} : /\ e = "ctx" => ctx # "live"
                                     /\ Len(errs["base"]) < 1
                                     /\ errs' = [errs EXCEPT !["base"] = Append(@, e)]
      BY <2>2
    <3>2. /\ errs' \in [Channel -> SeqOf({"ctx", "io"}, 1)]
          /\ errs'["base"] = <<e>> /\ errs'["out"] = errs["out"]
      BY <3>1, ErrorSent DEF Channel
    <3>3. ToSet(errs'["base"]) = {e} /\ errs'["base"] # <<>>
      BY <3>2, ElementsOfOne
    <3>. QED  BY <3>1, <3>2, <3>3 DEF Places, Channel
  <2>3. \/ errs' = errs /\ (Excused \/ (at["producer"] = "read" /\ next > Len(source)))
        \/ \E e \in {"ctx", "io"} : /\ e = "ctx" => ctx # "live"
                                    /\ Len(errs["base"]) < 1
                                    /\ errs' = [errs EXCEPT !["base"] = Append(@, e)]
    BY DEF ProducerLeaves
  <2>. QED  BY <2>1, <2>2, <2>3
<1>4. /\ Sorted'
      /\ held' \in [Goroutine -> SeqOf(Position, 1)]
      /\ held'["producer"] = <<>> /\ held'["relay"] = held["relay"]
      /\ WantedMail' = WantedMail /\ Offered' = Offered /\ Sent' = Sent /\ Passed' = Passed
      /\ held["producer"] = <<>> => Everything' = Everything
  BY <1>1, Dropping DEF Goroutine
<1>5. TypeOK'
  BY <1>1, <1>3, <1>4 DEF TypeOK
<1>6. Places'
  BY <1>1, <1>2, <1>3, <1>4 DEF Places
<1>7. (Reported' <=> Reported) /\ (Evidence => Evidence')
      /\ (Evidence' \/ (at["producer"] = "read" /\ next > Len(source)))
  <2>1. (Excused' <=> Excused) /\ (Reported' <=> Reported)
    BY <1>1, <1>2, <1>3 DEF Reported, Excused
  <2>2. errs["base"] # <<>> => errs'["base"] # <<>>
    BY <1>3
  <2>3. Excused \/ errs'["base"] # <<>> \/ (at["producer"] = "read" /\ next > Len(source))
    BY <1>3
  <2>. QED  BY <2>1, <2>2, <2>3 DEF Evidence
<1>8. at["producer"] = "read" => held["producer"] = <<>>
  BY DEF Places
<1>9. Accounted'
  <2>1. ~ProducerLive' /\ (RelayLive' <=> RelayLive)
    BY <1>1, <1>2 DEF ProducerLive, RelayLive
  <2>2. AllRead(Everything)' \/ Evidence'
    BY <1>1, <1>4, <1>7, <1>8 DEF Accounted, AllRead
  <2>. QED  BY <1>1, <1>4, <1>7, <2>1, <2>2 DEF Accounted, Gapless
<1>10. /\ <<"base", "msg">> \notin closed /\ <<"base", "err">> \notin closed
  BY <1>1 DEF Places
<1>11. Drained'
  BY <1>1, <1>2, <1>4, <1>7, <1>10 DEF Drained
<1>. QED  BY <1>4, <1>5, <1>6, <1>9, <1>11

LEMMA RelayCancelledInv == FlowInv /\ RelayCancelled => FlowInv'
<1>. SUFFICES ASSUME FlowInv, RelayCancelled PROVE FlowInv'
  OBVIOUS
<1>. USE DEF FlowInv
<1>1. /\ at["relay"] = "send" /\ ctx # "live" /\ Len(errs["out"]) < 1
      /\ held' = [held EXCEPT !["relay"] = <<>>]
      /\ at' = [at EXCEPT !["relay"] = "closing"]
      /\ errs' = [errs EXCEPT !["out"] = Append(@, "ctx")]
      /\ UNCHANGED <<mode, source, next, chan, closed, ctx, got>>
  BY DEF RelayCancelled, Abort, Go, Own
<1>2. /\ at'["relay"] = "closing" /\ at'["producer"] = at["producer"]
      /\ at'["reader"] = at["reader"]
  BY <1>1 DEF TypeOK, Goroutine
<1>3. /\ errs' \in [Channel -> SeqOf({"ctx", "io"}, 1)]
      /\ errs'["out"] = <<"ctx">> /\ errs'["base"] = errs["base"]
  BY <1>1, ErrorSent DEF Channel
<1>4. /\ Sorted'
      /\ held' \in [Goroutine -> SeqOf(Position, 1)]
      /\ held'["relay"] = <<>> /\ held'["producer"] = held["producer"]
      /\ WantedMail' = WantedMail /\ Offered' = Offered /\ Sent' = Sent
  BY <1>1, Dropping DEF Goroutine
<1>5. TypeOK'
  BY <1>1, <1>3, <1>4 DEF TypeOK
<1>6. mode.incremental
  BY <1>1 DEF Places
<1>7. Places'
  BY <1>1, <1>2, <1>3, <1>4, <1>6 DEF Places, Channel
<1>8. Reported' /\ Evidence' /\ ~RelayLive'
  BY <1>1, <1>2, <1>3, <1>6 DEF Evidence, Reported, RelayLive
<1>9. Accounted'
  BY <1>1, <1>4, <1>8 DEF Accounted, Gapless
<1>10. Drained'
  BY <1>1, <1>2, <1>4, <1>8 DEF Drained
<1>. QED  BY <1>4, <1>5, <1>7, <1>9, <1>10

LEMMA RelayFinishInv == FlowInv /\ RelayFinish => FlowInv'
<1>. SUFFICES ASSUME FlowInv, RelayFinish PROVE FlowInv'
  OBVIOUS
<1>. USE DEF FlowInv
<1>1. /\ at["relay"] = "errors" /\ errs["base"] = <<>> /\ <<"base", "err">> \in closed
      /\ held' = [held EXCEPT !["relay"] = <<>>]
      /\ at' = [at EXCEPT !["relay"] = "closing"]
      /\ UNCHANGED <<mode, source, next, chan, errs, closed, ctx, got>>
  BY DEF RelayFinish, Leave, Go
<1>2. /\ at'["relay"] = "closing" /\ at'["producer"] = at["producer"]
      /\ at'["reader"] = at["reader"]
  BY <1>1 DEF TypeOK, Goroutine
<1>3. held["relay"] = <<>>
  BY <1>1 DEF Places
<1>4. /\ Sorted'
      /\ held' \in [Goroutine -> SeqOf(Position, 1)]
      /\ held'["relay"] = <<>> /\ held'["producer"] = held["producer"]
      /\ WantedMail' = WantedMail /\ Offered' = Offered /\ Sent' = Sent
      /\ Everything' = Everything
  BY <1>1, <1>3, Dropping DEF Goroutine
<1>5. TypeOK'
  BY <1>1, <1>4 DEF TypeOK
<1>6. Places'
  BY <1>1, <1>2, <1>4 DEF Places
<1>7. mode.incremental
  BY <1>1 DEF Places
<1>8. ~RelayLive' /\ (ProducerLive' <=> ProducerLive)
      /\ (Reported' <=> Reported) /\ (Evidence' <=> Evidence)
  BY <1>1, <1>2, <1>7 DEF Evidence, Excused, Reported, RelayLive, ProducerLive
<1>9. Accounted'
  BY <1>1, <1>4, <1>8 DEF Accounted, Gapless, AllRead
<1>10. Drained'
  BY <1>1, <1>2, <1>4, <1>7, <1>8 DEF Drained
<1>. QED  BY <1>4, <1>5, <1>6, <1>9, <1>10

(***************************************************************************)
(* Steps that move a message.                                              *)
(***************************************************************************)
LEMMA SkipEntryInv == FlowInv /\ SkipEntry => FlowInv'
<1>. SUFFICES ASSUME FlowInv, SkipEntry PROVE FlowInv'
  OBVIOUS
<1>. USE DEF FlowInv
<1>1. /\ at["producer"] = "read" /\ next <= Len(source) /\ source[next] = "bad"
      /\ next' = next + 1
      /\ UNCHANGED <<mode, source, held, at, chan, errs, closed, ctx, got>>
  BY DEF SkipEntry
<1>2. Len(source) <= MaxEntries /\ next \in Nat \ {0} /\ Len(source) \in Nat
  BY Parts
<1>3. TypeOK'
  BY <1>1, <1>2, MaxEntriesAssumption DEF TypeOK
<1>4. Places'
  BY <1>1, <1>2 DEF Places
<1>5. /\ Mail' = Mail /\ WantedMail' = WantedMail /\ Offered' = Offered
      /\ Got' = Got /\ Out' = Out /\ Base' = Base /\ Sent' = Sent
      /\ Passing' = Passing /\ InHand' = InHand
  BY <1>1, SameMail, SameParts, SameHeld
<1>6. Passed' = Passed /\ Everything' = Everything
  BY <1>5 DEF Passed, Everything
<1>7. /\ Mail \subseteq Nat /\ WantedMail \subseteq Mail /\ next \notin Mail
  BY <1>1 DEF Mail, WantedMail
<1>8. Sorted'
  <2>1. /\ InOrder(got)' /\ InOrder(chan["out"])' /\ InOrder(held["relay"])'
        /\ InOrder(chan["base"])' /\ InOrder(held["producer"])'
    BY <1>1 DEF Sorted, InOrder
  <2>2. /\ Len(got) \in Nat /\ Len(chan["out"]) \in Nat /\ Len(chan["base"]) \in Nat
        /\ Len(held["relay"]) \in Nat /\ Len(held["producer"]) \in Nat
    BY Parts
  <2>3. (Len(got) + Len(chan["out"]) + Len(held["relay"]) + Len(chan["base"])
          + Len(held["producer"]) < next)'
    <3>. DEFINE a == Len(got)
                b == Len(chan["out"])
                h == Len(held["relay"])
                c == Len(chan["base"])
                d == Len(held["producer"])
    <3>1. a + b + h + c + d < next
      BY DEF Sorted
    <3>2. a \in Nat /\ b \in Nat /\ c \in Nat /\ d \in Nat /\ h \in Nat
      BY <2>2
    <3>. HIDE DEF a, b, c, d, h
    <3>3. a + b + h + c + d < next + 1
      BY <1>2, <3>1, <3>2
    <3>. QED  BY <1>1, <3>3 DEF a, b, c, d, h
  <2>4. \A m \in Everything : m < next'
    BY <1>1, <1>2, <1>7 DEF Sorted
  <2>. QED  BY <1>5, <1>6, <2>1, <2>3, <2>4 DEF Sorted
<1>9. \A m \in WantedMail : m < next' => m < next
  BY <1>1, <1>2, <1>7
<1>10. Accounted'
  <2>1. AllRead(Everything) => AllRead(Everything)'
    BY <1>5, <1>6, <1>9 DEF AllRead
  <2>2. ProducerLive' /\ (RelayLive' <=> RelayLive) /\ (Evidence' <=> Evidence)
    BY <1>1 DEF ProducerLive, RelayLive, Evidence, Excused, Reported
  <2>3. ProducerLive
    BY <1>1 DEF ProducerLive
  <2>. QED  BY <1>1, <1>5, <1>6, <2>1, <2>2, <2>3 DEF Accounted, Gapless
<1>11. Drained'
  BY <1>1, <1>5 DEF Drained, Reported
<1>. QED  BY <1>3, <1>4, <1>8, <1>10, <1>11

LEMMA ReadMessageInv == FlowInv /\ ReadMessage => FlowInv'
<1>. SUFFICES ASSUME FlowInv, ReadMessage PROVE FlowInv'
  OBVIOUS
<1>. USE DEF FlowInv
<1>1. /\ at["producer"] = "read" /\ next <= Len(source) /\ source[next] # "bad"
      /\ held' = [held EXCEPT !["producer"] = <<next>>]
      /\ next' = next + 1
      /\ at' = [at EXCEPT !["producer"] = IF SendsAtEnd THEN "final" ELSE "send"]
      /\ UNCHANGED <<mode, source, chan, errs, closed, ctx, got>>
  BY DEF ReadMessage, Go
<1>2. Len(source) <= MaxEntries /\ next \in Nat \ {0} /\ Len(source) \in Nat
  BY Parts
<1>3. /\ at'["relay"] = at["relay"] /\ at'["reader"] = at["reader"]
      /\ at'["producer"] \in {"send", "final"}
      /\ at'["producer"] = "final" => next = Len(source)
  BY <1>1 DEF TypeOK, Goroutine, SendsAtEnd
<1>4. held["producer"] = <<>>
  BY <1>1 DEF Places
<1>5. held'["producer"] = <<next>> /\ held'["relay"] = held["relay"]
  BY <1>1 DEF TypeOK, Goroutine
<1>6. TypeOK'
  <2>1. <<next>> \in SeqOf(Position, 1)
    <3>. DEFINE s == <<next>>
    <3>1. next \in Position
      BY <1>1, <1>2, MaxEntriesAssumption DEF Position
    <3>2. s \in Seq(Position) /\ Len(s) <= 1
      BY <3>1
    <3>. HIDE DEF s
    <3>3. s \in SeqOf(Position, 1)
      BY <3>2, SeqOfIsSeq
    <3>. QED  BY <3>3 DEF s
  <2>2. held' \in [Goroutine -> SeqOf(Position, 1)]
    BY <1>1, <2>1 DEF TypeOK
  <2>3. next' \in 1..(MaxEntries + 1)
    BY <1>1, <1>2, MaxEntriesAssumption
  <2>. QED  BY <1>1, <2>2, <2>3 DEF TypeOK
<1>7. Places'
  BY <1>1, <1>2, <1>3, <1>5 DEF Places
<1>8. /\ Mail' = Mail /\ WantedMail' = WantedMail /\ Offered' = Offered
      /\ Got' = Got /\ Out' = Out /\ Base' = Base /\ Sent' = Sent
      /\ Passing' = Passing /\ InHand' = {next} /\ InHand = {}
  BY <1>1, <1>4, <1>5, SameMail, SameParts, ElementsOfOne, ElementsOfNone DEF Passing, InHand
<1>9. Passed' = Passed /\ Everything' = Everything \cup {next}
  BY <1>8 DEF Passed, Everything
<1>10. /\ Mail \subseteq Nat /\ WantedMail \subseteq Mail /\ next \in Mail
  BY <1>1, <1>2 DEF Mail, WantedMail
<1>11. Everything \subseteq Mail /\ \A m \in Everything : m < next
  BY DEF Sorted
<1>12. Sorted'
  <2>1. /\ InOrder(got)' /\ InOrder(chan["out"])' /\ InOrder(held["relay"])'
        /\ InOrder(chan["base"])'
    BY <1>1, <1>5 DEF Sorted, InOrder
  <2>2. InOrder(held["producer"])'
    <3>1. InOrder(<<next>>)
      BY <1>2, OrderOfOne
    <3>. QED  BY <1>5, <3>1 DEF InOrder
  <2>3. (Len(got) + Len(chan["out"]) + Len(held["relay"]) + Len(chan["base"])
          + Len(held["producer"]) < next)'
    <3>. DEFINE a == Len(got)
                b == Len(chan["out"])
                h == Len(held["relay"])
                c == Len(chan["base"])
                d == Len(held["producer"])
    <3>1. a + b + h + c + d < next
      BY DEF Sorted
    <3>2. a \in Nat /\ b \in Nat /\ c \in Nat /\ h \in Nat /\ d = 0
      BY <1>4, Parts
    <3>3. /\ Len(got') = a /\ Len(chan'["out"]) = b /\ Len(held'["relay"]) = h
          /\ Len(chan'["base"]) = c /\ Len(held'["producer"]) = 1
      BY <1>1, <1>5
    <3>. HIDE DEF a, b, c, d, h
    <3>4. a + b + h + c + 1 < next + 1
      BY <1>2, <3>1, <3>2
    <3>. QED  BY <1>1, <3>3, <3>4
  <2>4. \A m \in Everything' : m < next'
    BY <1>1, <1>2, <1>9, <1>10, <1>11
  <2>5. \A x \in Got \cup Out \cup Passing \cup Base : x < next
    BY <1>11 DEF Everything
  <2>6. /\ \A x \in Got' : \A y \in Out' \cup Passing' \cup Base' \cup InHand' : x < y
        /\ \A x \in Out' : \A y \in Passing' \cup Base' \cup InHand' : x < y
        /\ \A x \in Passing' : \A y \in Base' \cup InHand' : x < y
        /\ \A x \in Base' : \A y \in InHand' : x < y
    <3>1. /\ \A x \in Got : \A y \in Out \cup Passing \cup Base : x < y
          /\ \A x \in Out : \A y \in Passing \cup Base : x < y
          /\ \A x \in Passing : \A y \in Base : x < y
      BY DEF Sorted
    <3>. QED  BY <1>8, <2>5, <3>1
  <2>7. Everything' \subseteq Mail' /\ Got' \cup Out' \cup Passing' \subseteq WantedMail'
    BY <1>8, <1>9, <1>10 DEF Sorted
  <2>. QED  BY <2>1, <2>2, <2>3, <2>4, <2>6, <2>7 DEF Sorted
<1>13. \A m \in WantedMail : m < next' => m < next \/ m = next
  BY <1>1, <1>2, <1>10
<1>14. Accounted'
  <2>1. AllRead(Everything) => AllRead(Everything)'
    BY <1>8, <1>9, <1>13 DEF AllRead
  <2>2. ProducerLive' /\ (RelayLive' <=> RelayLive) /\ (Evidence' <=> Evidence)
    BY <1>1, <1>3 DEF ProducerLive, RelayLive, Evidence, Excused, Reported
  <2>3. ProducerLive
    BY <1>1 DEF ProducerLive
  <2>. QED  BY <1>1, <1>8, <1>9, <2>1, <2>2, <2>3 DEF Accounted, Gapless
<1>15. Drained'
  BY <1>1, <1>3, <1>5, <1>8 DEF Drained, Reported
<1>. QED  BY <1>6, <1>7, <1>12, <1>14, <1>15

\* What a send does to the channel it goes into.
LEMMA PushEffect ==
  ASSUME TypeOK, NEW g \in Goroutine, Push(g)
  PROVE  /\ chan' \in [Channel -> SeqOf(Position, Capacity)]
         /\ held' \in [Goroutine -> SeqOf(Position, 1)]
         /\ chan'[Own(g)] = chan[Own(g)] \o held[g]
         /\ held'[g] = <<>>
         /\ \A c \in Channel : c # Own(g) => chan'[c] = chan[c]
         /\ \A h \in Goroutine : h # g => held'[h] = held[h]
<1>1. Own(g) \in Channel
  BY DEF Own, Channel
<1>. DEFINE c == chan[Own(g)]
            h == held[g]
<1>2. /\ Len(c) < Capacity
      /\ chan' = [chan EXCEPT ![Own(g)] = c \o h]
      /\ held' = [held EXCEPT ![g] = <<>>]
  BY DEF Push
<1>3. c \in SeqOf(Position, Capacity) /\ h \in SeqOf(Position, 1)
  BY <1>1 DEF TypeOK
<1>. HIDE DEF c, h
<1>4. c \in Seq(Position) /\ h \in Seq(Position) /\ Len(h) <= 1
  <2>1. 1 \in Nat
    OBVIOUS
  <2>. QED  BY <1>3, <2>1, SeqOfIsSeq, CapacityAssumption
<1>5. c \o h \in Seq(Position) /\ Len(c \o h) <= Capacity
  BY <1>2, <1>4, CapacityAssumption
<1>6. c \o h \in SeqOf(Position, Capacity)
  <2>. DEFINE s == c \o h
  <2>1. s \in Seq(Position) /\ Len(s) <= Capacity
    BY <1>5
  <2>. HIDE DEF s
  <2>2. s \in SeqOf(Position, Capacity)
    BY <2>1, SeqOfIsSeq, CapacityAssumption
  <2>. QED  BY <2>2 DEF s
<1>7. chan' \in [Channel -> SeqOf(Position, Capacity)]
  BY <1>2, <1>6 DEF TypeOK
<1>8. held' \in [Goroutine -> SeqOf(Position, 1)]
  BY <1>2, EmptyIsSeqOf DEF TypeOK
<1>. QED  BY <1>1, <1>2, <1>7, <1>8 DEF TypeOK, c, h

\* What a receive does to the channel it takes from.
LEMMA PullEffect ==
  ASSUME TypeOK, NEW c \in Channel, chan[c] # <<>>, chan' = [chan EXCEPT ![c] = Tail(@)]
  PROVE  /\ chan' \in [Channel -> SeqOf(Position, Capacity)]
         /\ Head(chan[c]) \in Position
         /\ ToSet(chan[c]) = {Head(chan[c])} \cup ToSet(chan'[c])
         /\ chan[c] \in Seq(Nat) /\ chan'[c] = Tail(chan[c])
         /\ Len(chan[c]) \in Nat /\ Len(chan'[c]) \in Nat /\ Len(chan[c]) = Len(chan'[c]) + 1
         /\ \A d \in Channel : d # c => chan'[d] = chan[d]
<1>. DEFINE s == chan[c]
            t == Tail(s)
<1>1. s \in SeqOf(Position, Capacity) /\ s # <<>> /\ s \in Seq(Nat)
  BY Parts DEF TypeOK, Channel
<1>2. chan' = [chan EXCEPT ![c] = t]
  OBVIOUS
<1>. HIDE DEF s, t
<1>3. s \in Seq(Position) /\ Len(s) <= Capacity
  BY <1>1, SeqOfIsSeq, CapacityAssumption
<1>4. /\ Head(s) \in Position /\ t \in Seq(Position) /\ Len(t) = Len(s) - 1
      /\ ToSet(s) = {Head(s)} \cup ToSet(t)
  BY <1>1, <1>3, ElementsOfTail DEF t
<1>5. Len(s) \in Nat /\ Len(t) \in Nat /\ Len(t) <= Capacity /\ Len(s) = Len(t) + 1
  BY <1>3, <1>4, CapacityAssumption
<1>6. t \in SeqOf(Position, Capacity)
  BY <1>4, <1>5, SeqOfIsSeq, CapacityAssumption
<1>7. /\ chan' \in [Channel -> SeqOf(Position, Capacity)]
      /\ chan'[c] = t
      /\ \A d \in Channel : d # c => chan'[d] = chan[d]
  BY <1>2, <1>6 DEF TypeOK
<1>8. chan[c] = s /\ t = Tail(s)
  BY DEF s, t
<1>9. /\ Head(chan[c]) \in Position
      /\ ToSet(chan[c]) = {Head(chan[c])} \cup ToSet(chan'[c])
  BY <1>4, <1>7, <1>8
<1>10. /\ Len(chan[c]) \in Nat /\ Len(chan'[c]) \in Nat /\ Len(chan[c]) = Len(chan'[c]) + 1
  BY <1>5, <1>7, <1>8
<1>. QED  BY <1>1, <1>7, <1>8, <1>9, <1>10

LEMMA ProducerSendInv == FlowInv /\ ProducerSend => FlowInv'
<1>. SUFFICES ASSUME FlowInv, ProducerSend PROVE FlowInv'
  OBVIOUS
<1>. USE DEF FlowInv
<1>1. /\ at["producer"] \in {"send", "final"} /\ Push("producer")
      /\ at' = [at EXCEPT !["producer"] = IF at["producer"] = "final" THEN "closing" ELSE "read"]
      /\ UNCHANGED <<mode, source, next, errs, closed, ctx, got>>
  BY DEF ProducerSend, Go
<1>2. /\ chan' \in [Channel -> SeqOf(Position, Capacity)]
      /\ held' \in [Goroutine -> SeqOf(Position, 1)]
      /\ chan'["base"] = chan["base"] \o held["producer"] /\ chan'["out"] = chan["out"]
      /\ held'["producer"] = <<>> /\ held'["relay"] = held["relay"]
  BY <1>1, PushEffect DEF Goroutine, Channel, Own
<1>3. /\ at'["relay"] = at["relay"] /\ at'["reader"] = at["reader"]
      /\ at'["producer"] = IF at["producer"] = "final" THEN "closing" ELSE "read"
  BY <1>1 DEF TypeOK, Goroutine
<1>4. TypeOK'
  BY <1>1, <1>2 DEF TypeOK
<1>5. Places'
  BY <1>1, <1>2, <1>3 DEF Places
<1>6. chan["base"] \in Seq(Nat) /\ held["producer"] \in Seq(Nat)
  BY Parts
<1>7. /\ Mail' = Mail /\ WantedMail' = WantedMail /\ Offered' = Offered
      /\ Got' = Got /\ Out' = Out /\ Passing' = Passing
      /\ Base' = Base \cup InHand /\ InHand' = {}
  BY <1>1, <1>2, <1>6, SameMail, ElementsOfConcat, ElementsOfNone
     DEF Got, Out, Passing, Base, InHand
<1>8. Everything' = Everything /\ Passed' = Everything
  BY <1>7 DEF Everything, Passed
<1>9. Sorted'
  <2>1. InOrder(chan'["base"])
    <3>1. InOrder(chan["base"] \o held["producer"])
      BY <1>6, OrderOfConcat DEF Sorted, Base, InHand
    <3>. QED  BY <1>2, <3>1
  <2>2. InOrder(held'["producer"]) /\ InOrder(held'["relay"]) /\ InOrder(chan'["out"])
        /\ InOrder(got')
    BY <1>1, <1>2, OrderOfOne DEF Sorted
  <2>3. /\ InOrder(got)' /\ InOrder(chan["out"])' /\ InOrder(held["relay"])'
        /\ InOrder(chan["base"])' /\ InOrder(held["producer"])'
    BY <2>1, <2>2 DEF InOrder
  <2>4. (Len(got) + Len(chan["out"]) + Len(held["relay"]) + Len(chan["base"])
          + Len(held["producer"]) < next)'
    <3>. DEFINE a == Len(got)
                b == Len(chan["out"])
                h == Len(held["relay"])
                c == Len(chan["base"])
                d == Len(held["producer"])
    <3>1. a + b + h + c + d < next
      BY DEF Sorted
    <3>2. a \in Nat /\ b \in Nat /\ c \in Nat /\ d \in Nat /\ h \in Nat /\ next \in Nat
      BY Parts
    <3>3. /\ Len(chan'["base"]) = c + d /\ Len(held'["producer"]) = 0 /\ Len(got') = a
          /\ Len(chan'["out"]) = b /\ Len(held'["relay"]) = h
      BY <1>1, <1>2, <1>6
    <3>. HIDE DEF a, b, c, d, h
    <3>4. a + b + h + (c + d) + 0 < next
      BY <3>1, <3>2
    <3>. QED  BY <1>1, <3>3, <3>4
  <2>. QED  BY <1>1, <1>7, <1>8, <2>3, <2>4 DEF Sorted
<1>10. ProducerLive
  BY <1>1 DEF ProducerLive
<1>11. AllRead(Everything) => Gapless(Everything)
  <2>1. SUFFICES ASSUME AllRead(Everything), NEW x \in Everything, NEW m \in WantedMail, m <= x
                 PROVE  m \in Everything
    BY DEF Gapless
  <2>2. x < next /\ x \in Nat /\ m \in Nat
    BY DEF Sorted, Mail, WantedMail
  <2>3. m < next
    BY <2>1, <2>2, Parts
  <2>. QED  BY <2>1, <2>3 DEF AllRead
<1>12. Gapless(Sent')
  <2>1. CASE mode.incremental
    <3>1. Sent' = Sent
      BY <1>1, <1>2, <2>1 DEF Sent, Got, Offered
    <3>. QED  BY <3>1 DEF Accounted
  <2>2. CASE ~mode.incremental
    <3>1. Out = {} /\ Passing = {} /\ RelayLive
      BY <2>2, ElementsOfNone DEF Places, Out, Passing, RelayLive
    <3>2. Sent' = Everything
      <4>1. Sent' = Got' \cup Base'
        BY <1>1, <2>2 DEF Sent, Got, Base, Offered
      <4>. QED  BY <1>7, <3>1, <4>1 DEF Everything
    <3>. QED  BY <1>10, <1>11, <3>1, <3>2 DEF Accounted
  <2>. QED  BY <2>1, <2>2
<1>13. Accounted'
  <2>1. /\ RelayLive' <=> RelayLive
        /\ Evidence' <=> Evidence
        /\ AllRead(Everything)' <=> AllRead(Everything)
    BY <1>1, <1>3, <1>7, <1>8 DEF RelayLive, Evidence, Excused, Reported, AllRead
  <2>2. ProducerLive' \/ next' > Len(source')
    BY <1>1, <1>3, Parts DEF ProducerLive, Places
  <2>3. Gapless(Sent)'
    BY <1>7, <1>12 DEF Gapless
  <2>4. mode'.incremental /\ RelayLive' => Gapless(Passed)'
    BY <1>1, <1>7, <1>8, <1>10, <1>11, <2>1 DEF Gapless, Accounted
  <2>. QED  BY <1>10, <2>1, <2>2, <2>3, <2>4 DEF Accounted
<1>14. <<"base", "msg">> \notin closed
  BY <1>1 DEF Places
<1>15. Drained'
  BY <1>1, <1>2, <1>3, <1>14 DEF Drained, Reported, Offered
<1>. QED  BY <1>4, <1>5, <1>9, <1>13, <1>15

LEMMA RelaySendInv == FlowInv /\ RelaySend => FlowInv'
<1>. SUFFICES ASSUME FlowInv, RelaySend PROVE FlowInv'
  OBVIOUS
<1>. USE DEF FlowInv
<1>1. /\ at["relay"] = "send" /\ Push("relay")
      /\ at' = [at EXCEPT !["relay"] = "read"]
      /\ UNCHANGED <<mode, source, next, errs, closed, ctx, got>>
  BY DEF RelaySend, Go
<1>2. /\ chan' \in [Channel -> SeqOf(Position, Capacity)]
      /\ held' \in [Goroutine -> SeqOf(Position, 1)]
      /\ chan'["out"] = chan["out"] \o held["relay"] /\ chan'["base"] = chan["base"]
      /\ held'["relay"] = <<>> /\ held'["producer"] = held["producer"]
  BY <1>1, PushEffect DEF Goroutine, Channel, Own
<1>3. /\ at'["relay"] = "read" /\ at'["reader"] = at["reader"]
      /\ at'["producer"] = at["producer"]
  BY <1>1 DEF TypeOK, Goroutine
<1>4. TypeOK'
  BY <1>1, <1>2 DEF TypeOK
<1>5. mode.incremental /\ Offered = "out" /\ <<"out", "msg">> \notin closed
  BY <1>1 DEF Places, Offered
<1>6. Places'
  BY <1>1, <1>2, <1>3, <1>5 DEF Places
<1>7. chan["out"] \in Seq(Nat) /\ held["relay"] \in Seq(Nat)
  BY Parts
<1>8. /\ Mail' = Mail /\ WantedMail' = WantedMail /\ Offered' = Offered
      /\ Got' = Got /\ Base' = Base /\ InHand' = InHand
      /\ Out' = Out \cup Passing /\ Passing' = {}
  BY <1>1, <1>2, <1>7, SameMail, ElementsOfConcat, ElementsOfNone
     DEF Got, Out, Passing, Base, InHand
<1>9. Everything' = Everything /\ Passed' = Passed
  BY <1>8 DEF Everything, Passed
<1>10. Sorted'
  <2>1. InOrder(chan'["out"])
    <3>1. InOrder(chan["out"] \o held["relay"])
      BY <1>7, OrderOfConcat DEF Sorted, Out, Passing
    <3>. QED  BY <1>2, <3>1
  <2>2. InOrder(held'["producer"]) /\ InOrder(held'["relay"]) /\ InOrder(chan'["base"])
        /\ InOrder(got')
    BY <1>1, <1>2, OrderOfOne DEF Sorted
  <2>3. /\ InOrder(got)' /\ InOrder(chan["out"])' /\ InOrder(held["relay"])'
        /\ InOrder(chan["base"])' /\ InOrder(held["producer"])'
    BY <2>1, <2>2 DEF InOrder
  <2>4. (Len(got) + Len(chan["out"]) + Len(held["relay"]) + Len(chan["base"])
          + Len(held["producer"]) < next)'
    <3>. DEFINE a == Len(got)
                b == Len(chan["out"])
                h == Len(held["relay"])
                c == Len(chan["base"])
                d == Len(held["producer"])
    <3>1. a + b + h + c + d < next
      BY DEF Sorted
    <3>2. a \in Nat /\ b \in Nat /\ c \in Nat /\ d \in Nat /\ h \in Nat /\ next \in Nat
      BY Parts
    <3>3. /\ Len(chan'["out"]) = b + h /\ Len(held'["relay"]) = 0 /\ Len(got') = a
          /\ Len(chan'["base"]) = c /\ Len(held'["producer"]) = d
      BY <1>1, <1>2, <1>7
    <3>. HIDE DEF a, b, c, d, h
    <3>4. a + (b + h) + 0 + c + d < next
      BY <3>1, <3>2
    <3>. QED  BY <1>1, <3>3, <3>4
  <2>. QED  BY <1>1, <1>8, <1>9, <2>3, <2>4 DEF Sorted
<1>11. Gapless(Passed) /\ RelayLive /\ RelayLive'
  BY <1>1, <1>3, <1>5 DEF Accounted, RelayLive
<1>12. Gapless(Sent')
  <2>1. Sent' = Got \cup Out \cup Passing
    <3>1. Sent' = Got' \cup Out'
      BY <1>1, <1>5 DEF Sent, Got, Out, Offered
    <3>. QED  BY <1>8, <3>1
  <2>2. SUFFICES ASSUME NEW x \in Got \cup Out \cup Passing, NEW m \in WantedMail, m <= x
                 PROVE  m \in Got \cup Out \cup Passing
    BY <2>1 DEF Gapless
  <2>3. m \in Passed
    BY <1>11, <2>2 DEF Gapless, Passed
  <2>4. x \in Nat /\ m \in Nat
    BY DEF Sorted, Mail, WantedMail, Everything
  <2>5. m \in Base => x < m
    BY DEF Sorted
  <2>. QED  BY <2>2, <2>3, <2>4, <2>5 DEF Passed
<1>13. Accounted'
  <2>1. /\ ProducerLive' <=> ProducerLive
        /\ Evidence' <=> Evidence
        /\ AllRead(Everything)' <=> AllRead(Everything)
    BY <1>1, <1>3, <1>8, <1>9 DEF ProducerLive, Evidence, Excused, Reported, AllRead
  <2>2. Gapless(Sent)' /\ Gapless(Passed)'
    BY <1>8, <1>9, <1>11, <1>12 DEF Gapless
  <2>. QED  BY <1>1, <1>11, <2>1, <2>2 DEF Accounted
<1>14. Drained'
  BY <1>1, <1>2, <1>3, <1>5, <1>8 DEF Drained, Reported
<1>. QED  BY <1>4, <1>6, <1>10, <1>13, <1>14

LEMMA RelayReceiveInv == FlowInv /\ RelayReceive => FlowInv'
<1>. SUFFICES ASSUME FlowInv, RelayReceive PROVE FlowInv'
  OBVIOUS
<1>. USE DEF FlowInv
<1>. DEFINE m == Head(chan["base"])
            new == NewerThanCheckpoint(m)
<1>1. /\ at["relay"] = "read" /\ chan["base"] # <<>>
      /\ chan' = [chan EXCEPT !["base"] = Tail(@)]
      /\ new => held' = [held EXCEPT !["relay"] = <<m>>] /\ at' = [at EXCEPT !["relay"] = "send"]
      /\ ~new => UNCHANGED <<held, at>>
      /\ UNCHANGED <<mode, source, next, errs, closed, ctx, got>>
  BY DEF RelayReceive, Go
<1>2. /\ chan' \in [Channel -> SeqOf(Position, Capacity)]
      /\ m \in Position
      /\ Base = {m} \cup Base'
      /\ chan["base"] \in Seq(Nat) /\ chan'["base"] = Tail(chan["base"])
      /\ Len(chan["base"]) \in Nat /\ Len(chan'["base"]) \in Nat
      /\ Len(chan["base"]) = Len(chan'["base"]) + 1
      /\ chan'["out"] = chan["out"]
  BY <1>1, PullEffect DEF Channel, Base
<1>3. mode.incremental /\ Offered = "out" /\ held["relay"] = <<>>
  BY <1>1 DEF Places, Offered
<1>4. m \in Everything /\ m \in Mail /\ (m \in WantedMail <=> new)
  <2>1. m \in Everything /\ m \in Mail
    BY <1>2 DEF Everything, Sorted
  <2>2. IsWanted(m) <=> new
    BY <1>3 DEF IsWanted
  <2>. QED  BY <2>1, <2>2 DEF WantedMail
<1>5. /\ at'["reader"] = at["reader"] /\ at'["producer"] = at["producer"]
      /\ at'["relay"] = IF new THEN "send" ELSE "read"
      /\ held'["producer"] = held["producer"]
      /\ held'["relay"] = IF new THEN <<m>> ELSE <<>>
  BY <1>1, <1>3 DEF TypeOK, Goroutine
<1>6. TypeOK'
  <2>1. <<m>> \in SeqOf(Position, 1)
    <3>. DEFINE s == <<m>>
    <3>. HIDE DEF m
    <3>1. s \in Seq(Position) /\ Len(s) <= 1
      BY <1>2
    <3>. HIDE DEF s
    <3>2. s \in SeqOf(Position, 1)
      BY <3>1, SeqOfIsSeq
    <3>. QED  BY <3>2 DEF s
  <2>2. held' \in [Goroutine -> SeqOf(Position, 1)]
    BY <1>1, <2>1 DEF TypeOK
  <2>3. at' \in [Goroutine \cup {"reader"} ->
               {"read", "send", "final", "errors", "closing", "closed", "ok", "failed"}]
    BY <1>1 DEF TypeOK
  <2>. QED  BY <1>1, <1>2, <2>2, <2>3 DEF TypeOK
<1>7. Places'
  BY <1>1, <1>2, <1>3, <1>5 DEF Places
<1>8. /\ Mail' = Mail /\ WantedMail' = WantedMail /\ Offered' = Offered
      /\ Got' = Got /\ Out' = Out /\ InHand' = InHand /\ Sent' = Sent
  BY <1>1, <1>2, <1>3, <1>5, SameMail DEF Got, Out, InHand, Sent
<1>9. Passing = {} /\ (new => Passing' = {m}) /\ (~new => Passing' = {})
  BY <1>3, <1>5, ElementsOfOne, ElementsOfNone DEF Passing
<1>10. /\ new => Everything' = Everything /\ Passed' = Passed
       /\ Everything' \subseteq Everything
       /\ \A x \in WantedMail : x \in Everything => x \in Everything'
       /\ Passed' \subseteq Passed
       /\ \A x \in WantedMail : x \in Passed => x \in Passed'
  BY <1>2, <1>4, <1>8, <1>9 DEF Everything, Passed
<1>11. InOrder(chan'["base"]) /\ \A y \in Base' : m < y
  BY <1>1, <1>2, OrderOfTail DEF Sorted, Base
<1>12. Sorted'
  <2>1. InOrder(held'["relay"])
    <3>1. m \in Nat
      BY <1>2, Parts
    <3>. QED  BY <1>5, <3>1, OrderOfOne
  <2>2. InOrder(held'["producer"]) /\ InOrder(chan'["out"]) /\ InOrder(got')
    BY <1>1, <1>2, <1>5 DEF Sorted
  <2>3. /\ InOrder(got)' /\ InOrder(chan["out"])' /\ InOrder(held["relay"])'
        /\ InOrder(chan["base"])' /\ InOrder(held["producer"])'
    BY <1>11, <2>1, <2>2 DEF InOrder
  <2>4. (Len(got) + Len(chan["out"]) + Len(held["relay"]) + Len(chan["base"])
          + Len(held["producer"]) < next)'
    <3>. DEFINE a == Len(got)
                b == Len(chan["out"])
                h == Len(held["relay"])
                c == Len(chan["base"])
                d == Len(held["producer"])
                h1 == Len(held'["relay"])
                c1 == Len(chan'["base"])
    <3>1. a + b + h + c + d < next
      BY DEF Sorted
    <3>2. /\ a \in Nat /\ b \in Nat /\ c \in Nat /\ d \in Nat /\ h = 0 /\ next \in Nat
          /\ h1 \in Nat /\ h1 <= 1 /\ c1 \in Nat /\ c = c1 + 1
      BY <1>2, <1>3, <1>5, Parts
    <3>3. /\ Len(chan'["out"]) = b /\ Len(got') = a /\ Len(held'["producer"]) = d
      BY <1>1, <1>2, <1>5
    <3>. HIDE DEF a, b, c, d, h, c1, h1
    <3>4. a + b + h1 + c1 + d < next
      BY <3>1, <3>2
    <3>. QED  BY <1>1, <3>3, <3>4 DEF h1, c1
  <2>5. /\ \A x \in Got : \A y \in Out' \cup Passing' \cup Base' \cup InHand' : x < y
        /\ \A x \in Out : \A y \in Passing' \cup Base' \cup InHand' : x < y
    BY <1>2, <1>8, <1>9 DEF Sorted
  <2>6. /\ \A x \in Passing' : \A y \in Base' \cup InHand' : x < y
        /\ \A x \in Base' : \A y \in InHand' : x < y
    BY <1>2, <1>8, <1>9, <1>11 DEF Sorted
  <2>7. /\ Everything' \subseteq Mail' /\ \A x \in Everything' : x < next'
        /\ Got' \cup Out' \cup Passing' \subseteq WantedMail'
    BY <1>1, <1>4, <1>8, <1>9, <1>10 DEF Sorted
  <2>. QED  BY <1>8, <2>3, <2>4, <2>5, <2>6, <2>7 DEF Sorted
<1>13. Accounted'
  <2>1. /\ ProducerLive' <=> ProducerLive
        /\ Evidence' <=> Evidence
        /\ AllRead(Everything) => AllRead(Everything)'
        /\ RelayLive /\ RelayLive'
    BY <1>1, <1>3, <1>5, <1>8, <1>10
       DEF ProducerLive, RelayLive, Evidence, Excused, Reported, AllRead
  <2>2. Gapless(Sent)' /\ Gapless(Passed)'
    BY <1>3, <1>8, <1>10, <2>1 DEF Gapless, Accounted
  <2>. QED  BY <1>1, <2>1, <2>2 DEF Accounted
<1>14. Drained'
  BY <1>1, <1>2, <1>3, <1>5, <1>8 DEF Drained, Reported
<1>. QED  BY <1>6, <1>7, <1>12, <1>13, <1>14

LEMMA ReadNextInv == FlowInv /\ ReadNext => FlowInv'
<1>. SUFFICES ASSUME FlowInv, ReadNext PROVE FlowInv'
  OBVIOUS
<1>. USE DEF FlowInv
<1>. DEFINE c == Offered
            m == Head(chan[c])
<1>1. /\ at["reader"] = "read" /\ chan[c] # <<>>
      /\ got' = Append(got, m)
      /\ chan' = [chan EXCEPT ![c] = Tail(@)]
      /\ UNCHANGED <<mode, source, next, held, at, errs, closed, ctx>>
  BY DEF ReadNext
<1>2. /\ c \in Channel
      /\ c = "out" => mode.incremental
      /\ c = "base" => ~mode.incremental
  BY DEF Offered, Channel
<1>3. /\ chan' \in [Channel -> SeqOf(Position, Capacity)]
      /\ m \in Position /\ m \in Nat
      /\ ToSet(chan[c]) = {m} \cup ToSet(chan'[c])
      /\ chan[c] \in Seq(Nat) /\ chan'[c] = Tail(chan[c])
      /\ Len(chan[c]) \in Nat /\ Len(chan'[c]) \in Nat
      /\ Len(chan[c]) = Len(chan'[c]) + 1
      /\ \A d \in Channel : d # c => chan'[d] = chan[d]
  BY <1>1, <1>2, PullEffect, Parts
<1>4. /\ Mail' = Mail /\ WantedMail' = WantedMail /\ Offered' = Offered
      /\ Passing' = Passing /\ InHand' = InHand
  BY <1>1, SameMail, SameHeld
<1>. HIDE DEF c, m
<1>5. got \in Seq(Nat)
  BY Parts
<1>6. /\ Got' = Got \cup {m} /\ Len(got') = Len(got) + 1
      /\ InOrder(got) /\ (\A y \in Got : y < m) => InOrder(got')
  BY <1>1, <1>3, <1>5, OrderOfAppend DEF Got
<1>7. /\ c = "out" => Out = {m} \cup Out' /\ Base' = Base /\ chan'["base"] = chan["base"]
      /\ c = "base" => Base = {m} \cup Base' /\ Out' = Out /\ chan'["out"] = chan["out"]
  BY <1>3 DEF Out, Base, Channel
<1>8. /\ Sent' = Sent /\ Everything' = Everything /\ Passed' = Passed
  <2>1. Sent = Got \cup ToSet(chan[c]) /\ Sent' = Got' \cup ToSet(chan'[c])
    BY <1>1, <1>4 DEF Sent, Got, c
  <2>2. Sent' = Sent
    BY <1>3, <1>6, <2>1
  <2>. QED  BY <1>2, <1>4, <1>6, <1>7, <2>2 DEF Everything, Passed, Channel
<1>9. /\ ~mode.incremental => Out = {} /\ Passing = {}
      /\ ~mode.incremental => Mail = WantedMail
  <2>1. ~mode.incremental => Out = {} /\ Passing = {}
    BY ElementsOfNone DEF Places, Out, Passing
  <2>2. ~mode.incremental => Mail = WantedMail
    <3>1. source \in Seq(Kinds)
      BY SeqOfIsSeq, MaxEntriesAssumption DEF TypeOK
    <3>2. \A i \in 1..Len(source) : source[i] \in Kinds
      BY <3>1
    <3>. QED  BY <3>2 DEF Mail, WantedMail, IsWanted, NewerThanCheckpoint, Kinds
  <2>. QED  BY <2>1, <2>2
<1>10. /\ m \in WantedMail
       /\ \A y \in Got : y < m
       /\ m \in Everything
  BY <1>2, <1>7, <1>9 DEF Sorted, Channel, Everything
<1>11. InOrder(chan'[c]) /\ \A y \in ToSet(chan'[c]) : m < y
  <2>1. InOrder(chan[c])
    BY <1>2 DEF Sorted, Channel
  <2>. QED  BY <1>1, <1>3, <2>1, OrderOfTail DEF m
<1>12. Sorted'
  <2>1. InOrder(got') /\ InOrder(chan'["out"]) /\ InOrder(chan'["base"])
        /\ InOrder(held'["relay"]) /\ InOrder(held'["producer"])
    BY <1>1, <1>2, <1>6, <1>7, <1>10, <1>11 DEF Sorted, Channel
  <2>2. /\ InOrder(got)' /\ InOrder(chan["out"])' /\ InOrder(held["relay"])'
        /\ InOrder(chan["base"])' /\ InOrder(held["producer"])'
    BY <2>1 DEF InOrder
  <2>3. (Len(got) + Len(chan["out"]) + Len(held["relay"]) + Len(chan["base"])
          + Len(held["producer"]) < next)'
    <3>. DEFINE a == Len(got)
                b == Len(chan["out"])
                h == Len(held["relay"])
                e == Len(chan["base"])
                d == Len(held["producer"])
                b1 == Len(chan'["out"])
                e1 == Len(chan'["base"])
    <3>1. a + b + h + e + d < next
      BY DEF Sorted
    <3>2. /\ a \in Nat /\ b \in Nat /\ e \in Nat /\ d \in Nat /\ h \in Nat /\ next \in Nat
      BY Parts
    <3>3. /\ b1 \in Nat /\ e1 \in Nat
          /\ (b = b1 + 1 /\ e = e1) \/ (b = b1 /\ e = e1 + 1)
      BY <1>2, <1>3, <1>7, <3>2 DEF Channel
    <3>4. Len(held'["relay"]) = h /\ Len(held'["producer"]) = d /\ Len(got') = a + 1
      BY <1>1, <1>6
    <3>. HIDE DEF a, b, h, e, d, b1, e1
    <3>5. (a + 1) + b1 + h + e1 + d < next
      BY <3>1, <3>2, <3>3
    <3>. QED  BY <1>1, <3>4, <3>5 DEF b1, e1
  <2>4. CASE c = "out"
    <3>1. /\ \A y \in Out' : m < y
      BY <1>11, <2>4 DEF Out
    <3>. QED  BY <1>1, <1>4, <1>6, <1>7, <1>8, <1>10, <2>2, <2>3, <2>4, <3>1 DEF Sorted
  <2>5. CASE c = "base"
    <3>1. /\ \A y \in Base' : m < y
      BY <1>11, <2>5 DEF Base
    <3>. QED  BY <1>1, <1>2, <1>4, <1>6, <1>7, <1>8, <1>9, <1>10, <2>2, <2>3, <2>5, <3>1 DEF Sorted
  <2>. QED  BY <1>2, <2>4, <2>5 DEF Channel
<1>13. TypeOK'
  <2>1. Len(got') <= MaxEntries
    <3>. DEFINE a == Len(got')
                b == Len(chan'["out"])
                h == Len(held'["relay"])
                e == Len(chan'["base"])
                d == Len(held'["producer"])
    <3>0. next' = next /\ next \in 1..(MaxEntries + 1)
      BY <1>1 DEF TypeOK
    <3>1. a \in Nat /\ h \in Nat /\ d \in Nat
      BY <1>1, <1>5, <1>6, Parts
    <3>9. b \in Nat /\ e \in Nat
      BY <1>2, <1>3, <1>7, Parts DEF Channel
    <3>2. a + b + h + e + d < next'
      BY <1>12 DEF Sorted
    <3>. HIDE DEF a, b, h, e, d
    <3>3. a < next
      BY <3>0, <3>1, <3>9, <3>2, MaxEntriesAssumption
    <3>4. a <= MaxEntries
      BY <3>0, <3>1, <3>3, MaxEntriesAssumption
    <3>. QED  BY <3>4 DEF a
  <2>2. got \in Seq(Position)
    BY SeqOfIsSeq, MaxEntriesAssumption DEF TypeOK
  <2>3. got' \in Seq(Position)
    BY <1>1, <1>3, <2>2
  <2>4. got' \in SeqOf(Position, MaxEntries)
    BY <2>1, <2>3, SeqOfIsSeq, MaxEntriesAssumption
  <2>. QED  BY <1>1, <1>3, <2>4 DEF TypeOK
<1>14. Places'
  <2>1. ~mode.incremental => chan'["out"] = <<>>
    BY <1>2, <1>7 DEF Places, Channel
  <2>. QED  BY <1>1, <2>1 DEF Places
<1>15. Accounted'
  BY <1>1, <1>4, <1>8
     DEF Accounted, Gapless, AllRead, ProducerLive, RelayLive, Evidence, Excused, Reported
<1>16. Drained'
  BY <1>1, <1>2, <1>4, <1>7 DEF Drained, Reported, Channel
<1>. QED  BY <1>12, <1>13, <1>14, <1>15, <1>16

(***************************************************************************)
(* The invariant of the whole flow.                                        *)
(***************************************************************************)
LEMMA FlowInvInit == Init => FlowInv
<1>. SUFFICES ASSUME Init PROVE FlowInv
  OBVIOUS
<1>1. /\ mode \in Modes /\ source \in SeqOf(Kinds, MaxEntries) /\ next = 1
      /\ held = [g \in Goroutine |-> <<>>]
      /\ at = [g \in Goroutine \cup {"reader"} |->
                 IF g = "relay" /\ ~mode.incremental THEN "closed" ELSE "read"]
      /\ chan = [c \in Channel |-> <<>>] /\ errs = [c \in Channel |-> <<>>]
      /\ closed = {} /\ ctx = "live" /\ got = <<>>
  BY DEF Init
<1>2. TypeOK
  <2>1. 1 \in Nat /\ Capacity \in Nat /\ MaxEntries \in Nat
    BY CapacityAssumption, MaxEntriesAssumption
  <2>2. held \in [Goroutine -> SeqOf(Position, 1)]
    BY <1>1, <2>1, EmptyIsSeqOf
  <2>3. chan \in [Channel -> SeqOf(Position, Capacity)]
    BY <1>1, <2>1, EmptyIsSeqOf
  <2>4. errs \in [Channel -> SeqOf({"ctx", "io"}, 1)]
    BY <1>1, <2>1, EmptyIsSeqOf
  <2>5. got \in SeqOf(Position, MaxEntries)
    BY <1>1, <2>1, EmptyIsSeqOf
  <2>6. next \in 1..(MaxEntries + 1)
    BY <1>1, <2>1
  <2>7. closed \subseteq Channel \X {"msg", "err"}
    BY <1>1
  <2>. QED  BY <1>1, <2>2, <2>3, <2>4, <2>5, <2>6, <2>7 DEF TypeOK
<1>3. /\ at["producer"] = "read" /\ at["reader"] = "read"
      /\ at["relay"] = IF mode.incremental THEN "read" ELSE "closed"
      /\ chan["base"] = <<>> /\ chan["out"] = <<>>
      /\ errs["base"] = <<>> /\ errs["out"] = <<>>
      /\ held["producer"] = <<>> /\ held["relay"] = <<>>
  BY <1>1 DEF Goroutine, Channel
<1>4. Got = {} /\ Out = {} /\ Passing = {} /\ Base = {} /\ InHand = {} /\ Sent = {}
  BY <1>1, <1>3, ElementsOfNone DEF Got, Out, Passing, Base, InHand, Sent, Offered
<1>5. Everything = {} /\ Passed = {}
  BY <1>4 DEF Everything, Passed
<1>6. Places
  <2>1. next <= Len(source) + 1
    BY <1>1, <1>2, Parts
  <2>2. \A c \in Channel : ToSet(errs[c]) = {}
    BY <1>1, ElementsOfNone
  <2>. QED  BY <1>1, <1>3, <2>1, <2>2 DEF Places
<1>7. Sorted
  <2>1. InOrder(<<>>) /\ Len(<<>>) = 0
    BY OrderOfOne
  <2>2. Len(got) + Len(chan["out"]) + Len(held["relay"]) + Len(chan["base"])
          + Len(held["producer"]) < next
    <3>. DEFINE a == Len(got)
                b == Len(chan["out"])
                h == Len(held["relay"])
                c == Len(chan["base"])
                d == Len(held["producer"])
    <3>1. a = 0 /\ b = 0 /\ h = 0 /\ c = 0 /\ d = 0
      BY <1>1, <1>3, <2>1
    <3>. HIDE DEF a, b, h, c, d
    <3>2. a + b + h + c + d < next
      BY <1>1, <3>1
    <3>. QED  BY <3>2 DEF a, b, h, c, d
  <2>. QED  BY <1>1, <1>3, <1>4, <1>5, <2>1, <2>2 DEF Sorted
<1>8. Accounted
  <2>1. AllRead(Everything)
    BY <1>1 DEF AllRead, WantedMail, Mail
  <2>2. ProducerLive /\ Gapless({})
    BY <1>3 DEF ProducerLive, Gapless
  <2>. QED  BY <1>4, <1>5, <2>1, <2>2 DEF Accounted
<1>9. Drained
  BY <1>3 DEF Drained
<1>. QED  BY <1>2, <1>6, <1>7, <1>8, <1>9 DEF FlowInv

LEMMA FlowInvNext == FlowInv /\ [Next]_vars => FlowInv'
<1>. SUFFICES ASSUME FlowInv, [Next]_vars PROVE FlowInv'
  OBVIOUS
<1>. DEFINE Leaving == EndOfSource \/ ReadError \/ ProducerCancelled
<1>1. CASE ReadMessage
  BY <1>1, ReadMessageInv
<1>2. CASE SkipEntry
  BY <1>2, SkipEntryInv
<1>3. CASE Leaving
  BY <1>3, ProducerLeavesSteps, ProducerLeavesInv
<1>4. CASE ProducerSend
  BY <1>4, ProducerSendInv
<1>5. CASE \E g \in Goroutine : CloseErrors(g)
  BY <1>5, CloseErrorsInv
<1>6. CASE \E g \in Goroutine : CloseMessages(g)
  BY <1>6, CloseMessagesInv
<1>7. CASE RelayReceive
  BY <1>7, RelayReceiveInv
<1>8. CASE RelaySend
  BY <1>8, RelaySendInv
<1>9. CASE RelayCancelled
  BY <1>9, RelayCancelledInv
<1>10. CASE RelayBaseClosed
  BY <1>10, RelayBaseClosedInv
<1>11. CASE RelayForwardError
  BY <1>11, RelayForwardErrorInv
<1>12. CASE RelayFinish
  BY <1>12, RelayFinishInv
<1>13. CASE ReadNext
  BY <1>13, ReadNextInv
<1>14. CASE ReadClosed \/ SeeError \/ SeeNoError
  BY <1>14, ReaderStandsInv
<1>15. CASE Cancel
  BY <1>15, CancelInv
<1>16. CASE UNCHANGED vars
  <2>1. UNCHANGED <<mode, source, next, held, at, chan, errs, closed, ctx, got>>
    BY <1>16 DEF vars
  <2>2. TypeOK' /\ Places'
    BY <2>1 DEF FlowInv, TypeOK, Places
  <2>3. Sorted' /\ Mail' = Mail /\ WantedMail' = WantedMail /\ Offered' = Offered
        /\ Sent' = Sent /\ Passed' = Passed /\ Everything' = Everything
    BY <2>1, Standing DEF FlowInv
  <2>4. Accounted'
    BY <2>1, <2>3 DEF FlowInv, Accounted, Gapless, AllRead, ProducerLive, RelayLive,
                      Evidence, Excused, Reported
  <2>5. Drained'
    BY <2>1, <2>3 DEF FlowInv, Drained, Reported
  <2>. QED  BY <2>2, <2>3, <2>4, <2>5 DEF FlowInv
<1>17. "producer" \in Goroutine /\ "relay" \in Goroutine
  BY DEF Goroutine
<1>. QED
  BY <1>1, <1>2, <1>3, <1>4, <1>5, <1>6, <1>7, <1>8, <1>9, <1>10, <1>11, <1>12, <1>13,
     <1>14, <1>15, <1>16, <1>17 DEF Next, Producer, Relay, Reader

LEMMA FlowInvHolds == Spec => []FlowInv
  BY FlowInvInit, FlowInvNext, PTL DEF Spec

LEMMA LineInOrder == FlowInv => InOrder(Line) /\ ToSet(Line) = Everything
<1>. SUFFICES ASSUME FlowInv PROVE InOrder(Line) /\ ToSet(Line) = Everything
  OBVIOUS
<1>. DEFINE a == got
            b == chan["out"]
            c == held["relay"]
            d == chan["base"]
            e == held["producer"]
            de == d \o e
            cde == c \o de
            bcde == b \o cde
<1>1. /\ a \in Seq(Nat) /\ b \in Seq(Nat) /\ c \in Seq(Nat) /\ d \in Seq(Nat) /\ e \in Seq(Nat)
  BY Parts DEF FlowInv
<1>2. /\ InOrder(a) /\ InOrder(b) /\ InOrder(c) /\ InOrder(d) /\ InOrder(e)
      /\ \A x \in ToSet(a) : \A y \in ToSet(b) \cup ToSet(c) \cup ToSet(d) \cup ToSet(e) : x < y
      /\ \A x \in ToSet(b) : \A y \in ToSet(c) \cup ToSet(d) \cup ToSet(e) : x < y
      /\ \A x \in ToSet(c) : \A y \in ToSet(d) \cup ToSet(e) : x < y
      /\ \A x \in ToSet(d) : \A y \in ToSet(e) : x < y
  BY DEF FlowInv, Sorted, Got, Out, Passing, Base, InHand
<1>3. Line = a \o bcde
  BY DEF Line
<1>4. Everything = ToSet(a) \cup ToSet(b) \cup ToSet(c) \cup ToSet(d) \cup ToSet(e)
  BY DEF Everything, Got, Out, Passing, Base, InHand
<1>. HIDE DEF a, b, c, d, e
<1>5. de \in Seq(Nat) /\ InOrder(de) /\ ToSet(de) = ToSet(d) \cup ToSet(e)
  BY <1>1, <1>2, OrderOfConcat, ElementsOfConcat
<1>. HIDE DEF de
<1>6. cde \in Seq(Nat) /\ InOrder(cde) /\ ToSet(cde) = ToSet(c) \cup ToSet(de)
  BY <1>1, <1>2, <1>5, OrderOfConcat, ElementsOfConcat
<1>. HIDE DEF cde
<1>7. bcde \in Seq(Nat) /\ InOrder(bcde) /\ ToSet(bcde) = ToSet(b) \cup ToSet(cde)
  BY <1>1, <1>2, <1>5, <1>6, OrderOfConcat, ElementsOfConcat
<1>. HIDE DEF bcde
<1>8. InOrder(a \o bcde) /\ ToSet(a \o bcde) = ToSet(a) \cup ToSet(bcde)
  BY <1>1, <1>2, <1>5, <1>6, <1>7, OrderOfConcat, ElementsOfConcat
<1>. QED  BY <1>3, <1>4, <1>5, <1>6, <1>7, <1>8

LEMMA FlowIsWhole == FlowInv => NothingLostInFlight
<1>. SUFFICES ASSUME FlowInv PROVE NothingLostInFlight
  OBVIOUS
<1>1. InOrder(Line) /\ ToSet(Line) = Everything
  BY LineInOrder
<1>2. \A m \in ToSet(Line) : m < next
  BY <1>1 DEF FlowInv, Sorted
<1>3. \A m \in ToSet(got \o chan["out"]) : IsWanted(m)
  <2>1. got \in Seq(Nat) /\ chan["out"] \in Seq(Nat)
    BY Parts DEF FlowInv
  <2>2. ToSet(got \o chan["out"]) = Got \cup Out
    BY <2>1, ElementsOfConcat DEF Got, Out
  <2>. QED  BY <2>2 DEF FlowInv, Sorted, WantedMail
<1>4. ASSUME ctx = "live", "io" \notin ToSet(errs["base"] \o errs["out"]),
             at["reader"] # "failed", NEW m \in 1..(next - 1), IsWanted(m)
      PROVE  m \in ToSet(Line)
  <2>1. /\ errs["base"] \in Seq({"ctx", "io"}) /\ errs["out"] \in Seq({"ctx", "io"})
    BY SeqOfIsSeq DEF FlowInv, TypeOK, Channel
  <2>2. "io" \notin ToSet(errs["base"]) /\ "io" \notin ToSet(errs["out"])
    BY <1>4, <2>1, ElementsOfConcat
  <2>3. "ctx" \notin ToSet(errs["base"]) /\ "ctx" \notin ToSet(errs["out"])
    BY <1>4 DEF FlowInv, Places, Channel
  <2>4. \A c \in Channel : errs[c] # <<>> => Head(errs[c]) \in ToSet(errs[c]) \cap {"ctx", "io"}
    BY <2>1, ElementsOfTail DEF Channel
  <2>5. errs["base"] = <<>> /\ errs["out"] = <<>>
    BY <2>2, <2>3, <2>4 DEF Channel
  <2>6. ~Evidence
    BY <1>4, <2>5 DEF Evidence, Excused, Reported
  <2>7. AllRead(Everything)
    BY <2>6 DEF FlowInv, Accounted
  <2>8. m \in WantedMail /\ m < next
    <3>1. m < next /\ m \in 1..Len(source)
      BY SMTT(30), <1>4, Parts DEF FlowInv, Places
    <3>2. source[m] # "bad"
      BY <1>4 DEF IsWanted, NewerThanCheckpoint
    <3>. QED  BY <1>4, <3>1, <3>2 DEF WantedMail, Mail
  <2>. QED  BY <1>1, <2>7, <2>8 DEF AllRead
<1>. QED  BY <1>1, <1>2, <1>3, <1>4 DEF NothingLostInFlight, FlowInv

(***************************************************************************)
(* Whatever the interleaving of producer, relay and reader, the messages   *)
(* under way stay in source order without repetition; nothing the reader   *)
(* should not see passes the relay; and as long as nobody cancelled and no *)
(* read failed, no wanted message is lost on the way.                      *)
(***************************************************************************)
THEOREM NoMailLost == Spec => []NothingLostInFlight
  BY FlowInvHolds, FlowIsWhole, PTL

(***************************************************************************)
(* The stream: what the reader has got is what the abstract stream has     *)
(* delivered.                                                              *)
(***************************************************************************)
LEMMA GotIsPrefix ==
  ASSUME FlowInv
  PROVE  /\ got \in Seq(Nat) /\ Wanted \in Seq(Nat) /\ InOrder(Wanted)
         /\ ToSet(Wanted) = WantedMail
         /\ Len(got) <= Len(Wanted) /\ \A i \in 1..Len(got) : got[i] = Wanted[i]
<1>1. got \in Seq(Nat) /\ chan["out"] \in Seq(Nat) /\ chan["base"] \in Seq(Nat)
      /\ Len(source) \in Nat
  BY Parts DEF FlowInv
<1>2. Wanted \in Seq(Nat) /\ InOrder(Wanted) /\ ToSet(Wanted) = WantedMail
  BY <1>1, WantedInOrder
<1>3. InOrder(got) /\ Got \subseteq WantedMail
  BY DEF FlowInv, Sorted
<1>4. \A x \in Got : \A m \in WantedMail : m <= x => m \in Got
  <2>1. SUFFICES ASSUME NEW x \in Got, NEW m \in WantedMail, m <= x PROVE m \in Got
    OBVIOUS
  <2>2. m \in Sent
    BY <2>1 DEF FlowInv, Accounted, Gapless, Sent
  <2>3. \A y \in ToSet(chan[Offered]) : x < y
    BY DEF FlowInv, Sorted, Offered, Out, Base
  <2>4. x \in Nat /\ m \in Nat
    BY DEF FlowInv, Sorted, Mail, WantedMail, Everything
  <2>. QED  BY <2>1, <2>2, <2>3, <2>4 DEF Sent
<1>5. Len(got) <= Len(Wanted) /\ \A i \in 1..Len(got) : got[i] = Wanted[i]
  BY <1>1, <1>2, <1>3, <1>4, OrderedPrefix DEF Got
<1>. QED  BY <1>1, <1>2, <1>5

LEMMA GotIsShort ==
  FlowInv => got \in Seq(Nat) /\ Len(got) <= Len(Wanted) /\ \A i \in 1..Len(got) : got[i] = Wanted[i]
  BY GotIsPrefix

\* The source and the call stay as they are.
LEMMA SourceIsFixed == [Next]_vars => UNCHANGED <<mode, source>>
  BY DEF Next, vars, Producer, Relay, Reader, ReadMessage, SkipEntry, EndOfSource,
         ProducerSend, ProducerCancelled, CtxError, ReadError, Abort, Leave,
         RelayReceive, RelaySend, RelayCancelled, RelayBaseClosed, RelayForwardError,
         RelayFinish, CloseErrors, CloseMessages, ReadNext, ReadClosed, SeeError,
         SeeNoError, Cancel

LEMMA WantedIsFixed ==
  ASSUME UNCHANGED <<mode, source>>, Len(source) \in Nat
  PROVE  Wanted' = Wanted
<1>1. \A m : IsWanted(m)' <=> IsWanted(m)
  BY DEF IsWanted, NewerThanCheckpoint
<1>. QED  BY <1>1 DEF Wanted, WantedUpTo, IsWanted, NewerThanCheckpoint

\* The reader takes the next wanted message.
LEMMA ReadNextDelivers == FlowInv /\ ReadNext => Stream!Deliver
<1>. SUFFICES ASSUME FlowInv, ReadNext PROVE Stream!Deliver
  OBVIOUS
<1>1. FlowInv'
  BY ReadNextInv
<1>2. /\ at["reader"] = "read"
      /\ got' = Append(got, Head(chan[Offered]))
      /\ UNCHANGED <<mode, source, at, ctx>>
  BY DEF ReadNext
<1>3. Wanted' = Wanted
  BY <1>2, WantedIsFixed, Parts DEF FlowInv
<1>4. /\ got \in Seq(Nat) /\ got' \in Seq(Nat)
      /\ Wanted \in Seq(Nat) /\ Len(got') <= Len(Wanted)
      /\ \A i \in 1..Len(got') : got'[i] = Wanted[i]
  <2>1. got \in Seq(Nat) /\ Wanted \in Seq(Nat)
    BY GotIsPrefix
  <2>2. (got \in Seq(Nat) /\ Len(got) <= Len(Wanted) /\ \A i \in 1..Len(got) : got[i] = Wanted[i])'
    BY <1>1, GotIsShort, PTL
  <2>. QED  BY <1>3, <2>1, <2>2
<1>5. /\ Len(got') = Len(got) + 1
      /\ got'[Len(got) + 1] = Head(chan[Offered])
      /\ Len(got) \in Nat
  <2>1. Head(chan[Offered]) \in Nat
    <3>1. chan[Offered] \in Seq(Nat) /\ chan[Offered] # <<>>
      BY Parts DEF FlowInv, Offered, ReadNext
    <3>. QED  BY <3>1
  <2>. QED  BY <1>2, <1>4, <2>1
<1>6. /\ Len(got) < Len(Wanted)
      /\ got' = Append(got, Wanted[Len(got) + 1])
  BY <1>2, <1>4, <1>5
<1>7. Outcome = "open" /\ UNCHANGED <<Outcome, Excused>>
  BY <1>2 DEF Outcome, Excused
<1>. QED  BY <1>3, <1>6, <1>7 DEF Stream!Deliver

\* A reader that sees the end without an error has got everything.
LEMMA NoErrorMeansAll == FlowInv /\ SeeNoError => got = Wanted \/ Excused
<1>. SUFFICES ASSUME FlowInv, SeeNoError, ~Excused PROVE got = Wanted
  OBVIOUS
<1>1. /\ at["reader"] = "errors" /\ errs[Offered] = <<>> /\ <<Offered, "err">> \in closed
  BY DEF SeeNoError
<1>2. chan[Offered] = <<>> /\ <<Offered, "msg">> \in closed
  BY <1>1 DEF FlowInv, Drained
<1>3. at["producer"] = "closed" /\ Everything = Got /\ ~Evidence
  <2>1. CASE ~mode.incremental
    <3>1. /\ errs["out"] = <<>> /\ chan["out"] = <<>> /\ at["relay"] = "closed"
          /\ errs["base"] = <<>> /\ chan["base"] = <<>> /\ <<"base", "msg">> \in closed
      BY <1>1, <1>2, <2>1 DEF FlowInv, Places, Offered
    <3>2. at["producer"] = "closed" /\ held["producer"] = <<>> /\ held["relay"] = <<>>
      BY <3>1 DEF FlowInv, Places
    <3>3. Out = {} /\ Base = {} /\ Passing = {} /\ InHand = {}
      BY <3>1, <3>2, ElementsOfNone DEF Out, Base, Passing, InHand
    <3>. QED  BY <1>1, <3>1, <3>2, <3>3 DEF Everything, Evidence, Reported
  <2>2. CASE mode.incremental
    <3>1. /\ errs["out"] = <<>> /\ chan["out"] = <<>> /\ <<"out", "msg">> \in closed
      BY <1>1, <1>2, <2>2 DEF Offered
    <3>2. at["relay"] = "closed" /\ ~Reported
      BY <1>1, <3>1 DEF FlowInv, Places, Reported
    <3>3. /\ chan["base"] = <<>> /\ held["relay"] = <<>> /\ <<"base", "msg">> \in closed
          /\ errs["base"] = <<>>
      BY <2>2, <3>2 DEF FlowInv, Drained
    <3>4. at["producer"] = "closed" /\ held["producer"] = <<>>
      BY <3>3 DEF FlowInv, Places
    <3>5. Out = {} /\ Base = {} /\ Passing = {} /\ InHand = {}
      BY <3>1, <3>3, <3>4, ElementsOfNone DEF Out, Base, Passing, InHand
    <3>. QED  BY <3>2, <3>3, <3>4, <3>5 DEF Everything, Evidence
  <2>. QED  BY <2>1, <2>2
<1>4. AllRead(Got) /\ next > Len(source)
  BY <1>3 DEF FlowInv, Accounted, ProducerLive
<1>5. WantedMail \subseteq Got
  <2>1. \A m \in WantedMail : m < next
    BY <1>4, Parts DEF FlowInv, WantedMail, Mail
  <2>. QED  BY <1>4, <2>1 DEF AllRead
<1>6. /\ got \in Seq(Nat) /\ Wanted \in Seq(Nat) /\ InOrder(Wanted) /\ InOrder(got)
      /\ ToSet(Wanted) = WantedMail /\ ToSet(got) = WantedMail
      /\ Len(got) <= Len(Wanted) /\ \A i \in 1..Len(got) : got[i] = Wanted[i]
  BY <1>5, GotIsPrefix DEF FlowInv, Sorted, Got
<1>7. Len(Wanted) <= Len(got)
  BY <1>6, OrderedPrefix
<1>8. Len(got) = Len(Wanted)
  BY <1>6, <1>7
<1>. QED  BY <1>6, <1>8, SeqEqual

(***************************************************************************)
(* Every step of the goroutines is a step of the stream, or none.          *)
(***************************************************************************)
LEMMA StreamStep == FlowInv /\ [Next]_vars => [Stream!Next]_(Stream!vars)
<1>. SUFFICES ASSUME FlowInv, [Next]_vars PROVE [Stream!Next]_(Stream!vars)
  OBVIOUS
<1>1. Wanted' = Wanted
  BY SourceIsFixed, WantedIsFixed, Parts DEF FlowInv
<1>2. CASE ReadNext
  BY <1>2, ReadNextDelivers DEF Stream!Next
<1>3. CASE SeeNoError
  <2>1. /\ at["reader"] = "errors" /\ at' = [at EXCEPT !["reader"] = "ok"]
        /\ UNCHANGED <<mode, ctx, got>>
    BY <1>3 DEF SeeNoError, Go
  <2>2. Outcome = "open" /\ Outcome' = "ok" /\ Excused' = Excused
    BY <2>1 DEF Outcome, Excused, FlowInv, TypeOK
  <2>3. got = Wanted \/ Excused
    BY <1>3, NoErrorMeansAll
  <2>. QED  BY <1>1, <2>1, <2>2, <2>3 DEF Stream!End, Stream!Next
<1>4. CASE SeeError
  <2>1. /\ at["reader"] = "errors" /\ at' = [at EXCEPT !["reader"] = "failed"]
        /\ UNCHANGED <<mode, ctx, got>>
    BY <1>4 DEF SeeError, Go
  <2>2. Outcome = "open" /\ Outcome' = "failed" /\ Excused' = Excused
    BY <2>1 DEF Outcome, Excused, FlowInv, TypeOK
  <2>. QED  BY <1>1, <2>1, <2>2 DEF Stream!Fail, Stream!Next
<1>5. CASE Cancel
  <2>1. ctx = "live" /\ UNCHANGED <<mode, at, got>>
    BY <1>5 DEF Cancel
  <2>2. Outcome' = Outcome /\ ~Excused /\ Excused' \in BOOLEAN
    BY <2>1 DEF Outcome, Excused
  <2>3. CASE Excused'
    BY <1>1, <2>1, <2>2, <2>3 DEF Stream!Excuse, Stream!Next
  <2>4. CASE ~Excused'
    <3>1. Excused' = Excused
      BY <2>2, <2>4 DEF Excused
    <3>. QED  BY <1>1, <2>1, <2>2, <3>1 DEF Stream!vars
  <2>. QED  BY <2>3, <2>4
<1>6. ASSUME UNCHANGED <<mode, ctx, got>>, Outcome' = Outcome
      PROVE  UNCHANGED Stream!vars
  BY <1>1, <1>6 DEF Stream!vars, Excused
<1>7. CASE ReadClosed
  <2>1. /\ at["reader"] = "read" /\ at' = [at EXCEPT !["reader"] = "errors"]
        /\ UNCHANGED <<mode, ctx, got>>
    BY <1>7 DEF ReadClosed, Go
  <2>2. Outcome' = Outcome
    BY <2>1 DEF Outcome, FlowInv, TypeOK
  <2>. QED  BY <1>6, <2>1, <2>2
<1>8. CASE Producer \/ Relay \/ ReadError \/ UNCHANGED vars
  <2>1. UNCHANGED <<mode, ctx, got>>
    BY <1>8 DEF vars, Producer, Relay, ReadMessage, SkipEntry, EndOfSource,
         ProducerSend, ProducerCancelled, CtxError, ReadError, Abort, Leave,
         RelayReceive, RelaySend, RelayCancelled, RelayBaseClosed, RelayForwardError,
         RelayFinish, CloseErrors, CloseMessages
  <2>2. at'["reader"] = at["reader"]
    BY <1>8 DEF FlowInv, TypeOK, vars, Go, Producer, Relay, ReadMessage, SkipEntry, EndOfSource,
         ProducerSend, ProducerCancelled, CtxError, ReadError, Abort, Leave,
         RelayReceive, RelaySend, RelayCancelled, RelayBaseClosed, RelayForwardError,
         RelayFinish, CloseErrors, CloseMessages
  <2>3. Outcome' = Outcome
    BY <2>2 DEF Outcome
  <2>. QED  BY <1>6, <2>1, <2>3
<1>. QED  BY <1>2, <1>3, <1>4, <1>5, <1>7, <1>8 DEF Next, Reader

(***************************************************************************)
(* The goroutines implement the stream of MessageStream: the reader gets   *)
(* the wanted messages one by one in source order, and sees the end        *)
(* without an error only when it has got them all, or the call was a       *)
(* cancelled maildir walk.  (That the stream does end is a liveness        *)
(* property, left to TLC.)                                                 *)
(***************************************************************************)
THEOREM ImplementsStream == Spec => Stream!Init /\ [][Stream!Next]_(Stream!vars)
<1>1. Init => Stream!Init
  BY DEF Init, Stream!Init, Outcome, Excused
<1>. QED  BY <1>1, StreamStep, FlowInvHolds, PTL DEF Spec
=============================================================================
