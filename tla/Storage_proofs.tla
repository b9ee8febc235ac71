--------------------------- MODULE Storage_proofs ---------------------------
(***************************************************************************)
(* Machine-checked facts about the two places where mail is kept, the      *)
(* store (MemoryStore) and the session file (SessionFile): for all sets of *)
(* items, options and queries, and any processes, saves and lengths.       *)
(***************************************************************************)
EXTENDS MemoryStore, SessionFile, FiniteSetTheorems, SequenceTheorems, TLAPS

-----------------------------------------------------------------------------
\* The store.

Things == Message \cup Interaction \cup Actor \cup Thread
Contents == [Kind -> SUBSET Things]
PagerState == {"idle", "paging", "ended", "refused"}
Options == {None} \cup ListOptions \cup Queries
Pager == [state : PagerState, kind : Kind, opts : Options, offset : Nat, received : Nat]
Saver == [copied : SUBSET Kind, parts : Contents]

(***************************************************************************)
(* TypeOK says of each map what it holds; the proofs also need that the    *)
(* maps, the saver and the pager are the records they look like.           *)
(***************************************************************************)
Typed ==
  /\ TypeOK
  /\ contents \in Contents
  /\ before \in Contents
  /\ saver \in Saver
  /\ pager \in Pager

LEMMA Kinds ==
  /\ Kind = {"messages", "interactions", "actors", "threads"}
  /\ Item["messages"] = Message /\ Item["interactions"] = Interaction
  /\ Item["actors"] = Actor /\ Item["threads"] = Thread
  /\ \A k \in Kind : Item[k] \subseteq Things
  BY DEF Kind, Item, Things

\* All that storing does, whatever is stored.
LEMMA StoreIsPut ==
  ASSUME Store
  PROVE  \E k \in Kind : \E items \in SUBSET Item[k] :
           /\ Put(k, items)
           /\ k = "interactions" => \A i \in items : Known(i.message)
<1>. DEFINE P(k, items) ==
              /\ Put(k, items)
              /\ k = "interactions" => \A i \in items : Known(i.message)
            Goal == \E k \in Kind : \E items \in SUBSET Item[k] : P(k, items)
<1>1. ASSUME NEW ms \in SUBSET Message, Put("messages", ms) PROVE Goal
  BY <1>1, Kinds
<1>2. ASSUME NEW is \in SUBSET Interaction, Put("interactions", is),
             \A i \in is : Known(i.message)
      PROVE Goal
  BY <1>2, Kinds
<1>3. ASSUME NEW as \in SUBSET Actor, Put("actors", as) PROVE Goal
  BY <1>3, Kinds
<1>4. ASSUME NEW t \in Thread, Put("threads", {t}) PROVE Goal
  BY <1>4, Kinds
<1>. HIDE DEF Goal
<1>5. \A m \in Message : StoreMessage(m) => Goal
  BY <1>1 DEF StoreMessage
<1>6. \A i \in Interaction : StoreInteraction(i) => Goal
  BY <1>2 DEF StoreInteraction
<1>7. \A a \in Actor : StoreActor(a) => Goal
  BY <1>3 DEF StoreActor
<1>8. \A t \in Thread : StoreThread(t) => Goal
  BY <1>4 DEF StoreThread
<1>9. \A ms \in SUBSET Message : StoreMessages(ms) => Goal
  BY <1>1 DEF StoreMessages
<1>10. \A is \in SUBSET Interaction : StoreInteractions(is) => Goal
  BY <1>2 DEF StoreInteractions
<1>11. \A as \in SUBSET Actor : StoreActors(as) => Goal
  BY <1>3 DEF StoreActors
<1>12. Goal
  BY <1>5, <1>6, <1>7, <1>8, <1>9, <1>10, <1>11 DEF Store
<1>. QED  BY <1>12 DEF Goal

\* What storing does to the maps.
LEMMA PutEffect ==
  ASSUME contents \in Contents, NEW k \in Kind, NEW items \in SUBSET Item[k], Put(k, items)
  PROVE  /\ ~closed
         /\ contents' \in Contents
         /\ contents'[k] = contents[k] \cup items
         /\ \A j \in Kind : j # k => contents'[j] = contents[j]
         /\ quiet' = (quiet /\ items \subseteq contents[k])
         /\ UNCHANGED <<closed, saver, before, pager>>
  BY Kinds DEF Put, Contents

(***************************************************************************)
(* Copying is one of the four All calls, in their order.                   *)
(***************************************************************************)
Stages == {{}, {"messages"}, {"messages", "interactions"},
           {"messages", "interactions", "actors"}, Kind}

LEMMA CopyEffect ==
  ASSUME Typed, FromMemoryStore
  PROVE  \E k \in Kind :
           /\ saver.copied \in Stages
           /\ k \notin saver.copied
           /\ saver.copied = {} => k = "messages" /\ before' = contents
           /\ saver.copied # {} => "messages" \in saver.copied /\ before' = before
           /\ saver' \in Saver
           /\ saver'.copied = saver.copied \cup {k}
           /\ saver'.copied \in Stages
           /\ saver'.parts[k] = contents[k]
           /\ \A j \in Kind : j # k => saver'.parts[j] = saver.parts[j]
           /\ UNCHANGED <<contents, closed, pager, quiet>>
<1>1. ASSUME NEW k \in Kind, NEW earlier \in Stages, CopyPart(k, earlier)
      PROVE  /\ saver.copied = earlier
             /\ before' = IF earlier = {} THEN contents ELSE before
             /\ saver' \in Saver
             /\ saver'.copied = earlier \cup {k}
             /\ saver'.parts[k] = contents[k]
             /\ \A j \in Kind : j # k => saver'.parts[j] = saver.parts[j]
             /\ UNCHANGED <<contents, closed, pager, quiet>>
  <2>1. contents[k] \in SUBSET Things /\ saver.parts \in Contents
    BY DEF Typed, Contents, Saver
  <2>2. [saver.parts EXCEPT ![k] = contents[k]] \in Contents
    BY <2>1 DEF Contents
  <2>3. saver' = [copied |-> earlier \cup {k}, parts |-> [saver.parts EXCEPT ![k] = contents[k]]]
    BY <1>1 DEF CopyPart, All
  <2>4. earlier \cup {k} \in SUBSET Kind
    BY Kinds DEF Stages
  <2>5. saver' \in Saver
    BY <2>2, <2>3, <2>4 DEF Saver
  <2>6. DOMAIN saver.parts = Kind
    BY <2>1 DEF Contents
  <2>. QED  BY <1>1, <2>3, <2>5, <2>6 DEF CopyPart
<1>2. CASE AllMessages
  <2>1. CopyPart("messages", {}) /\ {} \in Stages /\ "messages" \in Kind
    BY <1>2, Kinds DEF AllMessages, Stages
  <2>. QED  BY <1>1, <2>1 DEF Stages
<1>3. CASE AllInteractions
  <2>1. CopyPart("interactions", {"messages"}) /\ {"messages"} \in Stages /\ "interactions" \in Kind
    BY <1>3, Kinds DEF AllInteractions, Stages
  <2>. QED  BY <1>1, <2>1 DEF Stages
<1>4. CASE AllActors
  <2>1. /\ CopyPart("actors", {"messages", "interactions"})
        /\ {"messages", "interactions"} \in Stages /\ "actors" \in Kind
    BY <1>4, Kinds DEF AllActors, Stages
  <2>. QED  BY <1>1, <2>1 DEF Stages
<1>5. CASE AllThreads
  <2>1. /\ CopyPart("threads", {"messages", "interactions", "actors"})
        /\ {"messages", "interactions", "actors"} \in Stages /\ "threads" \in Kind
    BY <1>5, Kinds DEF AllThreads, Stages
  <2>2. {"messages", "interactions", "actors"} \cup {"threads"} = Kind
    BY Kinds
  <2>. QED  BY SMTT(30), <1>1, <2>1, <2>2 DEF Stages
<1>. QED  BY <1>2, <1>3, <1>4, <1>5 DEF FromMemoryStore
-----------------------------------------------------------------------------
LEMMA MatchingStored ==
  ASSUME Typed, NEW k \in Kind, NEW opts
  PROVE  /\ Matching(k, opts) \subseteq contents[k]
         /\ IsFiniteSet(Matching(k, opts))
         /\ Cardinality(Matching(k, opts)) \in Nat
<1>1. Matching(k, opts) \subseteq contents[k]
  BY Kinds DEF Matching, ListMessages, ListThreads, ListActors, GetInteractions
<1>2. contents[k] \subseteq Item[k]
  BY DEF Typed, TypeOK
<1>3. IsFiniteSet(Item[k])
  BY Kinds, ItemsAssumption
<1>4. Matching(k, opts) \in SUBSET Item[k]
  BY <1>1, <1>2
<1>. QED  BY <1>1, <1>3, <1>4, FS_Subset, FS_CardinalityType

\* Options under which the pager lists have a limit.
Listing == pager.state # "idle" => pager.opts.limit \in Int

Due == Cardinality(Matching(pager.kind, pager.opts))

\* How long the page is that the pager asks for next.
Page == PageLength(Due, pager.offset, pager.opts.limit)

LEMMA BeginPagingEffect ==
  ASSUME Typed, BeginPaging
  PROVE  /\ pager' \in Pager /\ pager'.state = "paging"
         /\ pager'.offset = pager.offset /\ pager'.received = pager.received
         /\ Listing'
         /\ quiet' = TRUE
         /\ UNCHANGED <<contents, closed, saver, before>>
<1>0. PICK k \in Kind :
        \E opts \in IF k = "interactions" THEN Queries ELSE ListOptions :
          pager' = [pager EXCEPT !.state = "paging", !.kind = k, !.opts = opts]
  BY DEF BeginPaging
<1>1. PICK opts \in IF k = "interactions" THEN Queries ELSE ListOptions :
        pager' = [pager EXCEPT !.state = "paging", !.kind = k, !.opts = opts]
  BY <1>0
<1>2. opts \in Options /\ opts.limit \in Int
  BY <1>1, LimitAssumption DEF Options
<1>. DEFINE p1 == [pager EXCEPT !.state = "paging"]
            p2 == [p1 EXCEPT !.kind = k]
            p3 == [p2 EXCEPT !.opts = opts]
<1>3. p1 \in Pager /\ p1.state = "paging" /\ p1.offset = pager.offset
      /\ p1.received = pager.received
  BY DEF Typed, Pager, PagerState
<1>4. p2 \in Pager /\ p2.state = "paging" /\ p2.offset = pager.offset
      /\ p2.received = pager.received
  <2>. HIDE DEF p1
  <2>. QED  BY <1>3 DEF Pager
<1>5. p3 \in Pager /\ p3.state = "paging" /\ p3.offset = pager.offset
      /\ p3.received = pager.received /\ p3.opts = opts
  <2>. HIDE DEF p2
  <2>. QED  BY <1>2, <1>4 DEF Pager
<1>6. pager' = p3
  BY <1>1, Zenon
<1>. QED  BY <1>2, <1>5, <1>6 DEF BeginPaging, Listing

LEMMA NextPageEffect ==
  ASSUME Typed, Listing, NextPage
  PROVE  /\ Page \in Nat
         /\ pager.state = "paging"
         /\ pager' \in Pager
         /\ pager'.kind = pager.kind /\ pager'.opts = pager.opts
         /\ pager'.offset = pager.offset + Page
         /\ pager'.received = pager.received + Page
         /\ pager'.state = IF Page = 0 \/ pager.kind = "interactions" THEN "ended" ELSE "paging"
         /\ UNCHANGED <<contents, closed, saver, before, quiet>>
<1>1. pager \in Pager /\ pager.state = "paging" /\ pager.opts.limit \in Int
  BY DEF Typed, NextPage, Listing
<1>2. Due \in Nat
  BY <1>1, MatchingStored DEF Due, Pager
<1>3. Page \in Nat
  BY <1>1, <1>2 DEF Page, PageLength, Pager
<1>. DEFINE n == Page
            state == IF n = 0 \/ pager.kind = "interactions" THEN "ended" ELSE pager.state
            p1 == [pager EXCEPT !.received = @ + n]
            p2 == [p1 EXCEPT !.offset = @ + n]
            p3 == [p2 EXCEPT !.state = state]
<1>4. pager' = [pager EXCEPT !.received = @ + n, !.offset = @ + n,
                  !.state = IF n = 0 \/ pager.kind = "interactions" THEN "ended" ELSE @]
  BY DEF NextPage, Page, Due
<1>. HIDE DEF n
<1>5. pager' = [[[pager EXCEPT !.received = @ + n] EXCEPT !.offset = @ + n]
                  EXCEPT !.state = IF n = 0 \/ pager.kind = "interactions" THEN "ended" ELSE @]
  BY <1>4, Zenon
<1>6. /\ p1 \in Pager /\ p1.received = pager.received + n /\ p1.offset = pager.offset
      /\ p1.state = "paging" /\ p1.kind = pager.kind /\ p1.opts = pager.opts
  BY <1>1, <1>3 DEF Pager, n
<1>7. /\ p2 \in Pager /\ p2.received = pager.received + n /\ p2.offset = pager.offset + n
      /\ p2.state = "paging" /\ p2.kind = pager.kind /\ p2.opts = pager.opts
  <2>. HIDE DEF p1
  <2>. QED  BY <1>3, <1>6 DEF Pager, n
<1>8. /\ p3 \in Pager /\ p3.received = pager.received + n /\ p3.offset = pager.offset + n
      /\ p3.state = state /\ p3.kind = pager.kind /\ p3.opts = pager.opts
  <2>1. state \in PagerState
    BY <1>1 DEF PagerState, Pager
  <2>. HIDE DEF p2, state
  <2>. QED  BY <1>7, <2>1 DEF Pager
<1>9. pager' = p3
  <2>1. pager' = [p2 EXCEPT !.state = IF n = 0 \/ pager.kind = "interactions" THEN "ended" ELSE @]
    BY <1>5
  <2>. HIDE DEF p2
  <2>. QED  BY <1>1, <1>7, <2>1
<1>. QED  BY <1>1, <1>3, <1>8, <1>9 DEF NextPage, n

LEMMA PageRefusedEffect ==
  ASSUME Typed, PageRefused
  PROVE  /\ pager.state = "paging"
         /\ pager' \in Pager /\ pager'.state = "refused" /\ pager'.opts = pager.opts
         /\ UNCHANGED <<contents, closed, saver, before, quiet>>
  BY DEF Typed, PageRefused, Pager, PagerState

LEMMA TypedInit == Init => Typed /\ Listing
<1>. SUFFICES ASSUME Init PROVE Typed /\ Listing
  OBVIOUS
<1>1. Empty \in Contents /\ \A k \in Kind : Empty[k] = {}
  BY DEF Empty, Contents
<1>2. saver \in Saver /\ saver.parts = Empty
  BY <1>1 DEF Init, Saver
<1>3. pager \in Pager /\ Listing
  BY Kinds DEF Init, Pager, PagerState, Options, Listing
<1>4. TypeOK
  BY <1>1 DEF Init, TypeOK
<1>. QED  BY <1>1, <1>2, <1>3, <1>4 DEF Init, Typed

LEMMA TypedNext == Typed /\ Listing /\ [Next]_vars => Typed' /\ Listing'
<1>. SUFFICES ASSUME Typed, Listing, [Next]_vars PROVE Typed' /\ Listing'
  OBVIOUS
<1>. USE DEF Typed
<1>1. CASE Store
  <2>0. PICK k \in Kind : \E items \in SUBSET Item[k] : Put(k, items)
    BY <1>1, StoreIsPut
  <2>1. PICK items \in SUBSET Item[k] : Put(k, items)
    BY <2>0
  <2>2. /\ contents' \in Contents
        /\ contents'[k] = contents[k] \cup items
        /\ \A j \in Kind : j # k => contents'[j] = contents[j]
        /\ quiet' = (quiet /\ items \subseteq contents[k])
        /\ UNCHANGED <<closed, saver, before, pager>>
    BY <2>1, PutEffect
  <2>. QED  BY <2>2 DEF TypeOK, Listing
<1>2. CASE Close
  BY <1>2 DEF Close, TypeOK, Listing
<1>3. CASE BeginPaging
  <2>1. pager' \in Pager /\ Listing' /\ quiet' = TRUE
        /\ UNCHANGED <<contents, closed, saver, before>>
    BY <1>3, BeginPagingEffect
  <2>2. pager'.state \in PagerState /\ pager'.offset \in Nat /\ pager'.received \in Nat
    BY <2>1 DEF Pager
  <2>. QED  BY <2>1, <2>2 DEF TypeOK, PagerState
<1>4. CASE NextPage
  <2>1. /\ pager' \in Pager /\ pager'.opts = pager.opts /\ pager.state = "paging"
        /\ UNCHANGED <<contents, closed, saver, before, quiet>>
    BY <1>4, NextPageEffect
  <2>2. pager'.state \in PagerState /\ pager'.offset \in Nat /\ pager'.received \in Nat
    BY <2>1 DEF Pager
  <2>. QED  BY <2>1, <2>2 DEF TypeOK, PagerState, Listing
<1>5. CASE PageRefused
  <2>1. /\ pager' \in Pager /\ pager'.opts = pager.opts /\ pager.state = "paging"
        /\ UNCHANGED <<contents, closed, saver, before, quiet>>
    BY <1>5, PageRefusedEffect
  <2>2. pager'.state \in PagerState /\ pager'.offset \in Nat /\ pager'.received \in Nat
    BY <2>1 DEF Pager
  <2>. QED  BY <2>1, <2>2 DEF TypeOK, PagerState, Listing
<1>6. CASE FromMemoryStore
  <2>1. PICK k \in Kind :
          /\ before' = contents \/ before' = before
          /\ saver' \in Saver
          /\ saver'.copied = saver.copied \cup {k}
          /\ saver'.parts[k] = contents[k]
          /\ \A j \in Kind : j # k => saver'.parts[j] = saver.parts[j]
          /\ UNCHANGED <<contents, closed, pager, quiet>>
    BY <1>6, CopyEffect
  <2>2. saver'.copied \in SUBSET Kind
    BY <2>1 DEF Saver
  <2>. QED  BY <2>1, <2>2 DEF TypeOK, Listing
<1>7. CASE UNCHANGED vars
  BY <1>7 DEF vars, TypeOK, Listing
<1>. QED  BY <1>1, <1>2, <1>3, <1>4, <1>5, <1>6, <1>7 DEF Next

(***************************************************************************)
(* Type correctness of the store, its saver and its pager.                 *)
(***************************************************************************)
THEOREM TypeCorrect == Spec => []TypeOK
<1>1. Typed => TypeOK
  BY DEF Typed
<1>. QED  BY <1>1, TypedInit, TypedNext, PTL DEF Spec
-----------------------------------------------------------------------------
(***************************************************************************)
(* No step changes a closed store, and no step opens it again.             *)
(***************************************************************************)
THEOREM ClosedStaysClosed == Spec => ClosedForGood
<1>. DEFINE Final == closed => closed' /\ contents' = contents
<1>1. Typed /\ Listing /\ [Next]_vars => [Final]_vars
  <2>. SUFFICES ASSUME Typed, Next PROVE Final
    OBVIOUS
  <2>1. CASE Store
    <3>0. PICK k \in Kind : \E items \in SUBSET Item[k] : Put(k, items)
      BY <2>1, StoreIsPut
    <3>1. PICK items \in SUBSET Item[k] : Put(k, items)
      BY <3>0
    <3>. QED  BY <3>1 DEF Put
  <2>2. CASE FromMemoryStore
    BY <2>2 DEF FromMemoryStore, AllMessages, AllInteractions, AllActors, AllThreads, CopyPart
  <2>. QED  BY <2>1, <2>2 DEF Next, Close, BeginPaging, NextPage, PageRefused
<1>. QED  BY <1>1, TypedInit, TypedNext, PTL DEF Spec, ClosedForGood
-----------------------------------------------------------------------------
(***************************************************************************)
(* A copy misses a message only if it was stored while copying.  The       *)
(* invariant behind it: the store never holds an interaction without its   *)
(* message, so neither does the state the copying began with; and every    *)
(* part copied holds what that state held and nothing the store does not.  *)
(***************************************************************************)
Referential(c) == \A i \in c["interactions"] : i.message \in c["messages"]

Copies ==
  /\ saver.copied = {} \/ "messages" \in saver.copied
  /\ \A k \in saver.copied : before[k] \subseteq saver.parts[k]
  /\ \A k \in Kind : before[k] \subseteq contents[k]
  /\ \A k \in Kind \ saver.copied : saver.parts[k] = {}

CopyInv == Referential(contents) /\ Referential(before) /\ Copies

LEMMA CopyInvInit == Init => CopyInv
  BY Kinds DEF Init, CopyInv, Referential, Copies, Empty

LEMMA CopyInvNext == Typed /\ Listing /\ CopyInv /\ [Next]_vars => CopyInv'
<1>. SUFFICES ASSUME Typed, Listing, CopyInv, [Next]_vars PROVE CopyInv'
  OBVIOUS
<1>. USE DEF CopyInv
<1>1. CASE Store
  <2>0. PICK k \in Kind : \E items \in SUBSET Item[k] :
          /\ Put(k, items)
          /\ k = "interactions" => \A i \in items : Known(i.message)
    BY <1>1, StoreIsPut
  <2>1. PICK items \in SUBSET Item[k] :
          /\ Put(k, items)
          /\ k = "interactions" => \A i \in items : Known(i.message)
    BY <2>0
  <2>2. /\ contents'[k] = contents[k] \cup items
        /\ \A j \in Kind : j # k => contents'[j] = contents[j]
        /\ UNCHANGED <<saver, before>>
    BY <2>1, PutEffect DEF Typed
  <2>3. \A j \in Kind : contents[j] \subseteq contents'[j]
    BY <2>2
  <2>4. \A i \in contents'["interactions"] : i.message \in contents'["messages"]
    BY <2>1, <2>2, <2>3, Kinds DEF Referential, Known
  <2>5. Copies'
    BY <2>2, <2>3 DEF Copies
  <2>. QED  BY <2>2, <2>4, <2>5 DEF Referential
<1>2. CASE FromMemoryStore
  <2>1. PICK k \in Kind :
          /\ k \notin saver.copied
          /\ saver.copied = {} => k = "messages" /\ before' = contents
          /\ saver.copied # {} => "messages" \in saver.copied /\ before' = before
          /\ saver'.copied = saver.copied \cup {k}
          /\ saver'.parts[k] = contents[k]
          /\ \A j \in Kind : j # k => saver'.parts[j] = saver.parts[j]
          /\ UNCHANGED <<contents, closed, pager, quiet>>
    BY <1>2, CopyEffect
  <2>2. saver.copied \subseteq Kind
    BY DEF Typed, TypeOK
  <2>3. Copies'
    BY <2>1, <2>2 DEF Copies
  <2>. QED  BY <2>1, <2>3 DEF Referential
<1>3. CASE Close \/ BeginPaging \/ NextPage \/ PageRefused \/ UNCHANGED vars
  <2>1. UNCHANGED <<contents, saver, before>>
    BY <1>3 DEF Close, BeginPaging, NextPage, PageRefused, vars
  <2>. QED  BY <2>1 DEF Referential, Copies
<1>. QED  BY <1>1, <1>2, <1>3 DEF Next

LEMMA CopyInvImplies == Typed /\ CopyInv => DanglingOnlyWhenRaced
<1>. SUFFICES ASSUME Typed, CopyInv PROVE DanglingOnlyWhenRaced
  OBVIOUS
<1>1. ASSUME NEW k \in Kind, saver.parts[k] # {}
      PROVE  k \in saver.copied /\ before["messages"] \subseteq saver.parts["messages"]
  BY <1>1 DEF CopyInv, Copies
<1>2. ASSUME NEW i \in saver.parts["interactions"], i.message \notin saver.parts["messages"]
      PROVE  i \notin before["interactions"] /\ i.message \notin before["messages"]
  BY <1>1, <1>2, Kinds DEF CopyInv, Referential
<1>3. \A k \in saver.copied : before[k] \subseteq saver.parts[k]
  BY DEF CopyInv, Copies
<1>. QED  BY <1>2, <1>3 DEF DanglingOnlyWhenRaced, Typed

(***************************************************************************)
(* In every behaviour a message that an interaction in a copy names and    *)
(* the copy lacks was stored, and so was the interaction, while the four   *)
(* maps were being copied; and no map's copy lacks what it held before.    *)
(***************************************************************************)
THEOREM CopiesLackOnlyWhatRaced == Spec => []DanglingOnlyWhenRaced
  BY TypedInit, TypedNext, CopyInvInit, CopyInvNext, CopyInvImplies, PTL DEF Spec
-----------------------------------------------------------------------------
(***************************************************************************)
(* Paging.  While nothing is stored the pager's offset, the number of      *)
(* items it has received, stays within what matches; a query is asked once *)
(* and from the start; and a listing ends only at the end of what matches. *)
(***************************************************************************)
Received ==
  /\ pager.received = pager.offset
  /\ pager.state = "idle" => pager.offset = 0
  /\ pager.state = "paging" /\ pager.kind = "interactions" => pager.offset = 0
  /\ pager.state = "paging" /\ quiet => pager.offset <= Due
  /\ pager.state = "ended" /\ quiet =>
       pager.offset = IF pager.kind = "interactions"
                      THEN PageLength(Due, 0, pager.opts.limit) ELSE Due

LEMMA DueTyped == Typed => Due \in Nat
<1>. SUFFICES ASSUME Typed PROVE Due \in Nat
  OBVIOUS
<1>1. pager.kind \in Kind
  BY DEF Typed, Pager
<1>. QED  BY <1>1, MatchingStored DEF Due

LEMMA ReceivedInit == Init => Received
  BY DEF Init, Received

LEMMA ReceivedNext == Typed /\ Listing /\ Received /\ [Next]_vars => Received'
<1>. SUFFICES ASSUME Typed, Listing, Received, [Next]_vars PROVE Received'
  OBVIOUS
<1>1. pager \in Pager /\ pager.offset \in Nat /\ pager.kind \in Kind /\ Due \in Nat
  BY MatchingStored DEF Typed, Pager, Due
<1>2. UNCHANGED <<contents, pager>> => Due' = Due
  BY DEF Due, Matching, ListMessages, ListThreads, ListActors, GetInteractions, InWindow
<1>3. CASE Store
  <2>0. PICK k \in Kind : \E items \in SUBSET Item[k] : Put(k, items)
    BY <1>3, StoreIsPut
  <2>1. PICK items \in SUBSET Item[k] : Put(k, items)
    BY <2>0
  <2>2. /\ contents' = [contents EXCEPT ![k] = @ \cup items]
        /\ contents \in Contents
        /\ quiet' = (quiet /\ items \subseteq contents[k])
        /\ UNCHANGED pager
    BY <2>1, PutEffect DEF Typed, Put
  <2>3. items \subseteq contents[k] => contents' = contents
    BY <2>2 DEF Contents
  <2>4. quiet' => quiet /\ UNCHANGED <<contents, pager>>
    BY <2>2, <2>3
  <2>. QED  BY <1>2, <2>2, <2>4 DEF Received
<1>4. CASE BeginPaging
  <2>1. /\ pager.state = "idle" /\ pager'.state = "paging"
        /\ pager' \in Pager
        /\ pager'.offset = pager.offset /\ pager'.received = pager.received
    BY <1>4, BeginPagingEffect DEF BeginPaging
  <2>2. Typed'
    BY TypedNext
  <2>3. (Typed => Due \in Nat)'
    BY DueTyped, PTL
  <2>. QED  BY <2>1, <2>2, <2>3 DEF Received
<1>5. CASE NextPage
  <2>1. /\ Page \in Nat /\ pager.state = "paging"
        /\ pager'.kind = pager.kind /\ pager'.opts = pager.opts
        /\ pager'.offset = pager.offset + Page
        /\ pager'.received = pager.received + Page
        /\ pager'.state = IF Page = 0 \/ pager.kind = "interactions" THEN "ended" ELSE "paging"
        /\ UNCHANGED <<contents, quiet>>
    BY <1>5, NextPageEffect
  <2>2. Due' = Due
    BY <2>1 DEF Due, Matching, ListMessages, ListThreads, ListActors, GetInteractions, InWindow
  <2>3. pager.opts.limit \in Int
    BY <2>1 DEF Listing
  <2>4. /\ pager.offset <= Due => pager.offset + Page <= Due
        /\ Page = 0 <=> pager.offset >= Due
    BY <1>1, <2>3 DEF Page, PageLength
  <2>5. pager.kind = "interactions" => Page = PageLength(Due, 0, pager.opts.limit)
    BY <2>1 DEF Page, Received
  <2>. QED  BY <1>1, <2>1, <2>2, <2>4, <2>5 DEF Received
<1>6. CASE PageRefused
  <2>1. pager'.state = "refused" /\ pager'.offset = pager.offset
        /\ pager'.received = pager.received
    BY <1>1, <1>6 DEF PageRefused, Pager
  <2>. QED  BY <2>1 DEF Received
<1>7. CASE Close \/ FromMemoryStore \/ UNCHANGED vars
  <2>1. UNCHANGED <<contents, pager, quiet>>
    BY <1>7 DEF Close, FromMemoryStore, AllMessages, AllInteractions, AllActors, AllThreads,
                CopyPart, vars
  <2>. QED  BY <1>2, <2>1 DEF Received
<1>. QED  BY <1>3, <1>4, <1>5, <1>6, <1>7 DEF Next

LEMMA ReceivedImplies == Typed /\ Listing /\ Received => PagesAddUp
<1>. SUFFICES ASSUME Typed, Listing, Received, pager.state \in {"paging", "ended"}, quiet
              PROVE  LET due == IF pager.kind = "interactions"
                                THEN PageLength(Due, 0, pager.opts.limit) ELSE Due
                     IN  pager.received <= due /\ (pager.state = "ended" => pager.received = due)
  BY DEF PagesAddUp, Due
<1>1. pager.offset \in Nat /\ pager.kind \in Kind /\ Due \in Nat /\ pager.opts.limit \in Int
  BY MatchingStored DEF Typed, Pager, Due, Listing
<1>2. PageLength(Due, 0, pager.opts.limit) \in Nat
  BY <1>1 DEF PageLength
<1>. QED  BY <1>1, <1>2 DEF Received

(***************************************************************************)
(* In every behaviour a client that lists page by page while nobody stores *)
(* has received as many items as match when it meets the first empty page, *)
(* and never more, whatever order the map is walked in.                    *)
(***************************************************************************)
THEOREM PagersGetTheirDue == Spec => []PagesAddUp
  BY TypedInit, TypedNext, ReceivedInit, ReceivedNext, ReceivedImplies, PTL DEF Spec
-----------------------------------------------------------------------------
\* The session file.

\* The file a save has written n chunks of, on its own.
Written(v, n) == [i \in 1..n |-> <<v, i>>]

\* A command that saves writes within its session.
SaversWrite ==
  \A p \in Process : pc[p] = "saving" =>
    version[p] \in Version /\ offset[p] <= version[p][2]

(***************************************************************************)
(* While somebody saves nothing is settled, and before the first save      *)
(* there is nothing to load.                                               *)
(***************************************************************************)
SettledWhenIdle ==
  /\ \A p \in Process : pc[p] = "saving" => settled = Unknown
  /\ settled = Nothing => ~exists /\ \A p \in Process : pc[p] = "idle"

(***************************************************************************)
(* Who works quietly works without another saver: a saver has written what *)
(* the file holds, a loader has read the file as it is.                    *)
(***************************************************************************)
QuietWork ==
  \A p \in Process : alone[p] /\ pc[p] # "idle" =>
    /\ \A q \in Process \ {p} : pc[q] # "saving"
    /\ pc[p] = "saving" => file = Written(version[p], offset[p])
    /\ pc[p] = "loading" =>
         /\ Len(buffer[p]) <= Len(file)
         /\ \A i \in 1..Len(buffer[p]) : buffer[p][i] = file[i]

SettledFile ==
  /\ settled \in Version => file = Written(settled, settled[2])
  /\ settled = Error => ~ValueComplete(file)

SaveInv == SaversWrite /\ SettledWhenIdle /\ QuietWork /\ SettledFile
-----------------------------------------------------------------------------
LEMMA SeqOfIsSeq ==
  ASSUME NEW S, NEW n \in Nat, NEW s
  PROVE  s \in SeqOf(S, n) <=> s \in Seq(S) /\ Len(s) <= n
<1>1. ASSUME s \in SeqOf(S, n) PROVE s \in Seq(S) /\ Len(s) <= n
  <2>1. PICK m \in 0..n : s \in [1..m -> S]
    BY <1>1 DEF SeqOf
  <2>. QED  BY <2>1
<1>2. ASSUME s \in Seq(S), Len(s) <= n PROVE s \in SeqOf(S, n)
  <2>1. Len(s) \in 0..n /\ s \in [1..Len(s) -> S]
    BY <1>2
  <2>. QED  BY <2>1 DEF SeqOf
<1>. QED  BY <1>1, <1>2

LEMMA EmptyTyped == <<>> \in SeqOf(Chunk, MaxChunks)
<1>1. 0 \in 0..MaxChunks /\ <<>> \in [1..0 -> Chunk]
  BY MaxChunksAssumption
<1>. QED  BY <1>1 DEF SeqOf

\* What a write at the writer's own offset makes of the file.
LEMMA WriteEffect ==
  ASSUME NEW p \in Process, SessionTypeOK, SaversWrite, WriteChunk(p)
  PROVE  /\ file' \in SeqOf(Chunk, MaxChunks)
         /\ offset'[p] = offset[p] + 1 /\ offset[p] + 1 \in 1..MaxChunks
         /\ offset[p] + 1 <= version[p][2]
         /\ file = Written(version[p], offset[p]) =>
              file' = Written(version[p], offset[p] + 1)
<1>. DEFINE at == offset[p] + 1
            end == IF at > Len(file) THEN at ELSE Len(file)
<1>1. version[p] \in Version /\ offset[p] \in Nat /\ version[p][2] \in 1..MaxChunks
  BY DEF SessionTypeOK, SaversWrite, WriteChunk, Version
<1>2. at \in 1..MaxChunks /\ at <= version[p][2]
  BY <1>1, MaxChunksAssumption DEF WriteChunk
<1>3. file \in Seq(Chunk) /\ Len(file) <= MaxChunks
  BY SeqOfIsSeq, MaxChunksAssumption DEF SessionTypeOK
<1>4. end \in 1..MaxChunks
  BY <1>2, <1>3, MaxChunksAssumption
<1>5. file' = [i \in 1..end |-> IF i = at THEN <<version[p], at>>
                                ELSE IF i <= Len(file) THEN file[i] ELSE Hole]
  BY DEF WriteChunk
<1>6. <<version[p], at>> \in Chunk /\ Hole \in Chunk
  BY <1>1, <1>2 DEF Chunk
<1>7. file' \in [1..end -> Chunk]
  BY <1>3, <1>4, <1>5, <1>6
<1>8. file' \in SeqOf(Chunk, MaxChunks)
  BY <1>4, <1>7, MaxChunksAssumption DEF SeqOf
<1>9. offset'[p] = at
  BY DEF WriteChunk, SessionTypeOK
<1>10. ASSUME file = Written(version[p], offset[p]) PROVE file' = Written(version[p], at)
  <2>1. Len(file) = offset[p] /\ \A i \in 1..offset[p] : file[i] = <<version[p], i>>
    BY <1>1, <1>10 DEF Written
  <2>2. end = at
    BY <1>1, <2>1
  <2>. QED  BY <1>1, <1>5, <2>1, <2>2 DEF Written
<1>. QED  BY <1>2, <1>8, <1>9, <1>10

LEMMA ReadEffect ==
  ASSUME NEW p \in Process, SessionTypeOK, ReadChunk(p)
  PROVE  /\ buffer'[p] = Append(buffer[p], file[Len(buffer[p]) + 1])
         /\ buffer'[p] \in SeqOf(Chunk, MaxChunks)
         /\ Len(buffer[p]) < Len(file)
         /\ \A q \in Process \ {p} : buffer'[q] = buffer[q]
<1>1. /\ buffer[p] \in Seq(Chunk) /\ file \in Seq(Chunk)
      /\ Len(file) <= MaxChunks
  BY SeqOfIsSeq, MaxChunksAssumption DEF SessionTypeOK
<1>2. /\ buffer'[p] = Append(buffer[p], file[Len(buffer[p]) + 1])
      /\ \A q \in Process \ {p} : buffer'[q] = buffer[q]
      /\ Len(buffer[p]) < Len(file)
  BY DEF SessionTypeOK, ReadChunk
<1>3. file[Len(buffer[p]) + 1] \in Chunk
  BY <1>1, <1>2
<1>4. buffer'[p] \in Seq(Chunk) /\ Len(buffer'[p]) = Len(buffer[p]) + 1
  BY <1>1, <1>2, <1>3
<1>5. Len(buffer'[p]) <= MaxChunks
  BY <1>1, <1>2, <1>4, MaxChunksAssumption
<1>. QED  BY <1>2, <1>4, <1>5, SeqOfIsSeq, MaxChunksAssumption

LEMMA DecodedIsTyped ==
  ASSUME NEW b \in Seq(Chunk), NEW result \in Decode(b)
  PROVE  result \in Version \cup {Nothing, Error, Mixture}
<1>1. CASE result \in {Error, Mixture}
  BY <1>1
<1>2. CASE result \notin {Error, Mixture}
  <2>1. /\ Hole \notin ToSet(b) /\ ValueComplete(b)
        /\ result = b[1][1]
    BY <1>2 DEF Decode
  <2>2. Len(b) > 0
    BY <2>1 DEF ValueComplete
  <2>3. b[1] \in Chunk /\ b[1] # Hole
    BY <2>1, <2>2 DEF ToSet
  <2>. QED  BY <2>1, <2>3 DEF Chunk
<1>. QED  BY <1>1, <1>2

LEMMA SessionTypedInit == SessionInit => SessionTypeOK
<1>. SUFFICES ASSUME SessionInit PROVE SessionTypeOK
  OBVIOUS
<1>1. file \in SeqOf(Chunk, MaxChunks) /\ buffer \in [Process -> SeqOf(Chunk, MaxChunks)]
  BY EmptyTyped DEF SessionInit
<1>2. saves \in 0..MaxSaves /\ offset \in [Process -> 0..MaxChunks]
  BY MaxSavesAssumption, MaxChunksAssumption DEF SessionInit
<1>3. /\ version \in [Process -> Version \cup {Nothing}]
      /\ loaded \in [Process -> Version \cup {Nothing, Error, Mixture}]
      /\ settled \in Version \cup {Nothing, Error, Unknown}
  BY DEF SessionInit
<1>. QED  BY <1>1, <1>2, <1>3 DEF SessionInit, SessionTypeOK

LEMMA SessionTypedNext == SessionTypeOK /\ SaversWrite /\ [SessionNext]_sessionVars => SessionTypeOK' /\ SaversWrite'
<1>. SUFFICES ASSUME SessionTypeOK, SaversWrite, [SessionNext]_sessionVars PROVE SessionTypeOK' /\ SaversWrite'
  OBVIOUS
<1>1. ASSUME NEW p \in Process, BeginSave(p) PROVE SessionTypeOK' /\ SaversWrite'
  <2>1. PICK n \in 1..MaxChunks : version' = [version EXCEPT ![p] = <<saves + 1, n>>]
    BY <1>1 DEF BeginSave
  <2>2. <<saves + 1, n>> \in Version
    BY <1>1, MaxSavesAssumption DEF BeginSave, SessionTypeOK, Version
  <2>3. version' \in [Process -> Version \cup {Nothing}]
    BY <2>1, <2>2 DEF SessionTypeOK
  <2>4. <<>> \in SeqOf(Chunk, MaxChunks)
    BY EmptyTyped
  <2>5. saves' \in 0..MaxSaves
    BY <1>1, MaxSavesAssumption DEF BeginSave, SessionTypeOK
  <2>6. /\ pc' \in [Process -> {"idle", "saving", "loading"}]
        /\ offset' \in [Process -> 0..MaxChunks]
        /\ settled' \in Version \cup {Nothing, Error, Unknown}
        /\ exists' \in BOOLEAN
    BY <1>1, MaxChunksAssumption DEF BeginSave, SessionTypeOK
  <2>7. alone' \in [Process -> BOOLEAN]
    BY <1>1 DEF BeginSave, SessionTypeOK, Saving
  <2>8. SessionTypeOK'
    BY <1>1, <2>3, <2>4, <2>5, <2>6, <2>7 DEF BeginSave, CreatedFile, SessionTypeOK
  <2>9. version'[p] = <<saves + 1, n>> /\ offset'[p] = 0 /\ 0 <= n
    BY <1>1, <2>1 DEF BeginSave, SessionTypeOK
  <2>10. \A q \in Process \ {p} :
           version'[q] = version[q] /\ offset'[q] = offset[q] /\ pc'[q] = pc[q]
    BY <1>1, <2>1 DEF BeginSave, SessionTypeOK
  <2>11. SaversWrite'
    BY <2>2, <2>9, <2>10 DEF SaversWrite
  <2>. QED  BY <2>8, <2>11
<1>2. ASSUME NEW p \in Process, WriteChunk(p) PROVE SessionTypeOK' /\ SaversWrite'
  <2>1. /\ file' \in SeqOf(Chunk, MaxChunks)
        /\ offset'[p] = offset[p] + 1 /\ offset[p] + 1 \in 1..MaxChunks
        /\ offset[p] + 1 <= version[p][2]
    BY <1>2, WriteEffect
  <2>2. offset' = [offset EXCEPT ![p] = @ + 1]
    BY <1>2 DEF WriteChunk
  <2>3. offset' \in [Process -> 0..MaxChunks]
    BY <2>1, <2>2 DEF SessionTypeOK
  <2>4. UNCHANGED <<exists, saves, pc, version, buffer, loaded, alone, settled>>
    BY <1>2 DEF WriteChunk
  <2>5. \A q \in Process \ {p} : offset'[q] = offset[q]
    BY <2>2 DEF SessionTypeOK
  <2>. QED  BY <2>1, <2>3, <2>4, <2>5 DEF SessionTypeOK, SaversWrite
<1>3. ASSUME NEW p \in Process, EndSave(p) \/ BreakSave(p) PROVE SessionTypeOK' /\ SaversWrite'
  <2>1. version[p] \in Version /\ pc' = [pc EXCEPT ![p] = "idle"]
        /\ UNCHANGED <<exists, file, saves, version, offset, buffer, loaded, alone>>
    BY <1>3 DEF EndSave, BreakSave, SaversWrite
  <2>2. settled' \in Version \cup {Nothing, Error, Unknown}
    BY <1>3, <2>1 DEF EndSave, BreakSave
  <2>3. pc' \in [Process -> {"idle", "saving", "loading"}]
        /\ \A q \in Process : pc'[q] = "saving" => pc[q] = "saving"
    BY <2>1 DEF SessionTypeOK
  <2>. QED  BY <2>1, <2>2, <2>3 DEF SessionTypeOK, SaversWrite
<1>4. ASSUME NEW p \in Process, BeginLoad(p) PROVE SessionTypeOK' /\ SaversWrite'
  <2>1. <<>> \in SeqOf(Chunk, MaxChunks)
    BY EmptyTyped
  <2>2. UNCHANGED <<exists, file, saves, version, offset, settled>>
    BY <1>4 DEF BeginLoad
  <2>3. /\ pc' \in [Process -> {"idle", "saving", "loading"}]
        /\ buffer' \in [Process -> SeqOf(Chunk, MaxChunks)]
        /\ loaded' \in [Process -> Version \cup {Nothing, Error, Mixture}]
    BY <1>4, <2>1 DEF BeginLoad, SessionTypeOK
  <2>4. alone' \in [Process -> BOOLEAN]
    BY <1>4 DEF BeginLoad, SessionTypeOK, Saving
  <2>5. \A q \in Process : pc'[q] = "saving" => pc[q] = "saving"
    BY <1>4 DEF BeginLoad, SessionTypeOK
  <2>. QED  BY <2>2, <2>3, <2>4, <2>5 DEF SessionTypeOK, SaversWrite
<1>5. ASSUME NEW p \in Process, ReadChunk(p) PROVE SessionTypeOK' /\ SaversWrite'
  <2>1. buffer'[p] \in SeqOf(Chunk, MaxChunks) /\ \A q \in Process \ {p} : buffer'[q] = buffer[q]
    BY <1>5, ReadEffect
  <2>2. buffer' \in [Process -> SeqOf(Chunk, MaxChunks)]
    BY <1>5, <2>1 DEF ReadChunk, SessionTypeOK
  <2>3. UNCHANGED <<exists, file, saves, pc, version, offset, loaded, alone, settled>>
    BY <1>5 DEF ReadChunk
  <2>. QED  BY <2>2, <2>3 DEF SessionTypeOK, SaversWrite
<1>6. ASSUME NEW p \in Process, EndLoad(p) PROVE SessionTypeOK' /\ SaversWrite'
  <2>1. PICK result \in Decode(buffer[p]) : loaded' = [loaded EXCEPT ![p] = result]
    BY <1>6 DEF EndLoad
  <2>2. buffer[p] \in Seq(Chunk)
    BY SeqOfIsSeq, MaxChunksAssumption DEF SessionTypeOK
  <2>3. result \in Version \cup {Nothing, Error, Mixture}
    BY <2>2, DecodedIsTyped
  <2>4. loaded' \in [Process -> Version \cup {Nothing, Error, Mixture}]
    BY <2>1, <2>3 DEF SessionTypeOK
  <2>5. pc' \in [Process -> {"idle", "saving", "loading"}]
        /\ \A q \in Process : pc'[q] = "saving" => pc[q] = "saving"
    BY <1>6 DEF EndLoad, SessionTypeOK
  <2>6. UNCHANGED <<exists, file, saves, version, offset, buffer, alone, settled>>
    BY <1>6 DEF EndLoad
  <2>. QED  BY <2>4, <2>5, <2>6 DEF SessionTypeOK, SaversWrite
<1>7. CASE UNCHANGED sessionVars
  BY <1>7 DEF sessionVars, SessionTypeOK, SaversWrite
<1>. QED  BY <1>1, <1>2, <1>3, <1>4, <1>5, <1>6, <1>7 DEF SessionNext

-----------------------------------------------------------------------------
LEMMA VersionsAreReal ==
  ASSUME NEW v \in Version
  PROVE  /\ v # Nothing /\ v # Error /\ v # Unknown
         /\ v[2] \in 1..MaxChunks
         /\ v # <<0, 0>>
<1>1. PICK n \in 1..MaxSaves, m \in 1..MaxChunks : v = <<n, m>>
  BY DEF Version
<1>2. Len(v) = 2 /\ v[1] # 0
  BY <1>1, MaxSavesAssumption
<1>3. Len(Nothing) = 1 /\ Len(Error) = 1 /\ Len(Unknown) = 1
  BY DEF Nothing, Error, Unknown
<1>4. v # <<0, 0>>
  BY <1>2
<1>. QED  BY <1>1, <1>2, <1>3, <1>4

\* A session is complete when, and only when, all of it is written.
LEMMA WrittenDecodes ==
  ASSUME NEW v \in Version, NEW n \in 0..v[2]
  PROVE  /\ Len(Written(v, n)) = n
         /\ \A i \in 1..n : Written(v, n)[i] = <<v, i>>
         /\ ValueComplete(Written(v, n)) <=> n = v[2]
<1>1. v[2] \in 1..MaxChunks /\ v # <<0, 0>>
  BY VersionsAreReal
<1>2. Len(Written(v, n)) = n /\ \A i \in 1..n : Written(v, n)[i] = <<v, i>>
  BY <1>1, MaxChunksAssumption DEF Written
<1>3. n > 0 => Written(v, n)[1] = <<v, 1>> /\ Written(v, n)[1] # Hole
  BY <1>1, <1>2 DEF Hole
<1>4. n > 0 => Written(v, n)[1][1][2] = v[2]
  BY <1>3
<1>. QED  BY <1>1, <1>2, <1>3, <1>4, MaxChunksAssumption DEF ValueComplete

LEMMA SaveInvInit == SessionInit => SaveInv
<1>. SUFFICES ASSUME SessionInit PROVE SaveInv
  OBVIOUS
<1>1. Nothing \notin Version /\ Nothing # Error
  BY VersionsAreReal DEF Nothing, Error
<1>. QED  BY <1>1 DEF SessionInit, SaveInv, SaversWrite, SettledWhenIdle, QuietWork, SettledFile

LEMMA SaveInvNext == SessionTypeOK /\ SaveInv /\ [SessionNext]_sessionVars => SaveInv'
<1>. SUFFICES ASSUME SessionTypeOK, SaveInv, [SessionNext]_sessionVars PROVE SaveInv'
  OBVIOUS
<1>. USE DEF SaveInv
<1>0. SaversWrite' /\ SessionTypeOK'
  BY SessionTypedNext
<1>1. ASSUME NEW p \in Process, BeginSave(p) PROVE SaveInv'
  <2>1. /\ pc'[p] = "saving" /\ offset'[p] = 0 /\ alone'[p] = ~Saving(p) /\ pc[p] = "idle"
        /\ \A q \in Process \ {p} :
             /\ pc'[q] = pc[q] /\ version'[q] = version[q] /\ offset'[q] = offset[q]
             /\ alone'[q] = (alone[q] /\ pc[q] = "idle")
        /\ settled' = Unknown /\ file' = <<>> /\ UNCHANGED buffer
    BY <1>1 DEF BeginSave, SessionTypeOK, CreatedFile
  <2>2. SettledWhenIdle'
    BY <2>1 DEF SettledWhenIdle, Unknown, Nothing
  <2>3. SettledFile'
    BY <2>1, VersionsAreReal DEF SettledFile, Unknown, Error
  <2>4. Written(version'[p], 0) = <<>>
    BY DEF Written
  <2>5. ASSUME NEW q \in Process, alone'[q], pc'[q] # "idle" PROVE q = p
    BY <2>1, <2>5
  <2>6. alone'[p] => \A q \in Process \ {p} : pc'[q] # "saving"
    BY <2>1 DEF Saving
  <2>7. QuietWork'
    BY <2>1, <2>4, <2>5, <2>6 DEF QuietWork
  <2>. QED  BY <1>0, <2>2, <2>3, <2>7
<1>2. ASSUME NEW p \in Process, WriteChunk(p) PROVE SaveInv'
  <2>1. /\ offset'[p] = offset[p] + 1
        /\ file = Written(version[p], offset[p]) =>
              file' = Written(version[p], offset[p] + 1)
    BY <1>2, WriteEffect
  <2>2. /\ pc[p] = "saving"
        /\ UNCHANGED <<exists, saves, pc, version, buffer, loaded, alone, settled>>
        /\ \A q \in Process \ {p} : offset'[q] = offset[q]
    BY <1>2 DEF WriteChunk, SessionTypeOK
  <2>3. SettledWhenIdle'
    BY <2>2 DEF SettledWhenIdle
  <2>4. settled = Unknown
    BY <2>2 DEF SettledWhenIdle
  <2>5. SettledFile'
    BY <2>2, <2>4, VersionsAreReal DEF SettledFile, Unknown, Error
  <2>6. ASSUME NEW q \in Process, alone[q], pc[q] # "idle" PROVE q = p
    BY <2>2, <2>6 DEF QuietWork
  <2>7. QuietWork'
    BY <2>1, <2>2, <2>6 DEF QuietWork
  <2>. QED  BY <1>0, <2>3, <2>5, <2>7
<1>3. ASSUME NEW p \in Process, EndSave(p) \/ BreakSave(p) PROVE SaveInv'
  <2>1. /\ pc[p] = "saving" /\ pc'[p] = "idle"
        /\ \A q \in Process \ {p} : pc'[q] = pc[q]
        /\ version[p] \in Version /\ offset[p] \in 0..version[p][2]
        /\ UNCHANGED <<exists, file, saves, version, offset, buffer, loaded, alone>>
    BY <1>3 DEF EndSave, BreakSave, SaversWrite, SessionTypeOK
  <2>2. alone[p] => /\ file = Written(version[p], offset[p])
                    /\ \A q \in Process \ {p} : pc[q] # "saving"
    BY <2>1 DEF QuietWork
  <2>3. \/ settled' = Unknown
        \/ alone[p] /\ settled' = version[p] /\ offset[p] = version[p][2]
        \/ alone[p] /\ settled' = Error /\ offset[p] < version[p][2]
    BY <1>3 DEF EndSave, BreakSave
  <2>4. settled' # Nothing
    BY <2>1, <2>3, VersionsAreReal DEF Unknown, Nothing, Error
  <2>5. SettledWhenIdle'
    <3>1. ASSUME NEW q \in Process, pc'[q] = "saving" PROVE settled' = Unknown
      BY <2>1, <2>2, <2>3, <3>1
    <3>. QED  BY <2>4, <3>1 DEF SettledWhenIdle
  <2>6. QuietWork'
    BY <2>1 DEF QuietWork
  <2>7. CASE settled' = Unknown
    <3>1. SettledFile'
      BY <2>7, VersionsAreReal DEF SettledFile, Unknown, Error
    <3>. QED  BY <1>0, <2>5, <2>6, <3>1
  <2>8. CASE alone[p] /\ settled' = version[p] /\ offset[p] = version[p][2]
    <3>1. SettledFile'
      BY <2>1, <2>2, <2>8, VersionsAreReal DEF SettledFile
    <3>. QED  BY <1>0, <2>5, <2>6, <3>1
  <2>9. CASE alone[p] /\ settled' = Error /\ offset[p] < version[p][2]
    <3>1. version[p][2] \in 1..MaxChunks
      BY <2>1, VersionsAreReal
    <3>2. ~ValueComplete(file)
      BY <2>1, <2>2, <2>9, <3>1, WrittenDecodes, MaxChunksAssumption
    <3>3. ~ValueComplete(file')
      BY <2>1, <3>2
    <3>4. SettledFile'
      BY <2>9, <3>3, VersionsAreReal DEF SettledFile, ValueComplete
    <3>. QED  BY <1>0, <2>5, <2>6, <3>4
  <2>. QED  BY <2>3, <2>7, <2>8, <2>9
<1>4. ASSUME NEW p \in Process, BeginLoad(p) PROVE SaveInv'
  <2>1. /\ pc[p] = "idle" /\ pc'[p] = "loading" /\ exists
        /\ alone'[p] = ~Saving(p) /\ buffer'[p] = <<>>
        /\ \A q \in Process \ {p} :
             pc'[q] = pc[q] /\ alone'[q] = alone[q] /\ buffer'[q] = buffer[q]
        /\ UNCHANGED <<exists, file, saves, version, offset, settled>>
    BY <1>4 DEF BeginLoad, SessionTypeOK
  <2>2. SettledWhenIdle'
    BY <2>1 DEF SettledWhenIdle
  <2>3. SettledFile'
    BY <2>1 DEF SettledFile, ValueComplete
  <2>4. Len(file) \in Nat
    BY SeqOfIsSeq, MaxChunksAssumption DEF SessionTypeOK
  <2>5. alone'[p] => \A q \in Process \ {p} : pc'[q] # "saving"
    BY <2>1 DEF Saving
  <2>6. ASSUME NEW q \in Process \ {p}, alone'[q], pc'[q] # "idle"
        PROVE  /\ \A r \in Process \ {q} : pc'[r] # "saving"
               /\ pc'[q] = "saving" => file' = Written(version'[q], offset'[q])
               /\ pc'[q] = "loading" =>
                    /\ Len(buffer'[q]) <= Len(file')
                    /\ \A i \in 1..Len(buffer'[q]) : buffer'[q][i] = file'[i]
    <3>1. alone[q] /\ pc[q] # "idle" /\ pc[q] = pc'[q]
      BY <2>1, <2>6
    <3>. QED  BY <2>1, <3>1 DEF QuietWork
  <2>7. QuietWork'
    BY <2>1, <2>4, <2>5, <2>6 DEF QuietWork
  <2>. QED  BY <1>0, <2>2, <2>3, <2>7
<1>5. ASSUME NEW p \in Process, ReadChunk(p) PROVE SaveInv'
  <2>1. /\ buffer'[p] = Append(buffer[p], file[Len(buffer[p]) + 1])
        /\ Len(buffer[p]) < Len(file)
        /\ \A q \in Process \ {p} : buffer'[q] = buffer[q]
    BY <1>5, ReadEffect
  <2>2. UNCHANGED <<exists, file, saves, pc, version, offset, loaded, alone, settled>>
    BY <1>5 DEF ReadChunk
  <2>3. buffer[p] \in Seq(Chunk) /\ file \in Seq(Chunk)
    BY SeqOfIsSeq, MaxChunksAssumption DEF SessionTypeOK
  <2>4. /\ Len(buffer'[p]) = Len(buffer[p]) + 1
        /\ \A i \in 1..Len(buffer[p]) : buffer'[p][i] = buffer[p][i]
        /\ buffer'[p][Len(buffer[p]) + 1] = file[Len(buffer[p]) + 1]
    BY <2>1, <2>3
  <2>5. \A i \in 1..Len(buffer'[p]) : i \in 1..Len(buffer[p]) \/ i = Len(buffer[p]) + 1
    BY <2>3, <2>4
  <2>6. QuietWork'
    <3>1. ASSUME NEW q \in Process, alone[q], pc[q] # "idle"
          PROVE  /\ \A r \in Process \ {q} : pc[r] # "saving"
                 /\ pc[q] = "saving" => file = Written(version[q], offset[q])
                 /\ pc[q] = "loading" =>
                      /\ Len(buffer'[q]) <= Len(file)
                      /\ \A i \in 1..Len(buffer'[q]) : buffer'[q][i] = file[i]
      <4>1. CASE q = p
        BY SMTT(30), <2>1, <2>3, <2>4, <2>5, <3>1, <4>1 DEF QuietWork
      <4>2. CASE q # p
        BY <2>1, <3>1, <4>2 DEF QuietWork
      <4>. QED  BY <4>1, <4>2
    <3>. QED  BY <2>2, <3>1 DEF QuietWork
  <2>. QED  BY <1>0, <2>2, <2>6 DEF SettledWhenIdle, SettledFile, ValueComplete
<1>6. ASSUME NEW p \in Process, EndLoad(p) PROVE SaveInv'
  <2>1. /\ pc[p] = "loading" /\ pc'[p] = "idle"
        /\ \A q \in Process \ {p} : pc'[q] = pc[q]
        /\ UNCHANGED <<exists, file, saves, version, offset, buffer, alone, settled>>
    BY <1>6 DEF EndLoad, SessionTypeOK
  <2>2. QuietWork'
    BY <2>1 DEF QuietWork
  <2>. QED  BY <1>0, <2>1, <2>2 DEF SettledWhenIdle, SettledFile, ValueComplete
<1>7. CASE UNCHANGED sessionVars
  BY <1>7 DEF sessionVars, SaversWrite, SettledWhenIdle, QuietWork, SettledFile, ValueComplete
<1>. QED  BY <1>1, <1>2, <1>3, <1>4, <1>5, <1>6, <1>7 DEF SessionNext

LEMMA TypedAndSaveInv == SessionSpec => [](SessionTypeOK /\ SaveInv)
<1>1. SaveInv => SaversWrite
  BY DEF SaveInv
<1>. QED  BY <1>1, SessionTypedInit, SessionTypedNext, SaveInvInit, SaveInvNext, PTL DEF SessionSpec

(***************************************************************************)
(* What a save on its own leaves in the file is its session, or a text     *)
(* that no command reads as a session, whatever was there before and       *)
(* however many commands run.                                              *)
(***************************************************************************)
THEOREM LoneSaveSettles == SessionSpec => []FileIsLastSave
<1>1. SessionTypeOK /\ SaveInv => FileIsLastSave
  BY DEF SaveInv, SettledFile, FileIsLastSave, Written, Decode
<1>. QED  BY <1>1, TypedAndSaveInv, PTL

\* What a loader that nobody disturbed decodes.
LEMMA QuietDecode ==
  ASSUME SessionTypeOK, SaveInv, NEW p \in Process, EndLoad(p), alone[p], settled # Unknown
  PROVE  loaded'[p] = settled
<1>1. PICK result \in Decode(buffer[p]) : loaded' = [loaded EXCEPT ![p] = result]
  BY DEF EndLoad
<1>2. loaded'[p] = result
  BY <1>1 DEF SessionTypeOK
<1>3. /\ pc[p] = "loading"
      /\ Len(buffer[p]) <= Len(file)
      /\ \A i \in 1..Len(buffer[p]) : buffer[p][i] = file[i]
      /\ ValueComplete(buffer[p]) \/ Len(buffer[p]) >= Len(file)
  BY DEF EndLoad, SaveInv, QuietWork
<1>4. buffer[p] \in Seq(Chunk) /\ file \in Seq(Chunk)
  BY SeqOfIsSeq, MaxChunksAssumption DEF SessionTypeOK
<1>5. CASE settled \in Version
  <2>1. file = Written(settled, settled[2]) /\ settled[2] \in 1..MaxChunks
    BY <1>5, VersionsAreReal DEF SaveInv, SettledFile
  <2>2. /\ Len(file) = settled[2]
        /\ \A i \in 1..settled[2] : file[i] = <<settled, i>>
    BY <1>5, <2>1, WrittenDecodes, MaxChunksAssumption
  <2>3. Len(buffer[p]) > 0 =>
          buffer[p][1] = <<settled, 1>> /\ buffer[p][1] # Hole
    <3>1. settled # <<0, 0>>
      BY <1>5, VersionsAreReal
    <3>2. Len(buffer[p]) > 0 => buffer[p][1] = file[1] /\ file[1] = <<settled, 1>>
      BY <1>3, <1>4, <2>1, <2>2, MaxChunksAssumption
    <3>. QED  BY <3>1, <3>2 DEF Hole
  <2>4. ValueComplete(buffer[p]) => Len(buffer[p]) >= settled[2]
    <3>1. Len(buffer[p]) > 0 => buffer[p][1][1][2] = settled[2]
      BY <2>3
    <3>. QED  BY <2>3, <3>1 DEF ValueComplete
  <2>5. Len(buffer[p]) = settled[2]
    BY <1>3, <1>4, <2>1, <2>2, <2>4, MaxChunksAssumption
  <2>6. \A i \in 1..Len(buffer[p]) : buffer[p][i] = <<settled, i>>
    BY <1>3, <2>2, <2>5
  <2>7. Hole \notin ToSet(buffer[p])
    <3>0. settled # <<0, 0>>
      BY <1>5, VersionsAreReal
    <3>1. \A i \in 1..Len(buffer[p]) : buffer[p][i] # Hole
      BY <2>6, <3>0 DEF Hole
    <3>. QED  BY <1>4, <3>1 DEF ToSet
  <2>8. buffer[p][1][1] = settled
    BY <2>1, <2>3, <2>5, MaxChunksAssumption
  <2>9. ValueComplete(buffer[p])
    BY <2>1, <2>5, <2>8, MaxChunksAssumption DEF ValueComplete
  <2>10. Decode(buffer[p]) = {settled}
    BY <2>6, <2>7, <2>8, <2>9 DEF Decode
  <2>. QED  BY <1>2, <2>10
<1>6. CASE settled = Error
  <2>1. ~ValueComplete(file)
    BY <1>6 DEF SaveInv, SettledFile
  <2>2. ~ValueComplete(buffer[p])
    <3>1. Len(buffer[p]) > 0 => buffer[p][1] = file[1] /\ Len(file) > 0
      BY <1>3, <1>4
    <3>2. ASSUME Len(buffer[p]) >= buffer[p][1][1][2], Len(buffer[p]) > 0
          PROVE  Len(file) >= file[1][1][2]
      <4>1. buffer[p][1] \in Chunk
        BY <1>4, <3>2
      <4>2. buffer[p][1][1][2] \in Nat
        BY <4>1, MaxChunksAssumption, MaxSavesAssumption DEF Chunk, Version, Hole
      <4>. QED  BY <1>3, <1>4, <3>1, <3>2, <4>2
    <3>. QED  BY <2>1, <3>1, <3>2 DEF ValueComplete
  <2>. QED  BY <1>2, <1>6, <2>2 DEF Decode
<1>7. CASE settled = Nothing
  BY <1>3, <1>7 DEF SaveInv, SettledWhenIdle
<1>. QED  BY <1>5, <1>6, <1>7 DEF SessionTypeOK

(***************************************************************************)
(* In every behaviour a load that no save overlapped returns the session   *)
(* of the last lone save, or an error if that save broke off.              *)
(***************************************************************************)
THEOREM QuietLoadsAreFresh == SessionSpec => QuietLoadIsLastSave
<1>. DEFINE Fresh == \A p \in Process :
       pc[p] = "loading" /\ pc'[p] = "idle" /\ alone[p] /\ settled # Unknown =>
         loaded'[p] = settled
<1>1. SessionTypeOK /\ SaveInv /\ [SessionNext]_sessionVars => [Fresh]_sessionVars
  <2>. SUFFICES ASSUME SessionTypeOK, SaveInv, SessionNext, NEW p \in Process, pc[p] = "loading",
                       pc'[p] = "idle", alone[p], settled # Unknown
                PROVE  loaded'[p] = settled
    OBVIOUS
  <2>1. PICK q \in Process : \/ BeginSave(q) \/ WriteChunk(q) \/ EndSave(q) \/ BreakSave(q)
                             \/ BeginLoad(q) \/ ReadChunk(q) \/ EndLoad(q)
    BY DEF SessionNext
  <2>2. EndLoad(q) /\ q = p
    BY <2>1 DEF SessionTypeOK, BeginSave, WriteChunk, EndSave, BreakSave, BeginLoad, ReadChunk, EndLoad
  <2>. QED  BY <2>2, QuietDecode
<1>. QED  BY <1>1, TypedAndSaveInv, PTL DEF SessionSpec, QuietLoadIsLastSave
=============================================================================
