----------------------------- MODULE MemoryStore -----------------------------
(***************************************************************************)
(* storage/memory.go: four maps and a flag under one RWMutex.  Every       *)
(* method holds the lock from its first to its last line, so it is one     *)
(* action, and it does not matter which of any number of goroutines calls  *)
(* it.  What takes several calls is a protocol of its own: the pager lists *)
(* one page after the other, and the saver is Session.FromMemoryStore      *)
(* (session/loader.go), which copies the four maps one by one.             *)
(*                                                                         *)
(* An item is its ID: storing one again replaces a pointer by another to   *)
(* the same message, interaction, actor or thread.  An interaction names   *)
(* its message by the ID messages are stored under; a thread does not (see *)
(* ThreadsListMessages in IngestCommand), so its list is left out here.    *)
(* Timestamps are naturals; 0 is the zero time, which in a query means no  *)
(* bound.                                                                  *)
(***************************************************************************)
EXTENDS Integers, FiniteSets, FiniteSetsExt

CONSTANTS
  Message,      \* message IDs
  Interaction,  \* records [message, thread, from, to, edgeType, timestamp]
  Actor,        \* actor IDs
  Thread,       \* records [id, start, end]
  Date,         \* Date[m]: when message m was sent
  Platform,     \* Platform[m]: where
  ListOptions,  \* options the pager lists with: [after, before, platform, limit]
  Queries       \* InteractionQuery values: see GetInteractions

None == "none"   \* an empty field of an option or a query

ASSUME ItemsAssumption ==
  /\ IsFiniteSet(Message) /\ IsFiniteSet(Interaction)
  /\ IsFiniteSet(Actor) /\ IsFiniteSet(Thread)
  /\ Date \in [Message -> Nat \ {0}]
  /\ \A i \in Interaction : i.message \in Message

ASSUME LimitAssumption ==
  /\ \A o \in ListOptions : o.limit \in Int
  /\ \A q \in Queries : q.limit \in Int

VARIABLES
  contents,  \* contents[k]: the map of kind k
  closed,    \* Close was called
  saver,     \* [copied, parts]: kinds copied so far and the copies
  before,    \* history: contents when the saver began
  pager,     \* [state, kind, opts, offset, received]: listing page by page
  quiet      \* history: nothing was stored since the pager began

vars == <<contents, closed, saver, before, pager, quiet>>

Item == [messages |-> Message, interactions |-> Interaction,
         actors |-> Actor, threads |-> Thread]
Kind == DOMAIN Item
Empty == [k \in Kind |-> {}]

TypeOK ==
  /\ \A k \in Kind : contents[k] \subseteq Item[k] /\ saver.parts[k] \subseteq Item[k]
  /\ closed \in BOOLEAN
  /\ saver.copied \in SUBSET Kind
  /\ pager.state \in {"idle", "paging", "ended", "refused"}
  /\ pager.offset \in Nat /\ pager.received \in Nat
  /\ quiet \in BOOLEAN

Init ==
  /\ contents = Empty
  /\ closed = FALSE
  /\ saver = [copied |-> {}, parts |-> Empty]
  /\ before = Empty
  /\ pager = [state |-> "idle", kind |-> "messages", opts |-> None, offset |-> 0,
              received |-> 0]
  /\ quiet = TRUE
-----------------------------------------------------------------------------
\* Fault: the flag is looked at by the operations on one item only.
PutUnchecked(k, items) ==
  /\ closed => Cardinality(items) > 1
  /\ contents' = [contents EXCEPT ![k] = @ \cup items]
  /\ quiet' = (quiet /\ items \subseteq contents[k])
  /\ UNCHANGED <<closed, saver, before, pager>>

\* A closed store returns ErrStoreClosed before it touches anything.
Put(k, items) ==
  /\ ~closed
  /\ contents' = [contents EXCEPT ![k] = @ \cup items]
  /\ quiet' = (quiet /\ items \subseteq contents[k])
  /\ UNCHANGED <<closed, saver, before, pager>>

(***************************************************************************)
(* Writers store a message before its interactions, as the ingest command  *)
(* and the session loader do.  Threads come as the threading library made  *)
(* them: nothing is asked of them.                                         *)
(***************************************************************************)
Known(m) == m \in contents["messages"]

StoreMessage(m) == Put("messages", {m})
StoreInteraction(i) == Known(i.message) /\ Put("interactions", {i})
StoreActor(a) == Put("actors", {a})
StoreThread(t) == Put("threads", {t})

StoreMessages(ms) == Put("messages", ms)
StoreInteractions(is) == (\A i \in is : Known(i.message)) /\ Put("interactions", is)
StoreActors(as) == Put("actors", as)

Close ==
  /\ closed' = TRUE
  /\ UNCHANGED <<contents, saver, before, pager, quiet>>
-----------------------------------------------------------------------------
(***************************************************************************)
(* Listing.  Both bounds of a window are exclusive.  The map is walked in  *)
(* random order, so a page is any choice of as many items as it has room   *)
(* for.                                                                    *)
(***************************************************************************)
InWindow(from, to, opts) ==
  /\ opts.after # 0 => from > opts.after
  /\ opts.before # 0 => to < opts.before

ListMessages(opts) ==
  {m \in contents["messages"] : /\ InWindow(Date[m], Date[m], opts)
                                /\ opts.platform \in {None, Platform[m]}}
ListThreads(opts) == {t \in contents["threads"] : InWindow(t.start, t.end, opts)}
ListActors(opts) == contents["actors"]

GetInteractions(q) ==
  {i \in contents["interactions"] :
     /\ q.from \in {None, i.from} /\ q.to \in {None, i.to}
     /\ q.edgeTypes # {} => i.edgeType \in q.edgeTypes
     /\ InWindow(i.timestamp, i.timestamp, q)
     /\ q.message \in {None, i.message} /\ q.thread \in {None, i.thread}}

Matching(k, opts) ==
  CASE k = "messages"     -> ListMessages(opts)
    [] k = "threads"      -> ListThreads(opts)
    [] k = "actors"       -> ListActors(opts)
    [] k = "interactions" -> GetInteractions(opts)

\* Fault: the limit is applied before the offset.
PageLimitFirst(n, offset, limit) ==
  LET cut == IF limit > 0 /\ limit < n THEN limit ELSE n
  IN  IF offset < cut THEN cut - offset ELSE 0

PageLength(n, offset, limit) ==
  LET rest == IF offset < n THEN n - offset ELSE 0
  IN  IF limit > 0 /\ limit < rest THEN limit ELSE rest

BeginPaging ==
  /\ pager.state = "idle"
  /\ \E k \in Kind : \E opts \in IF k = "interactions" THEN Queries ELSE ListOptions :
       pager' = [pager EXCEPT !.state = "paging", !.kind = k, !.opts = opts]
  /\ quiet' = TRUE
  /\ UNCHANGED <<contents, closed, saver, before>>

\* A caller asks for pages until one is empty.  GetInteractions knows no
\* offset: it is asked once.
NextPage ==
  /\ pager.state = "paging"
  /\ ~closed
  /\ LET n == PageLength(Cardinality(Matching(pager.kind, pager.opts)),
                         pager.offset, pager.opts.limit)
     IN  pager' = [pager EXCEPT
           !.received = @ + n,
           !.offset = @ + n,
           !.state = IF n = 0 \/ pager.kind = "interactions" THEN "ended" ELSE @]
  /\ UNCHANGED <<contents, closed, saver, before, quiet>>

PageRefused ==
  /\ pager.state = "paging"
  /\ closed
  /\ pager' = [pager EXCEPT !.state = "refused"]
  /\ UNCHANGED <<contents, closed, saver, before, quiet>>
-----------------------------------------------------------------------------
\* Fault: a closed store has nothing to show.
AllIfOpen(k) == IF closed THEN {} ELSE contents[k]

\* AllMessages and its sisters do not look at the flag.
All(k) == contents[k]

CopyPart(k, earlier) ==
  /\ saver.copied = earlier
  /\ saver' = [copied |-> earlier \cup {k}, parts |-> [saver.parts EXCEPT ![k] = All(k)]]
  /\ before' = IF earlier = {} THEN contents ELSE before
  /\ UNCHANGED <<contents, closed, pager, quiet>>

AllMessages == CopyPart("messages", {})
AllInteractions == CopyPart("interactions", {"messages"})
AllActors == CopyPart("actors", {"messages", "interactions"})
AllThreads == CopyPart("threads", {"messages", "interactions", "actors"})

FromMemoryStore == AllMessages \/ AllInteractions \/ AllActors \/ AllThreads
-----------------------------------------------------------------------------
Store ==
  \/ \E m \in Message : StoreMessage(m)
  \/ \E i \in Interaction : StoreInteraction(i)
  \/ \E a \in Actor : StoreActor(a)
  \/ \E t \in Thread : StoreThread(t)
  \/ \E ms \in SUBSET Message : StoreMessages(ms)
  \/ \E is \in SUBSET Interaction : StoreInteractions(is)
  \/ \E as \in SUBSET Actor : StoreActors(as)

Next == Store \/ Close \/ BeginPaging \/ NextPage \/ PageRefused \/ FromMemoryStore

Spec == Init /\ [][Next]_vars
-----------------------------------------------------------------------------
(***************************************************************************)
(* What an interaction in a copy may name that is not in it: the saver     *)
(* copied the messages before the rest, so an interaction that was stored  *)
(* meanwhile may come without its message.  Nothing else is lost: each     *)
(* part of a copy holds all the store held when copying began, even when   *)
(* the store is closed in between (session/loader.go:63).                  *)
(***************************************************************************)
DanglingOnlyWhenRaced ==
  /\ TypeOK
  /\ \A k \in saver.copied : before[k] \subseteq saver.parts[k]
  /\ \A i \in saver.parts["interactions"] :
       i.message \notin saver.parts["messages"] =>
         i \notin before["interactions"] /\ i.message \notin before["messages"]

(***************************************************************************)
(* When nothing is stored meanwhile, paging never gives more items than    *)
(* match, and exactly as many by the first empty page.  Which they were    *)
(* the order of the map decides anew for each page: with more than one     *)
(* page some may have come twice and others never (storage/memory.go:78).  *)
(***************************************************************************)
PagesAddUp ==
  pager.state \in {"paging", "ended"} /\ quiet =>
    LET n == Cardinality(Matching(pager.kind, pager.opts))
        due == IF pager.kind = "interactions" THEN PageLength(n, 0, pager.opts.limit) ELSE n
    IN  pager.received <= due /\ (pager.state = "ended" => pager.received = due)

(***************************************************************************)
(* Close is final: nothing gets into a closed store any more, by no call   *)
(* that was already waiting for the lock and by no batch                   *)
(* (storage/storage.go:43).                                                *)
(***************************************************************************)
ClosedForGood == [][closed => closed' /\ contents' = contents]_vars
=============================================================================
