# Verification of commgraph in TLA+

commgraph reads mail archives, resolves the addresses in them to actors, files
an interaction for every sender and addressee, groups messages into threads and
analyses the resulting network. This directory holds TLA+ modules of its core,
TLC configurations that check them on small instances, and proofs that TLAPS
checks for every value of the constants. Paths below are relative to the
repository.

## 1. The system

The program is a command line (`cmd/commgraph`) around libraries. Only three
things run concurrently: the goroutines and channels of the mail adapters, the
callers of the identity resolver and the store (both lock inside), and separate
commands that share one session file. Everything else is sequential, and hard
for another reason: Go walks maps in random order, so most analyses compute
with orders and ties that differ from run to run.

| component | state | operations | what makes it correct |
|---|---|---|---|
| identity resolver (`identity/scim.go`, `resolver.go`, `enron.go`) | actor map, address index, ID counter, statistics, one RWMutex | LoadActor(s), Resolve, ResolveOrCreate, IsInternal, GetActor, Aliases, Stats | one mailbox, one identity, whatever callers and loads do meanwhile; maps, counters and earlier answers fit together |
| mail adapters (`adapter/`) | a producer goroutine, a relay for incremental calls, two channels each, a context | Ingest, IngestIncremental of mbox and maildir | messages arrive once and in order; a stream that ends without an error is complete; goroutines end |
| session file (`session/session.go`) | one JSON file, no lock | Save, Load | a load gives the last session saved, or an error |
| session loader (`session/loader.go`) | none | SaveFromStore, LoadIntoStore | a loaded store and resolver equal the saved ones |
| memory store (`storage/`) | four maps and a closed flag under one RWMutex | Store*, Get*, List*, All*, batches, Close | a store returns what was put in it; nothing after Close |
| commands (`cmd/commgraph`) | two globals per process | ingest, pipeline, analyze, identity, export, community, paths, bridges, temporal, external | the edges are those of the mail; a session on file is whole; a later command finds it |
| threading (`threading/reconstructor.go`) | none; an external library decides | Reconstruct | messages, threads and interactions name each other consistently |
| paths (`analysis/paths.go`) | none | ShortestPath, AllPathsUpToDepth, AveragePathLength, GraphDiameter, ConnectedComponents, EgoNetwork | exact whatever the order of the neighbours |
| communities (`analysis/community.go`) | none | Louvain, LabelPropagation | a partition; within components; stable when it stops by itself |
| bridges (`analysis/bridges.go`) | none; takes a community result, asks the store again | DetectBridges, StructuralHoles, DetectGatekeepers | both ends of every edge counted although the store has grown; shares are shares |
| centrality (`analysis/centrality.go`) | none | Degree, InDegree, OutDegree, PageRank, Betweenness | degrees add up, ranks stay a distribution |
| external analysis (`analysis/external.go`) | six maps during one call; asks a live resolver | ExternalAnalysis | the maps are a double-entry account of the same crossings |
| temporal analysis (`analysis/temporal.go`) | none; BurstDetection asks the store twice | Timeline, BurstDetection, ResponseTimes | windows, bursts and answers are what their definitions say |
| exporters (`export/`, `cmd/commgraph/export.go`) | none | GEXF, Cypher, CSV, JSON | what the reading program holds afterwards is the graph |
| weights, graph wrapper, configuration, entities | tables, records | lookups | outside this development, see section 7 |

How they interact: `ingest` takes messages from an adapter's channel, calls the
resolver and the store for each, then the threading wrapper, and saves store and
resolver through the loader into the file. `analyze` and `identity` load that
file; the other query commands look at globals of their own process. `pipeline`
does all of it in one process and may load the Enron directory first. Analyses
copy the store's interactions and compute on a private graph; three of them go back
to something shared while they work: BurstDetection and DetectBridges query the store a
second time, and the external report asks the resolver twice at each interaction. Messages are
shared by pointer: threading writes into messages that the store already holds.

A message has two IDs. It is stored under a hash of its text, and interactions name it by that
(`ingest.go:113`); the threading library is told the Message-ID header, if there is one
(`threading/reconstructor.go:130-134`), so that is what threads list. Nothing translates
between the two.

Every hazard found while reading is in `PROJECT.json` with its line and the
properties that cover it; the ones without a property say why.

## 2. Modules

| module | stands for | built on |
|---|---|---|
| `IdentityMap` | what a resolver promises: an atomic map from mailboxes to identities | |
| `SCIMResolver` | `identity/scim.go` with its critical sections | implements `IdentityMap` |
| `SCIMResolver_proofs` | theorems about it | `SCIMResolver` |
| `MessageStream` | what an adapter promises its reader | |
| `MailIngest` | both adapters, both calls, their goroutines and the reader | implements `MessageStream` |
| `MailIngest_proofs` | theorems about it | `MailIngest`, `DataLemmas` |
| `SessionFile` | Save and Load on a shared file, with crashes | |
| `IngestCommand` | ingest, pipeline, the session round trip and later commands | composes `SCIMResolver` with the store, the loader and the threading wrapper |
| `IngestCommand_proofs` | theorems about it | `IngestCommand`, `DataLemmas` |
| `MemoryStore` | `storage/memory.go`, a pager and the saver of the loader | |
| `Storage_proofs` | theorems about `MemoryStore` and `SessionFile` | both |
| `NetworkPaths` | all searches of `analysis/paths.go` | |
| `NetworkPaths_proofs` | theorems about it | `NetworkPaths`, `DataLemmas` |
| `Community` | both community algorithms and their result | |
| `Bridges` | DetectBridges and StructuralHoles | extends `Community` |
| `GraphExport` | the Gephi and Neo4j exports with communities | extends `Community` |
| `CommunityReports` | community detection and the calls that use its result | composes `Bridges` and `GraphExport` |
| `Community_proofs` | theorems about these four | `CommunityReports`, `DataLemmas` |
| `DataLemmas` | lemmas about sequences, finite sets and sums that the proofs share | |
| `Traffic` | the copy of the interactions a report walks over | |
| `ExternalTraffic` | ExternalAnalysis and a resolver that changes meanwhile | extends `Traffic` |
| `Centrality` | the degrees and PageRank | extends `Traffic` |
| `Temporal` | BurstDetection with its Timeline, ResponseTimes | extends `Traffic` |
| `Analyzer` | one call of any of these reports | composes the three |
| `Analyzer_proofs` | theorems about the external report, the degrees and PageRank | `Analyzer`, `DataLemmas` |
| `MC...` | instances for TLC | the module of that name |

**SCIMResolver.** The variables are the fields of the struct. Each section under
`r.mu` is one action. `ResolveOrCreate` has two: the look-up under the read lock
(`LookUpHit`, `LookUpMiss`) and the second look under the write lock
(`JoinExisting`, `CreateActor`); the hit counter of the fast path, bumped after
the read lock is gone, is a third (`CountHit`). A spelling of an address is mapped to
a mailbox by the constant `Normal`, which is what `normalizeEmail` computes;
`"auto_7"` is `<<"auto", 7>>`. A directory entry is a record with a *set* of
addresses: an entry that repeats an address in its own list, which would count
twice as an alias, is not modelled. Directory IDs are disjoint from invented
ones; what happens without that is in `IngestCommand`, where saved `auto_` actors
are loaded. Pointers that `GetActor` and `Aliases` hand out are not
modelled.

**MailIngest.** A source is a sequence of entries: newer than the checkpoint, not
newer, or without a message. Channels have a capacity (100 in the code, a constant
here), sends block, a `select` is two actions of which either may be taken.
The details that matter are kept: deferred closes run in reverse, so errors close
first; the mbox adapter sends its *last* message outside the select; the
maildir walk swallows `context.Canceled` and reports a deadline, and ends as if complete when the
context ends after the last entry; the relay
forwards errors after the base channel is closed. Splitting text into entries and
parsing MIME are below the model. Files and directories that cannot be read are passed over by the
maildir walk without an error (`maildir.go:59-62`, `76-80`): they are entries without a message,
and completeness is relative to what the walk visits. What the adapters promise is stated by positions in the
source: `IsWanted` says which entries a call must deliver, `Wanted` lists them in order,
`Line` is what the reader has followed by what is under way to it.

**SessionFile.** Bytes become visible in chunks. Each writer has its own offset,
`os.Create` truncates, the decoder stops at the end of the first value and ignores
the rest. `BreakSave` is a write error or the death of the process. `alone`
and `settled` are history variables used by the properties only. Chunks are an
abstraction in the safe direction: any number of bytes may be in one.

**IngestCommand.** `R == INSTANCE SCIMResolver` supplies the resolver's actions with a
single caller; the module adds the store's maps, threads and the session.
A `MailId` is the hash of a text, so a message met twice has the same ID and
header: a source is a sequence over IDs and a copy is a position in it. The constant
`MessageID` is the other ID, the header, which may be missing and which two messages may
share; `GetMessageID` is what the threading library gets to know. What the library decides is
a free choice: any thread, or none, for each copy. `ThreadOf` is a thread as the
wrapper builds it, with raw addresses for participants, and `WithThreads` hands the threads on to
interactions copy by copy, so that the last copy with a thread decides, while the stored
message is the last copy. `Save` writes the session, breaks off in the middle or fails to open the file
and leaves the old one. A command that ends leaves nothing but the session.
The resolver of a command that loaded a session may be used further
(`ResolveMore`), as a caller of the public `LoadIntoStore` can.

**MemoryStore.** Every method holds the lock from start to end and is one action. An
item is its ID (two messages of one ID are one item; the copies are kept
apart in `IngestCommand`). What takes several calls is where interleaving matters: a
pager that asks for one page after the other, and the saver, which copies the four
maps one by one. `before` and `quiet` are history variables. Writers store a message
before the interactions that name it, as every caller in the repository does. Threads refer to
messages by the other ID and are stored at any time.

**NetworkPaths.** One step takes an actor off the queue, with its unseen neighbours
appended in any order, or enters or leaves one in the depth-first enumeration. All
breadth-first searches share `Expand`; the question asked (`job`) decides where they stop
and what they return. The definition of distance they are compared with does not search:
`Ball` is the function from a radius to the actors within it, one ring of neighbours at a
time.

**Traffic, ExternalTraffic, Centrality, Temporal, Analyzer.** An analysis is a walk over a copy
in any order; one step counts one interaction. `ExternalTraffic` keeps the six maps of
the code, with sets of pairs for the maps of sets, and lets another goroutine load
an actor between two steps. `Centrality` computes with exact numbers over a
common denominator where the code has floating-point numbers. `CountNewcomer` is the one case in
which two look-ups for one interaction differ from one: somebody who writes to himself becomes
known in between. `Temporal` has a zero time, which a query takes for no bound, and compares a count
with mean and deviation by squaring, which is exact too. In both the
properties are about the algorithm; rounding is not modelled. `Analyzer`
composes the three: they share the copy and nothing else.

**Bridges, GraphExport, CommunityReports.** These begin where `Community` ends, with a
result; `Bridges` sees a store that has grown since by any of the `Arrivals`. Interactions weigh one
there, so that summed weights are numbers of interactions
too. A Gephi file is what Gephi holds of the communities after reading it: a number and a colour for each node.
A Neo4j file is the community nodes and memberships its statements leave in an empty database, where a
MATCH that finds nothing drops its statement without a word. Edges are taken over one
by one and left out; so is MERGE's key (`export/neo4j.go:127`), by which interactions of the same
ends, type and message collapse, which the commands never make.

**Community.** One step visits one actor. Louvain visits in any order, label
propagation in one order fixed at the start; ties go any way. Communities are
named by the actor that began alone in them, which is a renaming of the integers in the code.
Gains are multiplied by the square of the total weight to stay integers, so
comparisons that floating-point rounding would decide count as ties or
strict according to the exact value.

## 3. Runs

| run | asks | bounds | states |
|---|---|---|---|
| `resolver` | Do two racing callers and directory loads see an atomic map; do index, counters and answers stay true? | 2 callers, 3 mailboxes, 3 spellings, 3 entries of 2 people (overlapping, merging, one with a foreign primary address), 4 calls | 24 thousand |
| `mail` | Is every stream complete, in order and finite? | all 4 calls, sources up to 3 entries, capacity 1, cancellation and read errors anywhere | 40 thousand |
| `session_file` | Does a load return the last save? | 2 commands, 3 saves, texts of 1 or 2 chunks | 93 thousand |
| `ingest` | Do edges, index, threads and session fit the mail? | sources up to 3 of 2 messages, 4 addresses, one Message-ID header for both, 2 threads or none for each copy, directory or none, 2 ingests with loads in between | 897 thousand |
| `store` | What can a copy lack, what does a pager get, is Close final? | 2 messages, 2 interactions, 1 thread, 1 actor; 3 list options, 2 queries; all batches | 494 thousand |
| `paths` | Are all searches exact and finite? | every graph on 4 actors, one with a self-loop, depths 0, 2 and 3, all samples, 3 pairs of ends | 227 thousand |
| `communities` | Are communities within components, stable when stopped, a partition; do bridges, holes and exports fit the network they are about? | every subset of 6 weighted edges on 4 actors, 3 rounds, 2 arrivals, one of a fifth actor | 78 thousand |
| `analyzer` | Do the accounts of each report agree with each other and with sets of interactions? | 4 actors, any 4 of 9 interactions, 3 directories and 1 load in mid-walk; 2 rounds of PageRank; 7 or more of 10 dated ones for bursts; 4 to 6 of 8 for answers | 79 thousand |

Why the bounds suffice. Two callers are all a race on one mailbox needs, and the
theorems cover any number. Capacity 1 makes every send meet a full
channel; three entries are one held, one in the channel and one more. Three saves
give long after short, short after long and two that overlap. Three
positions and two messages give a duplicate on either side of another message, with copies in
different threads; that both messages have one header is the hardest case for telling them apart.
Four actors give paths of length three, two components with edges, and ties. Three
rounds are enough for a cycle of moves to hit the round bound
instead of settling. For the bursts, seven to ten dated interactions give two separate
bursts, one on the last day, one over a silent day, deviation zero, and undated first interactions;
the eight dated ones of a conversation hold four at one instant, two of them
crossing. The four interactions of an external report are any mixture of within, in,
out and outside, to oneself included, and the thresholds for boundary spanners (10 and 3
in the code) are 2 and 2.

What each property says is in the comment above it. In short:

- `resolver`: `IndexConsistent`, `CallersAgree`, `AnswersStayTrue`,
  `StatsConsistent`; per step `NeverRebindToAuto`, `ActorsOnlyGrow`; refinement `Linearizable`.
- `mail`: `NothingLostInFlight`; refinement, liveness included, `DeliversStream`; `GoroutinesEnd`.
- `session_file`: `FileIsLastSave`, `QuietLoadIsLastSave`.
- `ingest`: `EdgesMatchMail`, `ReloadRestores`, `SavedThreadsAgree`, `NoPartialSession`.
- `store`: `DanglingOnlyWhenRaced` (what a copy made during writing may miss, and no
  more), `PagesAddUp` (how many items, not which: pages may repeat and miss some); per step `ClosedForGood`.
- `paths`: `PathIsShortest`, `EgoIsNeighbourhood`, `ComponentsAreClasses`,
  `DiameterIsAttained` (the figures of a sample of the size asked for), `AllPathsAreFound` against definitions of distance and of simple
  paths that do not search; `SearchReturns`.
- `communities`: `WithinComponents`, `StoppedMeansStable`, `ResultIsPartition`;
  `BridgesCountEnds`, `SharesAreShares`; `ColoursTellCommunities` (one colour exactly for one community),
  `ImportIsComplete` (everybody in one community, sizes those of the groups, though perhaps at another node).
  Liveness: `ReportReturns`.
- `analyzer`: `BooksBalance` at every moment, `ResultsAreCounts` at the end; `RankMassIsKept`,
  `DegreesAddUp`; `BurstsAreMaximalRuns`, `OnlyTheInsideIsCounted`, `AnswersAreToTheLatest`.

The type invariant of a module is part of one of its properties where it has no run of
its own.

### Where code and text disagree

Four runs check a sentence of the repository that the code does not keep; TLC's
counterexample is the shortest one.

| run | sentence | what happens |
|---|---|---|
| `mail_leak` | "The channel is closed when ingestion completes or an error occurs" (`adapter/adapter.go:17`) | cancelled incremental mbox ingest: the relay leaves, the producer waits for ever to send the last message |
| `reload_ids` | "generateID generates a unique actor ID." (`identity/scim.go:251`) | a resolver from a session counts from 1 again and overwrites the saved `auto_1` |
| `community_ids` | "Actor -> Community ID" (`analysis/community.go:26`) | IDs are reassigned after sorting, the membership is not |
| `thread_ids` | "MessageIDs contains all message IDs in the thread" (`entity/thread.go:16`), "ID is the unique identifier for this message" (`entity/message.go:7`) | threads list Message-ID headers, messages are stored by hash: what a thread lists is no message of the session |

Other disagreements seen while modelling, which no run states:

- "Participants contains all actor IDs involved in the thread." (`entity/thread.go:19`): raw addresses
  are cast to actor IDs (`threading/reconstructor.go:85-91`); `ThreadOf` models them as such.
- "separate commands with session persistence" (`docs/getting-started/quickstart.md:74-90`): export looks
  at the globals of its own process and says that no data is loaded (`QueryWithoutLoading`).
- "Find bridge actors (connect multiple communities)" (`export/neo4j.go:284`): the query asks for actors
  of two communities, and an import puts each into one (`ImportIsComplete`).
- "maximizes modularity" (`analysis/community.go:30`): `modularityDelta` counts the gain of
  joining without the loss of leaving, so a move may lower the modularity that the same
  file computes. `StoppedMeansStable` is therefore about these gains.
- "immutable once stored" (`storage/storage.go:21`): StoreMessage replaces a message of
  the same ID, and `ErrAlreadyExists` is never returned.
- "generates n distinct colors" (`export/gephi.go:383`): `hsvToRGB` takes an integer
  remainder, so there are six colours; `ColoursTellCommunities` stops at six communities.
- The Neo4j sizes of communities stand at the nodes by the IDs from after the sorting, the members by
  those from before (`export/neo4j.go:147-158`): a node of size 3 may have one member. This is
  `community_ids` in another place; `ImportIsComplete` says no more than what is left.
- ExportThreads links messages with a MATCH on `Message` nodes (`export/neo4j.go:183`), which no
  export creates, so nothing is linked. No command calls it.
- The CSV exporters defer the writer's Flush and never ask for its error, and the Cypher
  exporter ignores those of Fprintf: on a full disk both report success.
- A burst may reach over days without traffic, since such days are no points of the timeline;
  and its statistics leave out the first and the last interaction.

## 4. Fairness

`MailIngest` has weak fairness for the producer, the relay and the reader, each as a
whole: the Go scheduler runs a goroutine that can proceed. Nothing
obliges the context to end or a read to fail. Weak fairness of a goroutine says
nothing about which branch of a `select` it takes, as in Go. `NetworkPaths` has weak
fairness of the search and `FairReports` of the command that detects communities: each is one goroutine that
blocks on nothing, so it goes on as long as it has a step. The other modules
state safety only and have no fairness. `GoroutinesEnd` excuses the one leak that
`mail_leak` shows.

## 5. Proofs

Every safety property the passing runs check is proved for all values of the constants. The bounds of section 3 do not enter: sets of actors,
mailboxes, items and processes are any finite sets, sources and graphs any.

| module | theorem | property |
|---|---|---|
| `SCIMResolver_proofs` | `TypeCorrect` | `TypeOK` |
| | `IndexIsConsistent` | `IndexConsistent` |
| | `AnswersAreGood` | `AnswersStayTrue` |
| | `RacingCallersAgree` | `CallersAgree` |
| | `StatsTellTheTruth` | `StatsConsistent` |
| | `NoActorLost` | `ActorsOnlyGrow`, per step |
| | `KnownAddressesKeepTheirOwner` | `NeverRebindToAuto`, per step |
| | `ResolverIsLinearizable` | `Linearizable`, a refinement |
| `MailIngest_proofs` | `NoMailLost` | `NothingLostInFlight` |
| | `ImplementsStream` | the safety part of `DeliversStream`, a refinement |
| `IngestCommand_proofs` | `InteractionsMirrorMail` | `EdgesMatchMail` |
| | `LoadersRebuildTheIndex` | `ReloadRestores` |
| | `ThreadsHangTogether` | `SavedThreadsAgree` |
| | `SessionsAreWhole` | `NoPartialSession` |
| `Storage_proofs` | `LoneSaveSettles` | `FileIsLastSave` |
| | `QuietLoadsAreFresh` | `QuietLoadIsLastSave` |
| | `TypeCorrect` | `TypeOK` of `MemoryStore` |
| | `ClosedStaysClosed` | `ClosedForGood`, per step |
| | `CopiesLackOnlyWhatRaced` | `DanglingOnlyWhenRaced` |
| | `PagersGetTheirDue` | `PagesAddUp` |
| `NetworkPaths_proofs` | `ShortestPathsAreShortest` | `PathIsShortest` |
| | `EgoNetworksAreNeighbourhoods` | `EgoIsNeighbourhood` |
| | `ComponentsAreTheClasses` | `ComponentsAreClasses` |
| | `DiametersAreAttained` | `DiameterIsAttained` |
| | `EveryPathIsFound` | `AllPathsAreFound` |
| `Community_proofs` | `TypeCorrect` | `TypeOK` |
| | `CommunitiesAreConnected` | `WithinComponents` |
| | `StopsStable` | `StoppedMeansStable` |
| | `ResultsArePartitions` | `ResultIsPartition` |
| | `BothEndsAreCounted` | `BridgesCountEnds` |
| | `SharesNeverExceedOne` | `SharesAreShares` |
| | `SixCommunitiesSixColours` | `ColoursTellCommunities` |
| | `ImportsAreComplete` | `ImportIsComplete` |
| `Analyzer_proofs` | `TheBooksBalance` | `BooksBalance` |
| | `AllWeightIsCounted` | `DegreesAddUp` |
| | `MassIsConserved` | `RankMassIsKept` |
| | `ReportsAreExact` | `ResultsAreCounts` |
| | `BurstsAreRuns` | `BurstsAreMaximalRuns` |
| | `OnlyInsideCounts` | `OnlyTheInsideIsCounted` |
| | `AnswersAreLatest` | `AnswersAreToTheLatest` |

**What is assumed.** Only what the modules' `ASSUME`s say of their constants, which TLC
evaluates in every run: sets of actors, mailboxes, items and arrivals are finite (they are Go maps),
`Normal`, `Header` and `MessageID` are total, interactions name messages, capacities are at least 1 as in the
code, limits are integers of any sign, a pair of actors is in a graph because of an interaction
(`CountsAssumption`), directory entries are well-typed (`ResolverAssumption` in
`IngestCommand`, `RosterAssumption` and the others in `SCIMResolver`).

**The resolver.** `IndexConsistent` alone is not inductive: a creation could overwrite
an actor that other mailboxes lead to. The inductive invariant

    Inv == Typed /\ IndexConsistent /\ AnswersStayTrue /\ Fresh /\ OneOwner

adds that a caller in its second critical section holds a mailbox (`Typed`), that
every invented ID on file is numbered at most `nextID` (`Fresh`, so a new one hits
nobody) and that an invented actor lists exactly one mailbox, which is listed by no
other invented actor (`OneOwner`, which is what the second look under the write
lock preserves). `LoadEffect` and `CreateEffect` state once what a load and a
creation do to the maps. For the counters, `Counted` adds the callers between two sections
(`Busy`): a call is a hit, a miss, a creation, or still at work.

**The adapters.** `FlowInv` says where goroutines can be and what they hold (`Places`), that what
is delivered, in the channels and in hands is in source order (`Sorted`), and what a
closed channel lets its reader conclude (`Drained`). The part with the argument
is `Accounted`: a message missing from the line is missing at its end, and either an error
is on its way, or the excuse the code gives (a cancelled walk) holds. The refinement maps the
concrete states to `MessageStream` by what the reader has; each step of `got` is the next of
`Wanted` because of `Sorted` and `Accounted`.

**The session file.** `SaveInv` relates an undisturbed command to the file: a saver that is `alone` has
written exactly the file's chunks, a lone loader's buffer is a prefix of it (`QuietWork`), and a
file that is settled is the last version whole (`SettledFile`). That savers and settled files
exclude each other (`SettledWhenIdle`) makes it inductive.

**The commands.** The store's contents are described by what was read: `Storing` says which copy and which
interactions are on file for the first `read` messages, less those of `todo`; `Resolving` ties
the resolver's program counter to the head of `todo`, so that what it answers is the owner of
that address, also between the read lock and the write lock. `Inventing` (one actor for each
mailbox) holds for `ingest` only; it is what makes a saved index reload to itself. `SessionGood`
repeats all this for the file, and `Loading` relates a half-loaded resolver to it. `Threaded` says what
threading gave the copies, and `ThreadsAgree` what follows for the interactions, from the last copy that was
given a thread and the copy that is stored.

**The store.** `CopyInv`: the store never lacks a message that an interaction names, therefore neither does
`before`, and each part copied contains `before`'s. The pager's `Received` counts what was handed out
against what matches; the lemmas about `PageLength` hold for offsets and limits of any size.

**The paths.** `Levels` is the classical invariant of breadth-first search (the queue is
sorted, spans two levels, the numbers kept are distances, who is off the queue has all neighbours found) with
the horizon of the ego network. `Walking` says that a path not found yet leaves the present walk at a
neighbour not tried, although marks are taken back. `Figures` says that the running
sum and maximum are those of the samples whose searches are over. That `Ball` grows until it is the
component, and that shortest distances obey the triangle inequality with one edge, is in the
module's lemmas.

**The communities.** An actor and the actor its community is named
after are on the same side of every cut (`SameSide`): `WithinComponents` does not say it,
and a move copies a neighbour's name. While a round has
changed nothing, everyone visited in it is content (`SoFarContent`); `ContentSame` says
contentment depends on the memberships only. `Answer` says a result numbers and lists the classes
of the memberships, from which partition, colours and the import follow by counting. The theorems
about reports hold over `ReportsSpec`, which implements `Spec` (`ReportsKeepSpec`).
`CommunitiesAreConnected` uses nothing of
the arithmetic, so it does not depend on how gains are rounded; `StopsStable` speaks
of exact gains (the code adds floating-point numbers in map order, so two evaluations of
one gain may differ in the last bits, which the model leaves out).

**The reports.** `Books` gives both sides of the account as sums over the maps, including the crossings
by actor and domain and the number of interactions walked over, for any directory: a step adds the
same number to each side (`LedgerGrows`, `SeenAddsNothing`), whoever became internal since the
last one. While nobody loads, each map is also a function of the *set* of interactions walked over,
whatever their order (`ExactReport`): `ExactTracked` is the step that counts an interaction for the
inside actor, whichever end of it that is. `Degrees` relates the two maps to the weight met so far (`WeightMet`). For PageRank, the
round is summed twice (`RoundKeepsMass`): by receiver it is the new ranks, by sender it is
what each gives away, which is its damped rank because its shares add up to the whole
(`SharesAreWhole`). That every out-weight divides their product is `FactorDivides`.

**Time.** `Timely` says that the window found spans the copy and that the timeline totals what the copy has
strictly inside it, and of the arrivals at most those inside; it rests on `PointsAreTheTimes` (a timeline
is in order, and its counts add up to the number of times it was made from). While the timeline is
looked at, `Scanned` relates the bursts that are over one to one to the runs that are over, and
the open one to the points from its first up to the last one looked at. Since
a run that begins later has a later start (`OneMoreStands`), no burst stands for two; at deviation
zero, where the code looks at nothing, all counts are equal and there is no run
(`NoSpreadNoExcess`). For response times, `LastKept` and `InTime` say that what is kept for a pair
is the latest walked over. Interactions that cross at one instant may or may not count,
depending on the order the sort leaves them in; so `Witnessed` asks, for every pair and gap, for
*some* set with as many interactions as answers of that gap were kept, which has all the certain ones
and only possible ones. `SortedArranges` says that `Sorted`, defined by how many values come before
each, is a permutation in order.

**Data.** Recursion is written with recursive functions and folds. `DataLemmas` proves
what is used of them without induction theorems, which take an operator as a parameter
and cannot be used by the provers here: `NatSetInduction` and `FiniteInduction` are about
the *set* of values for which a claim holds, and come from a well-founded minimum.
The fold that adds up a function over a set chooses an order; `SumIsTheSum` says
the order does not matter, and `SumOfUnion`, `SumByKey`, `SumOfMoved` and the others are its
consequences. Sizes of communities, ends of edges, accounts, degrees, ranks and totals of path
lengths are such sums.

**Only model-checked.** Liveness and ENABLED, which are out of the provers' reach: the
liveness of `DeliversStream`, `GoroutinesEnd`, `SearchReturns`, `ReportReturns`.

## 6. Faults

Definitions introduced by a comment that begins `Fault:` are not used by any
specification. Each is a plausible error in the definition it precedes (a dropped
second look, an open without truncation, a counter not reset), and putting it in that
definition's place makes the property it is paired with in `PROJECT.json` fail. They
show that every property can tell a broken program from this one.

## 7. Not modelled

- Betweenness and DetectGatekeepers, whose candidates come from it: an external library
  computes them.
- Rounding. Gains, ranks, shares and deviations are exact here and floating-point numbers in
  the code.
- Weights: tables and a decay series no command uses. The graph wrapper and the
  configuration are not used by any command.
- The CSV and JSON exporters, the Gephi layouts without communities, and actors, interactions and
  threads of the Cypher exporter: one record after the other.
- Text: MIME, mbox separators, header decoding, display names, printing; the order of
  equal scores beyond the ranks, and the names of an actor's top domains.
- Modularity, community density and conductance, statistics of threads, z-scores, counts
  for display.
- Live pointers that the resolver and the store hand out of their locks.

## 8. Plan

1. Done: all the modules of section 2 and the theorems of section 5.
2. Done: a theorem for every safety property of the passing runs.
3. Left out on purpose: section 7.
