--------------------------- MODULE IngestCommand ---------------------------
(***************************************************************************)
(* The command line, cmd/commgraph: "ingest" and "pipeline" read messages  *)
(* into a store, resolve every address, file interactions and threads, and *)
(* "ingest" saves the session that later commands load.  Each command is a *)
(* process of its own; nothing but the session file outlives it.           *)
(*                                                                         *)
(* Composes SCIMResolver (one caller) with the maps of storage/memory.go   *)
(* and with session/loader.go.                                             *)
(*                                                                         *)
(* A message has two IDs.  Its ID is a hash of the raw text, so a message  *)
(* met twice has the same ID and the same header: a source is a sequence   *)
(* over MailId, and a copy is named by its position in it.  Its MessageID  *)
(* is the Message-ID header, which may be missing, and which messages that *)
(* differ may share.  The store and the interactions go by the first, the  *)
(* threads by the second.                                                  *)
(*                                                                         *)
(* The adapter is module MailIngest, seen from its reader.                 *)
(***************************************************************************)
EXTENDS Integers, Sequences, FiniteSets, SequencesExt, Functions

CONSTANTS
  Main, Address, Email, Normal, InternalEmail, UserName, Roster, MaxCalls,
  MailId,    \* IDs of messages
  Header,    \* their address fields
  MessageID, \* their Message-ID headers, NoMessageID for none
  Thread,    \* thread IDs the threading library may hand out
  MaxMail,   \* bound on the length of a source
  MaxRuns,   \* bound on the commands that read a source
  MaxMore    \* bound on the calls made with a loaded resolver

ASSUME HeaderAssumption ==
  Header \in [MailId -> [from : Address, to : Seq(Address),
                         cc : Seq(Address), bcc : Seq(Address)]]
ASSUME MessageIDAssumption == DOMAIN MessageID = MailId
ASSUME BoundsAssumption == {MaxMail, MaxRuns, MaxMore} \subseteq Nat

VARIABLES
  actors, emailToActor, nextID, stats, pc, pending, answer, calls, \* resolver
  command,       \* the running command: "ingest", "pipeline" or a query
  phase,         \* how far it is
  roster,        \* actors still to be loaded into the resolver
  inbox,         \* the source, as a sequence of message IDs
  read,          \* how many of its messages arrived
  todo,          \* addresses of the current message still to be resolved
  sender,        \* the sender of the current message
  stored,        \* store.messages: which copy is on file, 0 for none
  interactions,  \* store.interactions: <<message, field, to>> -> the rest
  thread,        \* the ThreadID of each copy
  threads,       \* store.threads
  session,       \* the session file
  runs           \* commands started that read a source

resolver == <<actors, emailToActor, nextID, stats, pc, pending, answer, calls>>
store == <<stored, interactions, thread, threads>>
vars == <<resolver, store, command, phase, roster, inbox, read, todo, sender,
          session, runs>>

Caller == {Main}
R == INSTANCE SCIMResolver

ASSUME ResolverAssumption ==
  /\ IsFiniteSet(Email) /\ R!NoEmail \notin Email
  /\ Normal \in [Address -> Email]
  /\ Roster \subseteq R!RosterEntry
  /\ MaxCalls \in Nat

NoThread == "none"
NoMessageID == ""
NoSession == [state |-> "absent"]
BrokenSession == [state |-> "broken"]
Field == {"to", "cc", "bcc"}
Copy == 1..MaxMail
Query == {"analyze", "export"}

TypeOK ==
  /\ R!TypeOK
  /\ command \in {"ingest", "pipeline"} \cup Query
  /\ phase \in {"exit", "roster", "reading", "done", "loading", "loaded", "refused"}
  /\ inbox \in SeqOf(MailId, MaxMail)
  /\ read \in 0..Len(inbox)
  /\ sender \in R!ActorId \cup {R!NoId}
  /\ stored \in [MailId -> 0..MaxMail]
  /\ \A k \in DOMAIN interactions :
       /\ k \in MailId \X Field \X R!ActorId
       /\ interactions[k] \in [from : R!ActorId, thread : Thread \cup {NoThread}]
  /\ thread \in [Copy -> Thread \cup {NoThread}]
  /\ DOMAIN threads \subseteq Thread
  /\ session.state \in {"absent", "broken", "saved"}
  /\ runs \in 0..MaxRuns
-----------------------------------------------------------------------------
NewResolver ==
  /\ actors' = [i \in {} |-> [emails |-> {}, primary |-> R!NoEmail, internal |-> FALSE]]
  /\ emailToActor' = [e \in Email |-> R!NoId]
  /\ nextID' = 0
  /\ stats' = [k \in R!Counter |-> 0]
  /\ pc' = [c \in Caller |-> "idle"]
  /\ pending' = [c \in Caller |-> R!NoEmail]
  /\ answer' = [c \in Caller |-> [email |-> R!NoEmail, id |-> R!NoId]]
  /\ calls' = 0

NoInteractions == [k \in {} |-> [from |-> R!NoId, thread |-> NoThread]]
NoThreads == [t \in {} |-> [messageIDs |-> {}, participants |-> {}]]

NewStore ==
  /\ stored' = [m \in MailId |-> 0]
  /\ interactions' = NoInteractions
  /\ thread' = [k \in Copy |-> NoThread]
  /\ threads' = NoThreads

Init ==
  /\ R!Init
  /\ stored = [m \in MailId |-> 0]
  /\ interactions = NoInteractions
  /\ thread = [k \in Copy |-> NoThread]
  /\ threads = NoThreads
  /\ command = "ingest"
  /\ phase = "exit"
  /\ roster = {}
  /\ inbox = <<>>
  /\ read = 0
  /\ todo = <<>>
  /\ sender = R!NoId
  /\ session = NoSession
  /\ runs = 0

\* The addresses of a message in the order the command resolves them.  The
\* pipeline leaves BCC alone.
Tagged(field, list) == [i \in 1..Len(list) |-> <<field, list[i]>>]

Addressees(m) ==
  <<<<"from", Header[m].from>>>>
    \o Tagged("to", Header[m].to) \o Tagged("cc", Header[m].cc)
    \o (IF command = "ingest" THEN Tagged("bcc", Header[m].bcc) ELSE <<>>)
-----------------------------------------------------------------------------
(***************************************************************************)
(* A command that reads a source.  The pipeline may start from the Enron   *)
(* directory.                                                              *)
(***************************************************************************)
StartCommand(cmd, box) ==
  /\ phase \in {"exit", "refused"}
  /\ runs < MaxRuns
  /\ NewResolver
  /\ NewStore
  /\ command' = cmd
  /\ roster' \in IF cmd = "pipeline" THEN {{}, Roster} ELSE {{}}
  /\ phase' = "roster"
  /\ inbox' = box
  /\ read' = 0
  /\ todo' = <<>>
  /\ sender' = R!NoId
  /\ runs' = runs + 1
  /\ UNCHANGED session

LoadRosterEntry(r) ==
  /\ phase \in {"roster", "loading"}
  /\ r \in roster
  /\ R!LoadActor(r)
  /\ roster' = roster \ {r}
  /\ UNCHANGED <<store, command, phase, inbox, read, todo, sender, session, runs>>

RosterLoaded ==
  /\ phase \in {"roster", "loading"}
  /\ roster = {}
  /\ phase' = IF phase = "roster" THEN "reading" ELSE "loaded"
  /\ UNCHANGED <<resolver, store, command, roster, inbox, read, todo, sender,
                 session, runs>>

\* StoreMessage keeps the pointer to the copy that came last.
ReceiveMessage ==
  /\ phase = "reading"
  /\ todo = <<>>
  /\ read < Len(inbox)
  /\ read' = read + 1
  /\ stored' = [stored EXCEPT ![inbox[read + 1]] = read + 1]
  /\ todo' = Addressees(inbox[read + 1])
  /\ UNCHANGED <<resolver, interactions, thread, threads, command, phase, roster,
                 inbox, sender, session, runs>>

Ask ==
  /\ phase = "reading"
  /\ todo # <<>>
  /\ R!LookUpHit(Main, Head(todo)[2]) \/ R!LookUpMiss(Main, Head(todo)[2])
  /\ UNCHANGED <<store, command, phase, roster, inbox, read, todo, sender, session, runs>>

\* Fault: an interaction is filed under its message and field alone.
FileOnePerField(m, field, id) ==
  LET others == {k \in DOMAIN interactions : k[1] # m \/ k[2] # field}
  IN  interactions' = [k \in others \cup {<<m, field, id>>} |->
                         IF k \in others THEN interactions[k]
                         ELSE [from |-> sender, thread |-> NoThread]]

\* StoreInteraction under the ID "<message>-<field>-<actor>".
FileInteraction(m, field, id) ==
  interactions' = [k \in DOMAIN interactions \cup {<<m, field, id>>} |->
                     IF k = <<m, field, id>>
                     THEN [from |-> sender, thread |-> NoThread]
                     ELSE interactions[k]]

Settle ==
  LET id == answer'[Main].id IN
  /\ phase = "reading"
  /\ todo # <<>>
  /\ R!CountHit(Main) \/ R!JoinExisting(Main) \/ R!CreateActor(Main)
  /\ todo' = Tail(todo)
  /\ IF Head(todo)[1] = "from"
     THEN sender' = id /\ UNCHANGED interactions
     ELSE FileInteraction(inbox[read], Head(todo)[1], id) /\ UNCHANGED sender
  /\ UNCHANGED <<stored, thread, threads, command, phase, roster, inbox, read,
                 session, runs>>

\* The stream ended with an error: the command returns it, nothing is saved.
StreamFails ==
  /\ phase = "reading"
  /\ todo = <<>>
  /\ phase' = "exit"
  /\ UNCHANGED <<resolver, store, command, roster, inbox, read, todo, sender,
                 session, runs>>
-----------------------------------------------------------------------------
(***************************************************************************)
(* Threading.  The library behind threading/reconstructor.go sees messages *)
(* under their Message-ID headers, gives each a thread or leaves it        *)
(* without, copies of one message not necessarily alike, and returns the   *)
(* threads it gave, each with the IDs of its messages.  Reconstruct writes *)
(* the thread into every copy, so the stored messages change too.  Of the  *)
(* messages with an ID a thread lists, the one received first adds its     *)
(* addresses to the participants.  Only "ingest" carries the thread on to  *)
(* interactions, copy by copy, so that the last copy with a thread decides.*)
(***************************************************************************)
Received == {inbox[k] : k \in 1..read}

GetMessageID(m) == IF MessageID[m] = NoMessageID THEN m ELSE MessageID[m]

\* AllRecipients: BCC included.
AllRecipients(m) ==
  ToSet(Header[m].to) \cup ToSet(Header[m].cc) \cup ToSet(Header[m].bcc)

FirstWith(id) ==
  inbox[Min({k \in 1..read : id \in {inbox[k], MessageID[inbox[k]]}})]

ThreadOf(of, t) ==
  LET ids == {GetMessageID(inbox[k]) : k \in {c \in 1..read : of[c] = t}}
  IN  [messageIDs |-> ids,
       participants |-> {Header[FirstWith(id)].from : id \in ids}
                          \cup UNION {AllRecipients(FirstWith(id)) : id \in ids}]

WithThread(of, m) == {c \in 1..read : inbox[c] = m /\ of[c] # NoThread}

\* Fault: an interaction that has a thread keeps it.
WithThreadsOfFirst(of) ==
  [k \in DOMAIN interactions |->
     IF WithThread(of, k[1]) = {} THEN interactions[k]
     ELSE [interactions[k] EXCEPT !.thread = of[Min(WithThread(of, k[1]))]]]

WithThreads(of) ==
  [k \in DOMAIN interactions |->
     IF WithThread(of, k[1]) = {} THEN interactions[k]
     ELSE [interactions[k] EXCEPT !.thread = of[Max(WithThread(of, k[1]))]]]

\* Fault: reading stops early and the command does not look at the errors.
AnyPlace == todo = <<>>

AtEndOfStream == todo = <<>> /\ read = Len(inbox)

Reconstruct ==
  /\ phase = "reading"
  /\ AtEndOfStream
  /\ \E of \in [1..read -> Thread \cup {NoThread}] :
       /\ thread' = [k \in Copy |-> IF k <= read THEN of[k] ELSE NoThread]
       /\ threads' = [t \in {of[k] : k \in 1..read} \ {NoThread} |-> ThreadOf(of, t)]
       /\ IF command = "ingest" THEN interactions' = WithThreads(of)
                                ELSE UNCHANGED interactions
  /\ phase' = "done"
  /\ UNCHANGED <<resolver, stored, command, roster, inbox, read, todo, sender,
                 session, runs>>

\* SaveFromStore: the store's maps and the resolver's actors.  The index of
\* the resolver and the thread of a copy that is not on file are not saved:
\* they are remembered for ReloadRestores and SavedThreadsAgree only.
Snapshot ==
  [state |-> "saved", source |-> inbox, stored |-> stored,
   interactions |-> interactions, thread |-> thread, threads |-> threads,
   actors |-> actors, index |-> emailToActor]

\* os.Create may fail, which leaves the file alone, or writing may.
Save ==
  /\ phase = "done"
  /\ command = "ingest"
  /\ session' \in {Snapshot, BrokenSession, session}
  /\ phase' = "exit"
  /\ UNCHANGED <<resolver, store, command, roster, inbox, read, todo, sender, runs>>

PipelineEnds ==
  /\ phase = "done"
  /\ command = "pipeline"
  /\ phase' = "exit"
  /\ UNCHANGED <<resolver, store, command, roster, inbox, read, todo, sender,
                 session, runs>>
-----------------------------------------------------------------------------
(***************************************************************************)
(* Later commands.  "analyze" and "identity" load the session; "export",   *)
(* "community", "paths", "bridges", "temporal" and "external" look at the  *)
(* globals of their own process only.                                      *)
(***************************************************************************)
\* Fault: saved actors come back without their flag.
EntriesBare(saved) ==
  {[id |-> i, emails |-> saved[i].emails, primary |-> saved[i].primary,
    internal |-> FALSE] : i \in DOMAIN saved}

Entries(saved) ==
  {[id |-> i, emails |-> saved[i].emails, primary |-> saved[i].primary,
    internal |-> saved[i].internal] : i \in DOMAIN saved}

LoadSession ==
  /\ phase \in {"exit", "refused"}
  /\ session.state = "saved"
  /\ command' = "analyze"
  /\ phase' = "loading"
  /\ NewResolver
  /\ roster' = Entries(session.actors)
  /\ stored' = session.stored
  /\ interactions' = session.interactions
  /\ thread' = [k \in Copy |-> IF k \in Range(session.stored) THEN session.thread[k]
                                                            ELSE NoThread]
  /\ threads' = session.threads
  /\ inbox' = session.source
  /\ read' = Len(session.source)
  /\ todo' = <<>>
  /\ sender' = R!NoId
  /\ UNCHANGED <<session, runs>>

QueryWithoutLoading ==
  /\ phase \in {"exit", "refused"}
  /\ command' = "export"
  /\ phase' = "refused"
  /\ UNCHANGED <<resolver, store, roster, inbox, read, todo, sender, session, runs>>

\* A caller of LoadIntoStore goes on resolving with the loaded resolver.
ResolveMore(addr) ==
  /\ phase = "loaded"
  /\ \/ /\ calls < MaxMore
        /\ \/ R!Resolve(Main, addr)
           \/ R!LookUpHit(Main, addr)
           \/ R!LookUpMiss(Main, addr)
     \/ R!CountHit(Main) \/ R!JoinExisting(Main) \/ R!CreateActor(Main)
  /\ UNCHANGED <<store, command, phase, roster, inbox, read, todo, sender, session, runs>>

QueryEnds ==
  /\ phase = "loaded"
  /\ pc[Main] = "idle"
  /\ phase' = "exit"
  /\ UNCHANGED <<resolver, store, command, roster, inbox, read, todo, sender,
                 session, runs>>
-----------------------------------------------------------------------------
Next ==
  \/ \E cmd \in {"ingest", "pipeline"}, box \in SeqOf(MailId, MaxMail) :
       StartCommand(cmd, box)
  \/ \E r \in roster : LoadRosterEntry(r)
  \/ RosterLoaded
  \/ ReceiveMessage \/ Ask \/ Settle \/ StreamFails
  \/ Reconstruct \/ Save \/ PipelineEnds
  \/ LoadSession \/ QueryWithoutLoading \/ QueryEnds
  \/ \E addr \in Address : ResolveMore(addr)

Spec == Init /\ [][Next]_vars
-----------------------------------------------------------------------------
Owner(addr) == emailToActor[Normal[addr]]

\* The interactions message m stands for, by the fields this command reads.
Edges(m, fields) ==
  UNION {{<<m, f, Owner(a)>> : a \in ToSet(Header[m][f])} : f \in fields}

(***************************************************************************)
(* Between messages, and again after the session came back in another      *)
(* process, the store's interactions are exactly what the stored messages  *)
(* say under the resolver's map: every addressee, none other, from the     *)
(* actor the sender resolves to.  (Each interaction was filed under the    *)
(* map of its day; this says the map never moved since.)                   *)
(***************************************************************************)
EdgesMatchMail ==
  phase \in {"reading", "done", "loaded"} /\ todo = <<>> =>
    LET fields == IF command = "pipeline" THEN {"to", "cc"} ELSE Field
        known == {m \in MailId : stored[m] # 0}
    IN  /\ DOMAIN interactions = UNION {Edges(m, fields) : m \in known}
        /\ \A k \in DOMAIN interactions :
             interactions[k].from = Owner(Header[k[1]].from)

(***************************************************************************)
(* Loading the saved actors one by one, in any order, rebuilds the index   *)
(* the saving process had, though the index is not in the file; and the    *)
(* same addresses are internal as before.  (Before the loaded resolver     *)
(* creates anybody: see GeneratedIdUnique for what happens then.)          *)
(***************************************************************************)
ReloadRestores ==
  phase = "loaded" /\ calls = 0 => \A e \in Email : session.index[e] # R!NoId =>
    /\ emailToActor[e] = session.index[e]
    /\ R!IsInternal(e) = R!isInternalEmail(e)

(***************************************************************************)
(* Two walks over the copies of a message, one that stores messages and    *)
(* one that hands out threads, agree in what "ingest" leaves in the        *)
(* session: an interaction names a thread exactly if some copy of its      *)
(* message was given one, and it is the stored copy's thread if that has   *)
(* one.  The thread named is on file and lists the message, under the ID   *)
(* threads go by.                                                          *)
(***************************************************************************)
SavedThreadsAgree ==
  session.state = "saved" =>
    \A k \in DOMAIN session.interactions :
      LET t == session.interactions[k].thread
          given == {session.thread[c] :
                      c \in {d \in DOMAIN session.source : session.source[d] = k[1]}}
      IN  /\ t = NoThread <=> given \subseteq {NoThread}
          /\ session.thread[session.stored[k[1]]] \in {t, NoThread}
          /\ t # NoThread => /\ t \in given \cap DOMAIN session.threads
                             /\ GetMessageID(k[1]) \in session.threads[t].messageIDs

(***************************************************************************)
(* "MessageIDs contains all message IDs in the thread"                     *)
(* (entity/thread.go:16), where "ID is the unique identifier for this      *)
(* message" (entity/message.go:7): what a saved thread lists can be looked *)
(* up among the session's messages.  Linking messages to threads takes it  *)
(* for granted (export/neo4j.go:181-183).                                  *)
(***************************************************************************)
ThreadsListMessages ==
  session.state = "saved" =>
    \A t \in DOMAIN session.threads :
      session.threads[t].messageIDs \subseteq {m \in MailId : session.stored[m] # 0}

(***************************************************************************)
(* No command saves part of a source: a session on file holds every        *)
(* message of the source it names.                                         *)
(***************************************************************************)
NoPartialSession ==
  /\ TypeOK
  /\ session.state = "saved" =>
       {m \in MailId : session.stored[m] # 0} = ToSet(session.source)

(***************************************************************************)
(* "generateID generates a unique actor ID." (identity/scim.go:251), of    *)
(* every resolver, the one LoadIntoStore returns included.                 *)
(***************************************************************************)
GeneratedIdUnique ==
  [][nextID' > nextID => <<"auto", nextID'>> \notin DOMAIN actors]_vars
=============================================================================
