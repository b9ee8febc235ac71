------------------------ MODULE IngestCommand_proofs ------------------------
(***************************************************************************)
(* Machine-checked facts about IngestCommand: what a store and a session   *)
(* hold, for every mail, directory and order of commands.                  *)
(***************************************************************************)
EXTENDS IngestCommand, DataLemmas, FiniteSetTheorems, SequenceTheorems

Fields == IF command = "pipeline" THEN {"to", "cc"} ELSE Field

(***************************************************************************)
(* What the store says of the first n messages of a source: the last copy  *)
(* of each is on file, and the interactions their headers stand for under an     *)
(* index, except those that are still to be filed.                         *)
(***************************************************************************)
Arrived(box, n) == {box[k] : k \in 1..n}

CopiesOnFile(copies, box, n) ==
  \A m \in MailId : IF m \in Arrived(box, n)
                    THEN /\ copies[m] \in 1..n /\ box[copies[m]] = m
                         /\ \A c \in 1..n : box[c] = m => c <= copies[m]
                    ELSE copies[m] = 0

OnlyMail(filed, met, index, fields) ==
  \A k \in DOMAIN filed :
    /\ k[1] \in met /\ k[2] \in fields
    /\ \E a \in ToSet(Header[k[1]][k[2]]) : k[3] = index[Normal[a]]
    /\ filed[k].from = index[Normal[Header[k[1]].from]]

AllMail(filed, met, index, fields, waiting) ==
  \A m \in met : \A f \in fields : \A a \in ToSet(Header[m][f]) :
    <<m, f, index[Normal[a]]>> \in DOMAIN filed \/ <<m, f, a>> \in waiting

Given(box, threadOf, m) == {threadOf[c] : c \in {d \in DOMAIN box : box[d] = m}}

ThreadsAgree(filed, copies, box, threadOf, kept) ==
  \A k \in DOMAIN filed :
    LET t == filed[k].thread IN
    /\ t = NoThread <=> Given(box, threadOf, k[1]) \subseteq {NoThread}
    /\ threadOf[copies[k[1]]] \in {t, NoThread}
    /\ t # NoThread => /\ t \in Given(box, threadOf, k[1]) \cap DOMAIN kept
                       /\ GetMessageID(k[1]) \in kept[t].messageIDs

\* A resolver that only "ingest" has used: one actor for every mailbox met.
Single(e) == [emails |-> {e}, primary |-> e, internal |-> R!isInternalEmail(e)]

OneForEach(people, index) ==
  /\ \A i \in DOMAIN people : \E e \in Email : people[i] = Single(e) /\ index[e] = i
  /\ \A e \in Email : index[e] # R!NoId =>
       index[e] \in DOMAIN people /\ people[index[e]] = Single(e)

Entry == [id : R!ActorId, emails : SUBSET Email,
          primary : Email \cup {R!NoEmail}, internal : BOOLEAN]

(***************************************************************************)
(* The parts of the invariant.                                             *)
(***************************************************************************)
Typed ==
  /\ TypeOK
  /\ pc[Main] = "create" => pending[Main] \in Email
  /\ roster \subseteq Entry

\* A command that reads a source, before its first message and later.
Waiting == {<<inbox[read], p[1], p[2]>> : p \in ToSet(todo)}

Storing ==
  /\ phase \in {"roster", "reading", "done"} =>
       /\ command \in {"ingest", "pipeline"}
       /\ CopiesOnFile(stored, inbox, read)
       /\ OnlyMail(interactions, Received, emailToActor, Fields)
       /\ AllMail(interactions, Received, emailToActor, Fields, Waiting)
  /\ phase \in {"roster", "done", "loading", "loaded"} => todo = <<>>
  /\ phase \in {"roster", "done", "loading"} => pc[Main] = "idle"
  /\ phase = "roster" => read = 0

\* The message being resolved: its sender comes first.
Resolving ==
  phase = "reading" =>
    /\ todo \in Seq({"from", "to", "cc", "bcc"} \X Address)
    /\ \A i \in 2..Len(todo) : todo[i][1] # "from"
    /\ todo # <<>> =>
         LET header == Header[inbox[read]] IN
         /\ read > 0
         /\ IF Head(todo)[1] = "from" THEN Head(todo)[2] = header.from
            ELSE sender = Owner(header.from) /\ sender # R!NoId
         /\ \A p \in ToSet(todo) : p[1] # "from" =>
              p[1] \in Fields /\ p[2] \in ToSet(header[p[1]])
    /\ pc[Main] # "idle" => todo # <<>>
    /\ pc[Main] = "hit" =>
         Owner(Head(todo)[2]) # R!NoId /\ answer[Main].id = Owner(Head(todo)[2])
    /\ pc[Main] = "create" => pending[Main] = Normal[Head(todo)[2]]

\* The resolver of "ingest" invents all its actors.
Inventing ==
  command = "ingest" /\ phase \in {"roster", "reading", "done"} =>
    /\ roster = {}
    /\ OneForEach(actors, emailToActor)
    /\ \A i \in DOMAIN actors : \E n \in 1..nextID : i = <<"auto", n>>

Threaded ==
  /\ phase \in {"roster", "reading"} =>
       \A k \in DOMAIN interactions : interactions[k].thread = NoThread
  /\ phase = "done" =>
       /\ read = Len(inbox)
       /\ command = "ingest" => ThreadsAgree(interactions, stored, inbox, thread, threads)

SessionGood ==
  session.state = "saved" =>
    /\ session.source \in SeqOf(MailId, MaxMail)
    /\ session.stored \in [MailId -> 0..MaxMail]
    /\ \A k \in DOMAIN session.interactions :
         /\ k \in MailId \X Field \X R!ActorId
         /\ session.interactions[k] \in [from : R!ActorId, thread : Thread \cup {NoThread}]
    /\ session.thread \in [Copy -> Thread \cup {NoThread}]
    /\ DOMAIN session.threads \subseteq Thread
    /\ DOMAIN session.actors \subseteq R!ActorId
    /\ session.index \in [Email -> R!ActorId \cup {R!NoId}]
    /\ OneForEach(session.actors, session.index)
    /\ LET met == Arrived(session.source, Len(session.source)) IN
       /\ CopiesOnFile(session.stored, session.source, Len(session.source))
       /\ OnlyMail(session.interactions, met, session.index, Field)
       /\ AllMail(session.interactions, met, session.index, Field, {})
    /\ ThreadsAgree(session.interactions, session.stored, session.source, session.thread,
                    session.threads)

\* A command that loaded the session.
Loading ==
  /\ phase \in {"loading", "loaded"} =>
       /\ session.state = "saved" /\ command = "analyze"
       /\ inbox = session.source /\ read = Len(inbox)
       /\ stored = session.stored /\ interactions = session.interactions
       /\ threads = session.threads
  /\ phase = "loading" =>
       /\ calls = 0
       /\ roster \subseteq Entries(session.actors)
       /\ \A r \in roster : r.id \notin DOMAIN actors
       /\ \A i \in DOMAIN session.actors : i \in DOMAIN actors \/ \E r \in roster : r.id = i
       /\ \A i \in DOMAIN actors : i \in DOMAIN session.actors /\ actors[i] = session.actors[i]
       /\ \A e \in Email : emailToActor[e] = IF session.index[e] \in DOMAIN actors
                                             THEN session.index[e] ELSE R!NoId
  /\ phase = "loaded" =>
       /\ \A e \in Email : session.index[e] # R!NoId => emailToActor[e] = session.index[e]
       /\ calls = 0 =>
            /\ pc[Main] = "idle"
            /\ \A i \in DOMAIN session.actors :
                 i \in DOMAIN actors /\ actors[i] = session.actors[i]

Inv == Typed /\ Storing /\ Resolving /\ Inventing /\ Threaded /\ SessionGood /\ Loading
-----------------------------------------------------------------------------
(***************************************************************************)
(* Data.                                                                   *)
(***************************************************************************)
LEMMA NoIdIsNobody == R!NoId \notin R!ActorId
  BY DEF R!NoId, R!ActorId, R!AutoId, R!DirectoryId

LEMMA InboxTyped ==
  ASSUME Typed
  PROVE  /\ inbox \in Seq(MailId) /\ Len(inbox) \in Nat /\ Len(inbox) <= MaxMail
         /\ read \in Nat /\ read <= Len(inbox)
         /\ \A k \in 1..Len(inbox) : inbox[k] \in MailId
<1>1. MaxMail \in Nat
  BY BoundsAssumption
<1>2. inbox \in Seq(MailId) /\ Len(inbox) <= MaxMail
  BY <1>1, SeqOfIsSeq DEF Typed, TypeOK
<1>. QED  BY <1>2 DEF Typed, TypeOK

LEMMA HeaderTyped ==
  ASSUME NEW m \in MailId
  PROVE  /\ Header[m].from \in Address
         /\ \A f \in Field : Header[m][f] \in Seq(Address) /\ ToSet(Header[m][f]) \subseteq Address
<1>1. Header[m] \in [from : Address, to : Seq(Address), cc : Seq(Address), bcc : Seq(Address)]
  BY HeaderAssumption
<1>2. Header[m].from \in Address /\ \A f \in Field : Header[m][f] \in Seq(Address)
  BY <1>1 DEF Field
<1>. QED  BY <1>2, ElementIndex

LEMMA FieldsAreFields == Fields \subseteq Field
  BY DEF Fields, Field

\* An index in which nobody who has an owner gets another.
Grows(old, new) == \A e \in Email : old[e] # R!NoId => new[e] = old[e]

FiledTyped(filed) ==
  \A k \in DOMAIN filed :
    /\ k \in MailId \X Field \X R!ActorId
    /\ filed[k].from \in R!ActorId

LEMMA OnlyMailGrows ==
  ASSUME NEW filed, NEW met \in SUBSET MailId, NEW fields \in SUBSET Field, NEW old, NEW new,
         FiledTyped(filed), Grows(old, new), OnlyMail(filed, met, old, fields)
  PROVE  OnlyMail(filed, met, new, fields)
<1>. SUFFICES ASSUME NEW k \in DOMAIN filed
              PROVE  /\ \E a \in ToSet(Header[k[1]][k[2]]) : k[3] = new[Normal[a]]
                     /\ filed[k].from = new[Normal[Header[k[1]].from]]
  BY DEF OnlyMail
<1>1. k[1] \in MailId /\ k[2] \in Field /\ k[3] # R!NoId /\ filed[k].from # R!NoId
  BY NoIdIsNobody DEF FiledTyped
<1>2. PICK a \in ToSet(Header[k[1]][k[2]]) : k[3] = old[Normal[a]]
  BY DEF OnlyMail
<1>3. Normal[a] \in Email /\ Normal[Header[k[1]].from] \in Email
  BY <1>1, HeaderTyped, ResolverAssumption
<1>4. filed[k].from = old[Normal[Header[k[1]].from]]
  BY DEF OnlyMail
<1>. QED  BY <1>1, <1>2, <1>3, <1>4 DEF Grows

LEMMA AllMailGrows ==
  ASSUME NEW filed, NEW met \in SUBSET MailId, NEW fields \in SUBSET Field, NEW old, NEW new,
         NEW waiting,
         FiledTyped(filed), Grows(old, new), AllMail(filed, met, old, fields, waiting)
  PROVE  AllMail(filed, met, new, fields, waiting)
<1>. SUFFICES ASSUME NEW m \in met, NEW f \in fields, NEW a \in ToSet(Header[m][f])
              PROVE  <<m, f, new[Normal[a]]>> \in DOMAIN filed \/ <<m, f, a>> \in waiting
  BY DEF AllMail
<1>1. CASE <<m, f, a>> \in waiting
  BY <1>1
<1>2. CASE <<m, f, old[Normal[a]]>> \in DOMAIN filed
  <2>1. Normal[a] \in Email
    BY HeaderTyped, ResolverAssumption
  <2>2. old[Normal[a]] # R!NoId
    BY <1>2, NoIdIsNobody DEF FiledTyped
  <2>. QED  BY <1>2, <2>1, <2>2 DEF Grows
<1>. QED  BY <1>1, <1>2 DEF AllMail
-----------------------------------------------------------------------------
(***************************************************************************)
(* The resolver.                                                           *)
(***************************************************************************)
LEMMA NewResolverEffect ==
  ASSUME NewResolver
  PROVE  /\ R!TypeOK' /\ pc'[Main] = "idle" /\ calls' = 0
         /\ DOMAIN actors' = {} /\ \A e \in Email : emailToActor'[e] = R!NoId
<1>1. /\ actors' = [i \in {} |-> [emails |-> {}, primary |-> R!NoEmail, internal |-> FALSE]]
      /\ emailToActor' = [e \in Email |-> R!NoId]
      /\ nextID' = 0
      /\ stats' = [k \in R!Counter |-> 0]
      /\ pc' = [c \in Caller |-> "idle"]
      /\ pending' = [c \in Caller |-> R!NoEmail]
      /\ answer' = [c \in Caller |-> [email |-> R!NoEmail, id |-> R!NoId]]
      /\ calls' = 0
  BY DEF NewResolver
<1>2. MaxCalls \in Nat
  BY ResolverAssumption
<1>. QED  BY <1>1, <1>2 DEF R!TypeOK, Caller

LEMMA SameCardinality == \A S : R!Cardinality(S) = Cardinality(S)
  BY DEF R!Cardinality, Cardinality

LEMMA LoadActorEffect ==
  ASSUME R!TypeOK, NEW r \in Entry, R!LoadActor(r)
  PROVE  /\ R!TypeOK'
         /\ UNCHANGED <<nextID, pc, pending, answer, calls>>
         /\ DOMAIN actors' = DOMAIN actors \cup {r.id}
         /\ \A i \in DOMAIN actors : i # r.id => actors'[i] = actors[i]
         /\ r.id \notin DOMAIN actors =>
              /\ actors'[r.id] = [emails |-> r.emails, primary |-> r.primary,
                                  internal |-> r.internal]
              /\ \A e \in Email : emailToActor'[e] =
                   IF e \in R!Mailboxes(r) THEN r.id ELSE emailToActor[e]
<1>. USE DEF Entry
<1>1. UNCHANGED <<nextID, pc, pending, answer, calls>>
  BY DEF R!LoadActor
<1>0. \A S \in SUBSET Email : Cardinality(S) \in Nat
  BY ResolverAssumption, FS_Subset, FS_CardinalityType
<1>2. CASE R!LoadNewActor(r)
  <2>. DEFINE a == [emails |-> r.emails, primary |-> r.primary, internal |-> r.internal]
  <2>1. a \in R!Actor /\ r.id \in R!ActorId /\ r.internal \in BOOLEAN
        /\ Cardinality(r.emails) \in Nat
    BY <1>0 DEF R!Actor
  <2>2. actors' = R!WithActor(r.id, a) /\ r.id \notin DOMAIN actors
    BY <1>2 DEF R!LoadNewActor
  <2>3. /\ DOMAIN actors' = DOMAIN actors \cup {r.id}
        /\ actors'[r.id] = a
        /\ \A i \in DOMAIN actors : i # r.id => actors'[i] = actors[i]
    <3>. HIDE DEF a
    <3>. QED  BY <2>2 DEF R!WithActor
  <2>4. DOMAIN actors' \subseteq R!ActorId /\ \A i \in DOMAIN actors' : actors'[i] \in R!Actor
    BY <2>1, <2>3 DEF R!TypeOK
  <2>5. emailToActor' \in [Email -> R!ActorId \cup {R!NoId}]
    BY <1>2, <2>1 DEF R!LoadNewActor, R!TypeOK
  <2>6. stats' \in [R!Counter -> Nat]
    <3>. DEFINE n == Cardinality(r.emails)
    <3>1. stats' = [stats EXCEPT !["total"] = @ + 1, !["aliases"] = @ + n,
                                 ![R!Side(r.internal)] = @ + 1]
      BY <1>2, SameCardinality DEF R!LoadNewActor
    <3>2. n \in Nat /\ stats \in [R!Counter -> Nat]
      BY <2>1 DEF R!TypeOK
    <3>. HIDE DEF n
    <3>. QED  BY <2>1, <3>1, <3>2 DEF R!Counter, R!Side
  <2>7. R!TypeOK'
    BY <1>1, <2>4, <2>5, <2>6 DEF R!TypeOK
  <2>8. \A e \in Email : emailToActor'[e] =
          IF e \in R!Mailboxes(r) THEN r.id ELSE emailToActor[e]
    BY <1>2 DEF R!LoadNewActor
  <2>. QED  BY <1>1, <2>2, <2>3, <2>7, <2>8
<1>3. CASE R!MergeActor(r)
  <2>. DEFINE S == r.emails \ actors[r.id].emails
              a == [actors[r.id] EXCEPT !.emails = @ \cup S]
  <2>1. r.id \in DOMAIN actors /\ actors[r.id] \in R!Actor /\ r.id \in R!ActorId
        /\ S \in SUBSET Email /\ Cardinality(S) \in Nat
    BY <1>0, <1>3 DEF R!MergeActor, R!TypeOK
  <2>2. a \in R!Actor
    <3>. HIDE DEF S
    <3>. QED  BY <2>1 DEF R!Actor
  <2>3. actors' = R!WithActor(r.id, a)
    BY <1>3 DEF R!MergeActor
  <2>4. /\ DOMAIN actors' = DOMAIN actors \cup {r.id}
        /\ actors'[r.id] = a
        /\ \A i \in DOMAIN actors : i # r.id => actors'[i] = actors[i]
    <3>. HIDE DEF a, S
    <3>. QED  BY <2>3 DEF R!WithActor
  <2>5. DOMAIN actors' \subseteq R!ActorId /\ \A i \in DOMAIN actors' : actors'[i] \in R!Actor
    <3>. HIDE DEF a, S
    <3>. QED  BY <2>1, <2>2, <2>4 DEF R!TypeOK
  <2>6. emailToActor' \in [Email -> R!ActorId \cup {R!NoId}]
    BY <1>3, <2>1 DEF R!MergeActor, R!TypeOK
  <2>7. stats' \in [R!Counter -> Nat]
    <3>. DEFINE n == Cardinality(S)
    <3>1. stats' = [stats EXCEPT !["aliases"] = @ + n]
      BY <1>3, SameCardinality DEF R!MergeActor
    <3>2. n \in Nat /\ stats \in [R!Counter -> Nat]
      BY <2>1 DEF R!TypeOK
    <3>. HIDE DEF n
    <3>. QED  BY <3>1, <3>2 DEF R!Counter
  <2>8. R!TypeOK'
    BY <1>1, <2>5, <2>6, <2>7 DEF R!TypeOK
  <2>. QED  BY <1>1, <2>1, <2>4, <2>8
<1>. QED  BY <1>2, <1>3 DEF R!LoadActor

\* What a lookup or the end of a call does.
LEMMA CallEffect ==
  ASSUME R!TypeOK, pc[Main] = "create" => pending[Main] \in Email,
         \/ \E addr \in Address :
              R!Resolve(Main, addr) \/ R!LookUpHit(Main, addr) \/ R!LookUpMiss(Main, addr)
         \/ R!CountHit(Main) \/ R!JoinExisting(Main)
  PROVE  /\ R!TypeOK'
         /\ pc'[Main] = "create" => pending'[Main] \in Email
         /\ UNCHANGED <<actors, emailToActor, nextID>>
<1>. USE DEF Caller
<1>1. ASSUME NEW addr \in Address,
             R!Resolve(Main, addr) \/ R!LookUpHit(Main, addr) \/ R!LookUpMiss(Main, addr)
      PROVE  /\ R!TypeOK' /\ (pc'[Main] = "create" => pending'[Main] \in Email)
             /\ UNCHANGED <<actors, emailToActor, nextID>>
  <2>1. Normal[addr] \in Email
    BY ResolverAssumption
  <2>2. calls' \in 0..MaxCalls
    BY <1>1, ResolverAssumption
       DEF R!Resolve, R!LookUpHit, R!LookUpMiss, R!StartCall, R!TypeOK
  <2>3. CASE R!Resolve(Main, addr)
    BY <2>1, <2>2, <2>3 DEF R!Resolve, R!Tell, R!normalizeEmail, R!TypeOK, R!Counter
  <2>4. CASE R!LookUpHit(Main, addr)
    BY <2>1, <2>2, <2>4 DEF R!LookUpHit, R!Tell, R!normalizeEmail, R!TypeOK
  <2>5. CASE R!LookUpMiss(Main, addr)
    BY <2>1, <2>2, <2>5 DEF R!LookUpMiss, R!normalizeEmail, R!TypeOK
  <2>. QED  BY <1>1, <2>3, <2>4, <2>5
<1>2. CASE R!CountHit(Main)
  BY <1>2 DEF R!CountHit, R!TypeOK, R!Counter
<1>3. CASE R!JoinExisting(Main)
  BY <1>3 DEF R!JoinExisting, R!Recheck, R!Finish, R!Tell, R!TypeOK, R!Counter
<1>. QED  BY <1>1, <1>2, <1>3

LEMMA CreateEffect ==
  ASSUME R!TypeOK, pc[Main] = "create" => pending[Main] \in Email, R!CreateActor(Main)
  PROVE  /\ R!TypeOK' /\ pc'[Main] = "idle"
         /\ pending[Main] \in Email /\ emailToActor[pending[Main]] = R!NoId
         /\ emailToActor' = [emailToActor EXCEPT ![pending[Main]] = <<"auto", nextID + 1>>]
         /\ answer'[Main].id = <<"auto", nextID + 1>>
         /\ <<"auto", nextID + 1>> \in R!ActorId
         /\ nextID' = nextID + 1 /\ nextID \in Nat
         /\ DOMAIN actors' = DOMAIN actors \cup {<<"auto", nextID + 1>>}
         /\ actors'[<<"auto", nextID + 1>>] = Single(pending[Main])
         /\ \A i \in DOMAIN actors : i # <<"auto", nextID + 1>> => actors'[i] = actors[i]
<1>. DEFINE e == pending[Main]
            id == <<"auto", nextID + 1>>
<1>1. /\ pc[Main] = "create" /\ emailToActor[e] = R!NoId /\ nextID' = nextID + 1
      /\ actors' = R!WithActor(id, Single(e))
      /\ emailToActor' = [emailToActor EXCEPT ![e] = id]
      /\ answer' = [answer EXCEPT ![Main] = [email |-> e, id |-> id]]
      /\ pc' = [pc EXCEPT ![Main] = "idle"]
      /\ pending' = [pending EXCEPT ![Main] = R!NoEmail]
      /\ calls' = calls
  BY DEF R!CreateActor, R!generateID, R!Recheck, R!Tell, R!Finish, Single
<1>2. e \in Email /\ nextID \in Nat /\ id \in R!ActorId
  BY <1>1 DEF R!TypeOK, R!ActorId, R!AutoId
<1>3. Single(e) \in R!Actor /\ R!isInternalEmail(e) \in BOOLEAN
  BY <1>2 DEF Single, R!Actor, R!isInternalEmail
<1>4. stats' \in [R!Counter -> Nat]
  BY DEF R!CreateActor, R!TypeOK, R!Counter, R!Side
<1>. HIDE DEF id
<1>5. /\ DOMAIN actors' = DOMAIN actors \cup {id}
      /\ actors'[id] = Single(e)
      /\ \A i \in DOMAIN actors : i # id => actors'[i] = actors[i]
  BY <1>1 DEF R!WithActor
<1>6. DOMAIN actors' \subseteq R!ActorId /\ \A i \in DOMAIN actors' : actors'[i] \in R!Actor
  BY <1>2, <1>3, <1>5 DEF R!TypeOK
<1>7. /\ emailToActor' \in [Email -> R!ActorId \cup {R!NoId}]
      /\ pc' \in [Caller -> {"idle", "hit", "create"}]
      /\ pending' \in [Caller -> Email \cup {R!NoEmail}]
      /\ answer' \in [Caller -> [email : Email \cup {R!NoEmail}, id : R!ActorId \cup {R!NoId}]]
      /\ calls' \in 0..MaxCalls /\ nextID' \in Nat
  BY <1>1, <1>2 DEF R!TypeOK, Caller
<1>8. R!TypeOK'
  BY <1>4, <1>6, <1>7 DEF R!TypeOK
<1>9. pc'[Main] = "idle" /\ answer'[Main].id = id
  BY <1>1 DEF R!TypeOK, Caller
<1>. QED  BY <1>1, <1>2, <1>5, <1>8, <1>9 DEF id
-----------------------------------------------------------------------------
(***************************************************************************)
(* Steps of a command.                                                     *)
(***************************************************************************)
LEMMA OutOfPhase ==
  ASSUME phase' \in {"exit", "refused"}
  PROVE  Storing' /\ Resolving' /\ Inventing' /\ Threaded' /\ Loading'
  BY DEF Storing, Resolving, Inventing, Threaded, Loading

LEMMA SessionSame == SessionGood /\ UNCHANGED session => SessionGood'
  BY DEF SessionGood

LEMMA InvInit == Init => Inv
<1>. SUFFICES ASSUME Init PROVE Inv
  OBVIOUS
<1>1. R!TypeOK /\ pc[Main] = "idle"
  <2>1. MaxCalls \in Nat
    BY ResolverAssumption
  <2>. QED  BY <2>1 DEF Init, R!Init, R!TypeOK, Caller
<1>2. inbox \in SeqOf(MailId, MaxMail) /\ Len(inbox) = 0
  <2>1. MaxMail \in Nat
    BY BoundsAssumption
  <2>. QED  BY <2>1, EmptyIsSeqOf DEF Init
<1>3. TypeOK
  <2>1. MaxMail \in Nat /\ MaxRuns \in Nat
    BY BoundsAssumption
  <2>2. DOMAIN interactions = {} /\ DOMAIN threads = {}
    BY DEF Init, NoInteractions, NoThreads
  <2>3. thread \in [Copy -> Thread \cup {NoThread}] /\ stored \in [MailId -> 0..MaxMail]
    BY <2>1 DEF Init
  <2>. QED  BY <1>1, <1>2, <2>1, <2>2, <2>3 DEF Init, TypeOK, NoSession
<1>. QED  BY <1>1, <1>3 DEF Init, Inv, Typed, Storing, Resolving, Inventing, Threaded,
                           SessionGood, Loading, NoSession

LEMMA StartCommandInv ==
  ASSUME Inv, NEW cmd \in {"ingest", "pipeline"}, NEW box \in SeqOf(MailId, MaxMail),
         StartCommand(cmd, box)
  PROVE  Inv'
<1>1. /\ phase' = "roster" /\ command' = cmd /\ inbox' = box /\ read' = 0 /\ todo' = <<>>
      /\ sender' = R!NoId /\ runs' = runs + 1 /\ runs < MaxRuns /\ session' = session
      /\ roster' \in IF cmd = "pipeline" THEN {{}, Roster} ELSE {{}}
      /\ NewResolver /\ NewStore
  BY DEF StartCommand
<1>2. /\ R!TypeOK' /\ pc'[Main] = "idle"
      /\ DOMAIN actors' = {} /\ \A e \in Email : emailToActor'[e] = R!NoId
  BY <1>1, NewResolverEffect
<1>3. /\ stored' = [m \in MailId |-> 0] /\ DOMAIN interactions' = {} /\ DOMAIN threads' = {}
      /\ thread' = [k \in Copy |-> NoThread]
  BY <1>1 DEF NewStore, NoInteractions, NoThreads
<1>4. Typed'
  <2>1. MaxMail \in Nat /\ MaxRuns \in Nat
    BY BoundsAssumption
  <2>2. 0 \in 0..Len(box)
    BY <2>1, SeqOfIsSeq
  <2>3. runs' \in 0..MaxRuns
    BY <1>1, <2>1 DEF Inv, Typed, TypeOK
  <2>4. roster' \subseteq Entry
    BY <1>1, ResolverAssumption DEF Entry, R!RosterEntry, R!ActorId
  <2>5. thread' \in [Copy -> Thread \cup {NoThread}] /\ stored' \in [MailId -> 0..MaxMail]
    BY <1>3, <2>1
  <2>6. TypeOK'
    BY <1>1, <1>2, <1>3, <2>2, <2>3, <2>5 DEF Inv, Typed, TypeOK
  <2>. QED  BY <1>2, <2>4, <2>6 DEF Typed
<1>5. Arrived(inbox', read') = {} /\ Received' = {}
  BY <1>1 DEF Arrived, Received
<1>6. Storing'
  BY <1>1, <1>2, <1>3, <1>5 DEF Storing, CopiesOnFile, OnlyMail, AllMail
<1>7. Inventing'
  BY <1>1, <1>2 DEF Inventing, OneForEach
<1>8. Resolving' /\ Threaded' /\ Loading' /\ SessionGood'
  BY <1>1, <1>3, SessionSame DEF Inv, Resolving, Threaded, Loading
<1>. QED  BY <1>4, <1>6, <1>7, <1>8 DEF Inv

LEMMA LoadRosterEntryInv ==
  ASSUME Inv, NEW r \in roster, LoadRosterEntry(r)
  PROVE  Inv'
<1>1. /\ phase \in {"roster", "loading"} /\ R!LoadActor(r) /\ roster' = roster \ {r}
      /\ UNCHANGED <<stored, interactions, thread, threads, command, phase, inbox, read,
                     todo, sender, session, runs>>
  BY DEF LoadRosterEntry, store
<1>2. r \in Entry /\ R!TypeOK
  BY DEF Inv, Typed, TypeOK
<1>3. /\ R!TypeOK'
      /\ UNCHANGED <<nextID, pc, pending, answer, calls>>
      /\ DOMAIN actors' = DOMAIN actors \cup {r.id}
      /\ \A i \in DOMAIN actors : i # r.id => actors'[i] = actors[i]
      /\ r.id \notin DOMAIN actors =>
           /\ actors'[r.id] = [emails |-> r.emails, primary |-> r.primary,
                               internal |-> r.internal]
           /\ \A e \in Email : emailToActor'[e] =
                IF e \in R!Mailboxes(r) THEN r.id ELSE emailToActor[e]
  BY <1>1, <1>2, LoadActorEffect
<1>4. Typed'
  BY <1>1, <1>3 DEF Inv, Typed, TypeOK
<1>5. SessionGood' /\ Resolving' /\ Threaded'
  BY <1>1, SessionSame DEF Inv, Resolving, Threaded
<1>6. CASE phase = "roster"
  <2>1. read = 0 /\ Received = {} /\ DOMAIN interactions = {}
    BY <1>6 DEF Inv, Storing, Received, OnlyMail
  <2>2. Received' = {} /\ Waiting' = Waiting /\ Fields' = Fields
    BY <1>1, <2>1 DEF Received, Waiting, Fields
  <2>3. Storing'
    BY <1>1, <1>3, <1>6, <2>1, <2>2 DEF Inv, Storing, CopiesOnFile, OnlyMail, AllMail
  <2>4. Inventing' /\ Loading'
    BY <1>1, <1>6 DEF Inv, Inventing, Loading
  <2>. QED  BY <1>4, <1>5, <2>3, <2>4 DEF Inv
<1>7. CASE phase = "loading"
  <2>. DEFINE saved == session.actors
              index == session.index
  <2>1. /\ session.state = "saved" /\ OneForEach(saved, index)
        /\ r.id \in DOMAIN saved /\ r.id \notin DOMAIN actors
        /\ r.emails = saved[r.id].emails /\ r.primary = saved[r.id].primary
        /\ r.internal = saved[r.id].internal
    BY <1>7 DEF Inv, Loading, Entries, SessionGood
  <2>2. PICK e0 \in Email : saved[r.id] = Single(e0) /\ index[e0] = r.id
    BY <2>1 DEF OneForEach
  <2>3. R!Mailboxes(r) = {e0} /\ actors'[r.id] = saved[r.id]
    <3>1. R!Mailboxes(r) = {e0}
      BY <2>1, <2>2, ResolverAssumption DEF Single, R!Mailboxes
    <3>2. actors'[r.id] = saved[r.id]
      BY <1>3, <2>1, <2>2 DEF Single
    <3>. QED  BY <3>1, <3>2
  <2>4. \A e \in Email : e # e0 => index[e] # r.id
    <3>1. SUFFICES ASSUME NEW e \in Email, index[e] = r.id PROVE e = e0
      OBVIOUS
    <3>2. index[e] # R!NoId
      BY <1>2, <3>1, NoIdIsNobody DEF Entry
    <3>3. Single(e) = Single(e0)
      BY <2>1, <2>2, <3>1, <3>2 DEF OneForEach
    <3>. QED  BY <3>3 DEF Single
  <2>5. \A e \in Email : emailToActor'[e] = IF index[e] \in DOMAIN actors'
                                            THEN index[e] ELSE R!NoId
    BY <1>3, <1>7, <2>1, <2>2, <2>3, <2>4 DEF Inv, Loading
  <2>6. \A s \in roster' : s.id \notin DOMAIN actors' /\ s \in Entries(saved)
    <3>1. SUFFICES ASSUME NEW s \in roster, s # r
                   PROVE  s.id \notin DOMAIN actors' /\ s \in Entries(saved)
      BY <1>1
    <3>2. s \in Entries(saved) /\ r \in Entries(saved) /\ s.id \notin DOMAIN actors
      BY <1>7 DEF Inv, Loading
    <3>3. s.id # r.id
      BY <3>1, <3>2 DEF Entries
    <3>. QED  BY <1>3, <3>2, <3>3
  <2>7. \A i \in DOMAIN actors' : i \in DOMAIN saved /\ actors'[i] = saved[i]
    BY <1>3, <1>7, <2>1, <2>3 DEF Inv, Loading
  <2>8. \A i \in DOMAIN saved : i \in DOMAIN actors' \/ \E s \in roster' : s.id = i
    BY <1>1, <1>3, <1>7 DEF Inv, Loading
  <2>9. Loading'
    BY <1>1, <1>3, <1>7, <2>5, <2>6, <2>7, <2>8 DEF Inv, Loading
  <2>10. Storing' /\ Inventing'
    BY <1>1, <1>3, <1>7 DEF Inv, Storing, Inventing
  <2>. QED  BY <1>4, <1>5, <2>9, <2>10 DEF Inv
<1>. QED  BY <1>1, <1>6, <1>7

LEMMA RosterLoadedInv == Inv /\ RosterLoaded => Inv'
<1>. SUFFICES ASSUME Inv, RosterLoaded PROVE Inv'
  OBVIOUS
<1>1. /\ phase \in {"roster", "loading"} /\ roster = {}
      /\ phase' = IF phase = "roster" THEN "reading" ELSE "loaded"
      /\ UNCHANGED <<actors, emailToActor, nextID, stats, pc, pending, answer, calls,
                     stored, interactions, thread, threads, command, roster, inbox, read,
                     todo, sender, session, runs>>
  BY DEF RosterLoaded, store, resolver
<1>2. Typed' /\ SessionGood'
  <2>1. R!TypeOK'
    BY <1>1 DEF Inv, Typed, TypeOK, R!TypeOK
  <2>2. TypeOK'
    BY <1>1, <2>1 DEF Inv, Typed, TypeOK
  <2>. QED  BY <1>1, <2>2, SessionSame DEF Inv, Typed
<1>3. Received' = Received /\ Waiting' = Waiting /\ Fields' = Fields
  BY <1>1 DEF Received, Waiting, Fields
<1>4. Storing' /\ Inventing' /\ Threaded'
  BY <1>1, <1>3 DEF Inv, Storing, Inventing, Threaded
<1>5. Resolving'
  <2>1. todo = <<>> /\ pc[Main] = "idle"
    BY <1>1 DEF Inv, Storing
  <2>2. Len(todo) = 0 /\ todo \in Seq({"from", "to", "cc", "bcc"} \X Address)
    BY <2>1
  <2>. QED  BY <1>1, <2>1, <2>2 DEF Resolving
<1>6. Loading'
  <2>1. ASSUME phase = "loading"
        PROVE  /\ \A i \in DOMAIN session.actors :
                    i \in DOMAIN actors /\ actors[i] = session.actors[i]
               /\ \A e \in Email : session.index[e] # R!NoId =>
                    emailToActor[e] = session.index[e]
    <3>1. \A i \in DOMAIN session.actors :
            i \in DOMAIN actors /\ actors[i] = session.actors[i]
      BY <1>1, <2>1 DEF Inv, Loading
    <3>2. \A e \in Email : session.index[e] # R!NoId => session.index[e] \in DOMAIN session.actors
      BY <2>1 DEF Inv, Loading, SessionGood, OneForEach
    <3>. QED  BY <2>1, <3>1, <3>2 DEF Inv, Loading
  <2>2. phase = "loading" => pc[Main] = "idle"
    BY DEF Inv, Storing
  <2>. QED  BY <1>1, <2>1, <2>2 DEF Inv, Loading
<1>. QED  BY <1>2, <1>4, <1>5, <1>6 DEF Inv
-----------------------------------------------------------------------------
(***************************************************************************)
(* The addresses of one message.                                           *)
(***************************************************************************)
Role == {"from", "to", "cc", "bcc"} \X Address

SenderFirst(s) == s # <<>> /\ \A i \in 2..Len(s) : s[i][1] # "from"

LEMMA TaggedEffect ==
  ASSUME NEW field \in Field, NEW list \in Seq(Address)
  PROVE  /\ Tagged(field, list) \in Seq(Role)
         /\ ToSet(Tagged(field, list)) = {<<field, x>> : x \in ToSet(list)}
<1>. DEFINE t == Tagged(field, list)
            n == Len(list)
<1>0. n \in Nat /\ DOMAIN list = 1..n /\ \A i \in 1..n : list[i] \in Address
  OBVIOUS
<1>1. DOMAIN t = 1..n /\ \A i \in 1..n : t[i] = <<field, list[i]>>
  BY DEF Tagged
<1>2. t \in [1..n -> Role]
  <2>1. \A i \in 1..n : <<field, list[i]>> \in Role
    BY <1>0 DEF Field, Role
  <2>. QED  BY <2>1 DEF Tagged
<1>. HIDE DEF t, n
<1>3. t \in Seq(Role)
  BY <1>0, <1>2
<1>4. ToSet(t) = {<<field, x>> : x \in ToSet(list)}
  BY <1>0, <1>1 DEF ToSet
<1>. QED  BY <1>3, <1>4 DEF t

LEMMA AppendTagged ==
  ASSUME NEW s \in Seq(Role), SenderFirst(s), NEW t \in Seq(Role),
         \A p \in ToSet(t) : p[1] # "from"
  PROVE  /\ s \o t \in Seq(Role) /\ SenderFirst(s \o t) /\ Head(s \o t) = Head(s)
         /\ ToSet(s \o t) = ToSet(s) \cup ToSet(t)
<1>. DEFINE u == s \o t
            m == Len(s)
            n == Len(t)
<1>1. /\ u \in Seq(Role) /\ Len(u) = m + n /\ m \in Nat /\ n \in Nat /\ m > 0
      /\ \A i \in 1..m : u[i] = s[i]
      /\ \A i \in 1..(m + n) : i > m => u[i] = t[i - m]
  BY DEF SenderFirst
<1>2. \A i \in 1..n : t[i] \in ToSet(t)
  BY ElementIndex
<1>3. ToSet(u) = ToSet(s) \cup ToSet(t)
  BY ElementsOfConcat
<1>4. Head(u) = u[1] /\ Head(s) = s[1] /\ u # <<>>
  <2>1. u # <<>>
    BY <1>1
  <2>. QED  BY <2>1, <1>1 DEF SenderFirst
<1>5. \A i \in 2..m : s[i][1] # "from"
  BY DEF SenderFirst
<1>. HIDE DEF u, m, n
<1>6. ASSUME NEW i \in 2..(m + n) PROVE u[i][1] # "from"
  <2>1. CASE i <= m
    BY <1>1, <1>5, <2>1
  <2>2. CASE i > m
    <3>1. i - m \in 1..n /\ u[i] = t[i - m]
      BY <1>1, <2>2
    <3>2. t[i - m] \in ToSet(t)
      BY <1>2, <3>1
    <3>. QED  BY <3>1, <3>2
  <2>. QED  BY <1>1, <2>1, <2>2
<1>7. SenderFirst(u)
  BY <1>1, <1>4, <1>6 DEF SenderFirst
<1>8. Head(u) = Head(s)
  BY <1>1, <1>4
<1>. QED  BY <1>1, <1>3, <1>7, <1>8 DEF u

LEMMA AddresseesEffect ==
  ASSUME NEW m \in MailId, command \in {"ingest", "pipeline"}
  PROVE  /\ Addressees(m) \in Seq(Role) /\ SenderFirst(Addressees(m))
         /\ Head(Addressees(m)) = <<"from", Header[m].from>>
         /\ \A p \in ToSet(Addressees(m)) : p[1] # "from" =>
              p[1] \in Fields /\ p[2] \in ToSet(Header[m][p[1]])
         /\ \A f \in Fields : \A a \in ToSet(Header[m][f]) : <<f, a>> \in ToSet(Addressees(m))
<1>. DEFINE h == Header[m]
            a == <<<<"from", h.from>>>>
            b == Tagged("to", h.to)
            c == Tagged("cc", h.cc)
            d == Tagged("bcc", h.bcc)
            all == Addressees(m)
<1>1. /\ h.from \in Address /\ h.to \in Seq(Address) /\ h.cc \in Seq(Address)
      /\ h.bcc \in Seq(Address) /\ h["to"] = h.to /\ h["cc"] = h.cc /\ h["bcc"] = h.bcc
  BY HeaderTyped DEF Field
<1>2. /\ a \in Seq(Role) /\ SenderFirst(a) /\ Head(a) = <<"from", h.from>>
      /\ ToSet(a) = {<<"from", h.from>>}
  <2>1. <<"from", h.from>> \in Role
    BY <1>1 DEF Role
  <2>2. Len(a) = 1 /\ a # <<>>
    OBVIOUS
  <2>. QED  BY <2>1, <2>2, ElementsOfOne DEF SenderFirst
<1>3. /\ b \in Seq(Role) /\ ToSet(b) = {<<"to", x>> : x \in ToSet(h.to)}
      /\ c \in Seq(Role) /\ ToSet(c) = {<<"cc", x>> : x \in ToSet(h.cc)}
      /\ d \in Seq(Role) /\ ToSet(d) = {<<"bcc", x>> : x \in ToSet(h.bcc)}
  BY <1>1, TaggedEffect DEF Field
<1>4. /\ \A p \in ToSet(b) : p[1] = "to" /\ p[1] # "from"
      /\ \A p \in ToSet(c) : p[1] = "cc" /\ p[1] # "from"
      /\ \A p \in ToSet(d) : p[1] = "bcc" /\ p[1] # "from"
  BY <1>3
<1>5. all = IF command = "ingest" THEN ((a \o b) \o c) \o d ELSE ((a \o b) \o c) \o <<>>
  BY DEF Addressees
<1>. HIDE DEF a, b, c, d, all
<1>6. /\ a \o b \in Seq(Role) /\ SenderFirst(a \o b) /\ Head(a \o b) = Head(a)
      /\ ToSet(a \o b) = ToSet(a) \cup ToSet(b)
  BY <1>2, <1>3, <1>4, AppendTagged
<1>. DEFINE ab == a \o b
<1>. HIDE DEF ab
<1>7. /\ ab \o c \in Seq(Role) /\ SenderFirst(ab \o c) /\ Head(ab \o c) = Head(ab)
      /\ ToSet(ab \o c) = ToSet(ab) \cup ToSet(c)
  <2>1. ab \in Seq(Role) /\ SenderFirst(ab)
    BY <1>6 DEF ab
  <2>. QED  BY <2>1, <1>3, <1>4, AppendTagged
<1>. DEFINE abc == ab \o c
<1>. HIDE DEF abc
<1>8. /\ abc \o d \in Seq(Role) /\ SenderFirst(abc \o d) /\ Head(abc \o d) = Head(abc)
      /\ ToSet(abc \o d) = ToSet(abc) \cup ToSet(d)
  <2>1. abc \in Seq(Role) /\ SenderFirst(abc)
    BY <1>7 DEF abc
  <2>. QED  BY <2>1, <1>3, <1>4, AppendTagged
<1>9. ToSet(abc) = ToSet(a) \cup ToSet(b) \cup ToSet(c) /\ Head(abc) = Head(a)
      /\ abc \in Seq(Role) /\ SenderFirst(abc)
  BY <1>6, <1>7 DEF ab, abc
<1>10. CASE command = "ingest"
  <2>1. all = abc \o d
    BY <1>5, <1>10 DEF ab, abc
  <2>2. /\ all \in Seq(Role) /\ SenderFirst(all) /\ Head(all) = <<"from", h.from>>
        /\ ToSet(all) = ToSet(a) \cup ToSet(b) \cup ToSet(c) \cup ToSet(d)
    BY <1>2, <1>8, <1>9, <2>1
  <2>3. Fields = {"to", "cc", "bcc"}
    BY <1>10 DEF Fields, Field
  <2>4. \A p \in ToSet(all) : p[1] # "from" => p[1] \in Fields /\ p[2] \in ToSet(h[p[1]])
    BY <1>1, <1>2, <1>3, <2>2, <2>3
  <2>5. \A f \in Fields : \A x \in ToSet(h[f]) : <<f, x>> \in ToSet(all)
    BY <1>1, <1>3, <2>2, <2>3
  <2>. QED  BY <2>2, <2>4, <2>5 DEF all
<1>11. CASE command = "pipeline"
  <2>1. all = abc
    BY <1>5, <1>9, <1>11 DEF ab, abc
  <2>2. /\ all \in Seq(Role) /\ SenderFirst(all) /\ Head(all) = <<"from", h.from>>
        /\ ToSet(all) = ToSet(a) \cup ToSet(b) \cup ToSet(c)
    BY <1>2, <1>9, <2>1
  <2>3. Fields = {"to", "cc"}
    BY <1>11 DEF Fields
  <2>4. \A p \in ToSet(all) : p[1] # "from" => p[1] \in Fields /\ p[2] \in ToSet(h[p[1]])
    BY <1>1, <1>2, <1>3, <2>2, <2>3
  <2>5. \A f \in Fields : \A x \in ToSet(h[f]) : <<f, x>> \in ToSet(all)
    BY <1>1, <1>3, <2>2, <2>3
  <2>. QED  BY <2>2, <2>4, <2>5 DEF all
<1>. QED  BY <1>10, <1>11
-----------------------------------------------------------------------------
(***************************************************************************)
(* Steps of a command that reads a source.                                 *)
(***************************************************************************)
LEMMA ArrivedGrows ==
  ASSUME NEW box, NEW n \in Nat
  PROVE  Arrived(box, n + 1) = Arrived(box, n) \cup {box[n + 1]}
<1>1. 1..(n + 1) = (1..n) \cup {n + 1}
  OBVIOUS
<1>. QED  BY <1>1 DEF Arrived

LEMMA CopiesGrow ==
  ASSUME NEW copies \in [MailId -> Nat], NEW box, NEW n \in Nat, box[n + 1] \in MailId,
         CopiesOnFile(copies, box, n)
  PROVE  CopiesOnFile([copies EXCEPT ![box[n + 1]] = n + 1], box, n + 1)
<1>. DEFINE x == box[n + 1]
            new == [copies EXCEPT ![x] = n + 1]
<1>1. new[x] = n + 1 /\ \A m \in MailId : m # x => new[m] = copies[m]
  OBVIOUS
<1>2. /\ n + 1 \in 1..(n + 1) /\ 1..n \subseteq 1..(n + 1)
      /\ \A c \in 1..(n + 1) : c <= n + 1 /\ (c # n + 1 => c \in 1..n)
  OBVIOUS
<1>3. Arrived(box, n + 1) = Arrived(box, n) \cup {x}
  BY ArrivedGrows
<1>. HIDE DEF new
<1>4. ASSUME NEW m \in MailId
      PROVE  IF m \in Arrived(box, n + 1)
             THEN /\ new[m] \in 1..(n + 1) /\ box[new[m]] = m
                  /\ \A c \in 1..(n + 1) : box[c] = m => c <= new[m]
             ELSE new[m] = 0
  <2>1. CASE m = x
    BY <1>1, <1>2, <1>3, <2>1
  <2>2. CASE m # x
    <3>1. new[m] = copies[m] /\ (m \in Arrived(box, n + 1) <=> m \in Arrived(box, n))
      BY <1>1, <1>3, <2>2
    <3>2. IF m \in Arrived(box, n)
          THEN /\ copies[m] \in 1..n /\ box[copies[m]] = m
               /\ \A c \in 1..n : box[c] = m => c <= copies[m]
          ELSE copies[m] = 0
      BY DEF CopiesOnFile
    <3>. QED  BY <1>2, <2>2, <3>1, <3>2
  <2>. QED  BY <2>1, <2>2
<1>5. CopiesOnFile(new, box, n + 1)
  BY <1>4 DEF CopiesOnFile
<1>. QED  BY <1>5 DEF new

LEMMA ReceiveMessageInv == Inv /\ ReceiveMessage => Inv'
<1>. SUFFICES ASSUME Inv, ReceiveMessage PROVE Inv'
  OBVIOUS
<1>. DEFINE x == inbox[read + 1]
<1>1. /\ phase = "reading" /\ todo = <<>> /\ read < Len(inbox) /\ read' = read + 1
      /\ stored' = [stored EXCEPT ![x] = read + 1] /\ todo' = Addressees(x)
      /\ UNCHANGED <<actors, emailToActor, nextID, stats, pc, pending, answer, calls,
                     interactions, thread, threads, command, phase, roster, inbox,
                     sender, session, runs>>
  BY DEF ReceiveMessage, resolver
<1>2. /\ read \in Nat /\ Len(inbox) \in Nat /\ Len(inbox) <= MaxMail /\ MaxMail \in Nat
      /\ read + 1 \in 1..Len(inbox) /\ x \in MailId
  <2>1. /\ read \in Nat /\ Len(inbox) \in Nat /\ Len(inbox) <= MaxMail
        /\ \A k \in 1..Len(inbox) : inbox[k] \in MailId
    BY InboxTyped DEF Inv
  <2>2. read + 1 \in 1..Len(inbox)
    BY <1>1, <2>1
  <2>. QED  BY <2>1, <2>2, BoundsAssumption
<1>3. command \in {"ingest", "pipeline"}
  BY <1>1 DEF Inv, Storing
<1>4. Typed'
  <2>1. R!TypeOK'
    BY <1>1 DEF Inv, Typed, TypeOK, R!TypeOK
  <2>2. stored' \in [MailId -> 0..MaxMail] /\ read' \in 0..Len(inbox)
    BY <1>1, <1>2 DEF Inv, Typed, TypeOK
  <2>3. TypeOK'
    BY <1>1, <2>1, <2>2 DEF Inv, Typed, TypeOK
  <2>. QED  BY <1>1, <2>3 DEF Inv, Typed
<1>5. /\ Received = Arrived(inbox, read) /\ Received' = Arrived(inbox, read + 1)
      /\ Received' = Received \cup {x} /\ Fields' = Fields /\ Waiting = {}
  <2>1. Received' = Arrived(inbox, read + 1)
    BY <1>1 DEF Received, Arrived
  <2>2. Received = Arrived(inbox, read)
    BY DEF Received, Arrived
  <2>3. Fields' = Fields /\ Waiting = {}
    BY <1>1, ElementsOfNone DEF Fields, Waiting
  <2>. QED  BY <1>2, <2>1, <2>2, <2>3, ArrivedGrows
<1>6. /\ Addressees(x) \in Seq(Role) /\ SenderFirst(Addressees(x))
      /\ Head(Addressees(x)) = <<"from", Header[x].from>>
      /\ \A p \in ToSet(Addressees(x)) : p[1] # "from" =>
           p[1] \in Fields /\ p[2] \in ToSet(Header[x][p[1]])
      /\ \A f \in Fields : \A a \in ToSet(Header[x][f]) : <<f, a>> \in ToSet(Addressees(x))
  BY <1>2, <1>3, AddresseesEffect
<1>7. Waiting' = {<<x, p[1], p[2]>> : p \in ToSet(Addressees(x))}
  BY <1>1 DEF Waiting
<1>8. Storing'
  <2>1. CopiesOnFile(stored', inbox', read')
    <3>1. CopiesOnFile(stored, inbox, read)
      BY <1>1 DEF Inv, Storing
    <3>2. stored \in [MailId -> Nat]
      BY <1>2 DEF Inv, Typed, TypeOK
    <3>3. CopiesOnFile([stored EXCEPT ![inbox[read + 1]] = read + 1], inbox, read + 1)
      BY <1>2, <3>1, <3>2, CopiesGrow
    <3>. QED  BY <1>1, <3>3
  <2>2. OnlyMail(interactions', Received', emailToActor', Fields')
    BY <1>1, <1>5 DEF Inv, Storing, OnlyMail
  <2>3. AllMail(interactions', Received', emailToActor', Fields', Waiting')
    <3>1. AllMail(interactions, Received, emailToActor, Fields, {})
      BY <1>1, <1>5 DEF Inv, Storing
    <3>2. \A f \in Fields : \A a \in ToSet(Header[x][f]) : <<x, f, a>> \in Waiting'
      <4>. TAKE f \in Fields
      <4>. TAKE a \in ToSet(Header[x][f])
      <4>. DEFINE p == <<f, a>>
      <4>2. p \in ToSet(Addressees(x)) /\ p[1] = f /\ p[2] = a
        BY <1>6
      <4>. HIDE DEF p, x
      <4>. QED  BY <1>7, <4>2
    <3>. QED  BY <1>1, <1>5, <3>1, <3>2 DEF AllMail
  <2>. QED  BY <1>1, <1>3, <2>1, <2>2, <2>3 DEF Storing
<1>9. Resolving'
  <2>1. pc[Main] = "idle"
    BY <1>1 DEF Inv, Resolving
  <2>2. read' > 0
    BY <1>1, <1>2
  <2>3. Addressees(x) # <<>> /\ \A i \in 2..Len(Addressees(x)) : Addressees(x)[i][1] # "from"
    BY <1>6 DEF SenderFirst
  <2>4. Head(Addressees(x))[1] = "from" /\ Head(Addressees(x))[2] = Header[x].from
    BY <1>6
  <2>5. inbox'[read'] = x
    BY <1>1
  <2>. HIDE DEF x
  <2>. QED  BY <1>1, <1>5, <1>6, <2>1, <2>2, <2>3, <2>4, <2>5 DEF Resolving, Role
<1>10. Inventing' /\ Threaded' /\ Loading' /\ SessionGood'
  BY <1>1, SessionSame DEF Inv, Inventing, Threaded, Loading
<1>. QED  BY <1>4, <1>8, <1>9, <1>10 DEF Inv

LEMMA AskInv == Inv /\ Ask => Inv'
<1>. SUFFICES ASSUME Inv, Ask PROVE Inv'
  OBVIOUS
<1>. DEFINE addr == Head(todo)[2]
            e == Normal[addr]
<1>1. /\ phase = "reading" /\ todo # <<>>
      /\ R!LookUpHit(Main, addr) \/ R!LookUpMiss(Main, addr)
      /\ UNCHANGED <<stored, interactions, thread, threads, command, phase, roster, inbox,
                     read, todo, sender, session, runs>>
  BY DEF Ask, store
<1>2. addr \in Address /\ e \in Email
  <2>1. todo \in Seq({"from", "to", "cc", "bcc"} \X Address)
    BY <1>1 DEF Inv, Resolving
  <2>2. Head(todo) \in {"from", "to", "cc", "bcc"} \X Address
    BY <1>1, <2>1
  <2>. QED  BY <2>2, ResolverAssumption
<1>3. R!TypeOK /\ (pc[Main] = "create" => pending[Main] \in Email)
  BY DEF Inv, Typed, TypeOK
<1>4. /\ R!TypeOK' /\ (pc'[Main] = "create" => pending'[Main] \in Email)
      /\ UNCHANGED <<actors, emailToActor, nextID>>
  BY <1>1, <1>2, <1>3, CallEffect
<1>5. \/ pc'[Main] = "hit" /\ emailToActor[e] # R!NoId /\ answer'[Main].id = emailToActor[e]
      \/ pc'[Main] = "create" /\ pending'[Main] = e
  <2>1. CASE R!LookUpHit(Main, addr)
    BY <1>3, <2>1 DEF R!LookUpHit, R!Tell, R!normalizeEmail, R!TypeOK, Caller
  <2>2. CASE R!LookUpMiss(Main, addr)
    BY <1>3, <2>2 DEF R!LookUpMiss, R!normalizeEmail, R!TypeOK, Caller
  <2>. QED  BY <1>1, <2>1, <2>2
<1>6. Typed'
  BY <1>1, <1>4 DEF Inv, Typed, TypeOK
<1>7. Received' = Received /\ Waiting' = Waiting /\ Fields' = Fields
  BY <1>1 DEF Received, Waiting, Fields
<1>8. Storing' /\ Inventing' /\ Threaded' /\ Loading' /\ SessionGood'
  BY <1>1, <1>4, <1>7, SessionSame DEF Inv, Storing, Inventing, Threaded, Loading
<1>9. Resolving'
  <2>3. pc'[Main] = "hit" =>
          emailToActor'[e] # R!NoId /\ answer'[Main].id = emailToActor'[e]
    BY <1>4, <1>5
  <2>4. pc'[Main] = "create" => pending'[Main] = e
    BY <1>5
  <2>. QED  BY <1>1, <1>4, <1>7, <2>3, <2>4 DEF Inv, Resolving, Owner
<1>. QED  BY <1>6, <1>8, <1>9 DEF Inv

LEMMA OneMoreForEach ==
  ASSUME R!TypeOK, pc[Main] = "create" => pending[Main] \in Email, R!CreateActor(Main),
         OneForEach(actors, emailToActor),
         \A i \in DOMAIN actors : \E n \in 1..nextID : i = <<"auto", n>>
  PROVE  /\ OneForEach(actors', emailToActor')
         /\ \A i \in DOMAIN actors' : \E n \in 1..nextID' : i = <<"auto", n>>
<1>. DEFINE e == pending[Main]
            id == <<"auto", nextID + 1>>
<1>1. /\ e \in Email /\ emailToActor[e] = R!NoId
      /\ emailToActor' = [emailToActor EXCEPT ![e] = id]
      /\ nextID' = nextID + 1 /\ nextID \in Nat
      /\ DOMAIN actors' = DOMAIN actors \cup {id}
      /\ actors'[id] = Single(e)
      /\ \A i \in DOMAIN actors : i # id => actors'[i] = actors[i]
  BY CreateEffect
<1>2. id \notin DOMAIN actors
  <2>1. \A n \in 1..nextID : id # <<"auto", n>>
    BY <1>1
  <2>. QED  BY <2>1
<1>3. \A i \in DOMAIN actors' : \E n \in 1..nextID' : i = <<"auto", n>>
  <2>1. \A n \in 1..nextID : n \in 1..nextID'
    BY <1>1
  <2>2. nextID + 1 \in 1..nextID'
    BY <1>1
  <2>. QED  BY <1>1, <2>1, <2>2
<1>4. id # R!NoId
  BY DEF R!NoId
<1>5. \A d \in Email : emailToActor'[d] = IF d = e THEN id ELSE emailToActor[d]
  BY <1>1 DEF R!TypeOK
<1>. HIDE DEF id, e
<1>6. ASSUME NEW i \in DOMAIN actors'
      PROVE  \E d \in Email : actors'[i] = Single(d) /\ emailToActor'[d] = i
  <2>1. CASE i = id
    BY <1>1, <1>5, <2>1
  <2>2. CASE i # id
    <3>1. i \in DOMAIN actors /\ actors'[i] = actors[i]
      BY <1>1, <1>6, <2>2
    <3>2. PICK d \in Email : actors[i] = Single(d) /\ emailToActor[d] = i
      BY <3>1 DEF OneForEach
    <3>3. i # R!NoId
      BY <3>1 DEF R!NoId
    <3>4. emailToActor'[d] = i
      BY <1>1, <1>5, <3>2, <3>3
    <3>. QED  BY <3>1, <3>2, <3>4
  <2>. QED  BY <2>1, <2>2
<1>7. ASSUME NEW d \in Email, emailToActor'[d] # R!NoId
      PROVE  emailToActor'[d] \in DOMAIN actors' /\ actors'[emailToActor'[d]] = Single(d)
  <2>1. CASE d = e
    BY <1>1, <1>5, <2>1
  <2>2. CASE d # e
    <3>1. emailToActor'[d] = emailToActor[d]
      BY <1>5, <2>2
    <3>2. emailToActor[d] \in DOMAIN actors /\ actors[emailToActor[d]] = Single(d)
      BY <1>7, <3>1 DEF OneForEach
    <3>. QED  BY <1>1, <1>2, <3>1, <3>2
  <2>. QED  BY <2>1, <2>2
<1>. QED  BY <1>3, <1>6, <1>7 DEF OneForEach

\* Whichever way a call ends, it answers with the owner of the mailbox.
LEMMA SettleEffect ==
  ASSUME Inv, phase = "reading", todo # <<>>,
         R!CountHit(Main) \/ R!JoinExisting(Main) \/ R!CreateActor(Main)
  PROVE  /\ R!TypeOK' /\ pc'[Main] = "idle" /\ Grows(emailToActor, emailToActor')
         /\ answer'[Main].id = emailToActor'[Normal[Head(todo)[2]]]
         /\ answer'[Main].id \in R!ActorId
         /\ command = "ingest" =>
              /\ OneForEach(actors', emailToActor')
              /\ \A i \in DOMAIN actors' : \E n \in 1..nextID' : i = <<"auto", n>>
<1>. DEFINE e == Normal[Head(todo)[2]]
<1>1. R!TypeOK /\ (pc[Main] = "create" => pending[Main] \in Email)
  BY DEF Inv, Typed, TypeOK
<1>2. /\ pc[Main] = "hit" => emailToActor[e] # R!NoId /\ answer[Main].id = emailToActor[e]
      /\ pc[Main] = "create" => pending[Main] = e
  BY DEF Inv, Resolving, Owner
<1>3. e \in Email
  <2>1. todo \in Seq({"from", "to", "cc", "bcc"} \X Address)
    BY DEF Inv, Resolving
  <2>2. Head(todo) \in {"from", "to", "cc", "bcc"} \X Address
    BY <2>1
  <2>. QED  BY <2>2, ResolverAssumption
<1>4. command = "ingest" => /\ OneForEach(actors, emailToActor)
                            /\ \A i \in DOMAIN actors : \E n \in 1..nextID : i = <<"auto", n>>
  BY DEF Inv, Inventing
<1>5. emailToActor[e] # R!NoId => emailToActor[e] \in R!ActorId
  BY <1>1, <1>3 DEF R!TypeOK
<1>6. CASE R!CountHit(Main) \/ R!JoinExisting(Main)
  <2>1. R!TypeOK' /\ UNCHANGED <<actors, emailToActor, nextID>>
    BY <1>1, <1>6, CallEffect
  <2>2. pc'[Main] = "idle" /\ answer'[Main].id = emailToActor[e] /\ emailToActor[e] # R!NoId
    <3>1. CASE R!CountHit(Main)
      BY <1>1, <1>2, <3>1 DEF R!CountHit, R!TypeOK, Caller
    <3>2. CASE R!JoinExisting(Main)
      BY <1>1, <1>2, <3>2 DEF R!JoinExisting, R!Recheck, R!Tell, R!Finish, R!TypeOK, Caller
    <3>. QED  BY <1>6, <3>1, <3>2
  <2>3. Grows(emailToActor, emailToActor')
    BY <2>1 DEF Grows
  <2>. QED  BY <1>4, <1>5, <2>1, <2>2, <2>3 DEF OneForEach
<1>7. CASE R!CreateActor(Main)
  <2>1. /\ R!TypeOK' /\ pc'[Main] = "idle" /\ emailToActor[pending[Main]] = R!NoId
        /\ emailToActor' = [emailToActor EXCEPT ![pending[Main]] = <<"auto", nextID + 1>>]
        /\ answer'[Main].id = <<"auto", nextID + 1>>
        /\ <<"auto", nextID + 1>> \in R!ActorId
    BY <1>1, <1>7, CreateEffect
  <2>2. pending[Main] = e
    BY <1>2, <1>7 DEF R!CreateActor
  <2>3. \A d \in Email : emailToActor'[d] = IF d = e THEN <<"auto", nextID + 1>>
                                            ELSE emailToActor[d]
    BY <1>1, <2>1, <2>2 DEF R!TypeOK
  <2>4. Grows(emailToActor, emailToActor')
    BY <2>1, <2>2, <2>3 DEF Grows
  <2>. QED  BY <1>1, <1>3, <1>4, <1>7, <2>1, <2>3, <2>4, OneMoreForEach
<1>. QED  BY <1>6, <1>7

LEMMA SettleInv == Inv /\ Settle => Inv'
<1>. SUFFICES ASSUME Inv, Settle PROVE Inv'
  OBVIOUS
<1>. DEFINE id == answer'[Main].id
            m == inbox[read]
            role == Head(todo)[1]
            addr == Head(todo)[2]
            rest == Tail(todo)
<1>1. /\ phase = "reading" /\ todo # <<>> /\ todo' = rest
      /\ R!CountHit(Main) \/ R!JoinExisting(Main) \/ R!CreateActor(Main)
      /\ IF role = "from" THEN sender' = id /\ interactions' = interactions
         ELSE FileInteraction(m, role, id) /\ sender' = sender
      /\ UNCHANGED <<stored, thread, threads, command, phase, roster, inbox, read,
                     session, runs>>
  BY DEF Settle
<1>2. /\ R!TypeOK' /\ pc'[Main] = "idle" /\ Grows(emailToActor, emailToActor')
      /\ id = emailToActor'[Normal[addr]] /\ id \in R!ActorId
      /\ command = "ingest" =>
           /\ OneForEach(actors', emailToActor')
           /\ \A i \in DOMAIN actors' : \E n \in 1..nextID' : i = <<"auto", n>>
  BY <1>1, SettleEffect
<1>3. /\ todo \in Seq(Role) /\ \A i \in 2..Len(todo) : todo[i][1] # "from"
      /\ read > 0
      /\ IF role = "from" THEN addr = Header[m].from
         ELSE sender = Owner(Header[m].from) /\ sender # R!NoId
      /\ \A p \in ToSet(todo) : p[1] # "from" =>
           p[1] \in Fields /\ p[2] \in ToSet(Header[m][p[1]])
  BY <1>1 DEF Inv, Resolving, Role
<1>4. /\ Head(todo) \in Role /\ rest \in Seq(Role) /\ Len(rest) = Len(todo) - 1
      /\ ToSet(todo) = {Head(todo)} \cup ToSet(rest)
      /\ Head(todo) = <<role, addr>>
  <2>1. Head(todo) \in Role
    BY <1>1, <1>3
  <2>2. Head(todo) = <<role, addr>>
    BY <2>1 DEF Role
  <2>. QED  BY <1>1, <1>3, <2>1, <2>2, ElementsOfTail
<1>5. /\ m \in MailId /\ m \in Received
  <2>1. read \in Nat /\ read <= Len(inbox) /\ \A k \in 1..Len(inbox) : inbox[k] \in MailId
    BY InboxTyped DEF Inv
  <2>2. Len(inbox) \in Nat
    BY InboxTyped DEF Inv
  <2>3. read \in 1..Len(inbox) /\ read \in 1..read
    BY <1>3, <2>1, <2>2
  <2>. QED  BY <2>1, <2>3 DEF Received
<1>6. role # "from" => role \in Fields /\ role \in Field /\ addr \in ToSet(Header[m][role])
  BY <1>3, <1>4, FieldsAreFields
<1>7. /\ Received' = Received /\ Fields' = Fields
      /\ Waiting = {<<m, p[1], p[2]>> : p \in ToSet(todo)}
      /\ Waiting' = {<<m, p[1], p[2]>> : p \in ToSet(rest)}
      /\ Waiting = Waiting' \cup {<<m, role, addr>>}
  <2>1. Received' = Received /\ Fields' = Fields
    BY <1>1 DEF Received, Fields
  <2>2. /\ Waiting = {<<m, p[1], p[2]>> : p \in ToSet(todo)}
        /\ Waiting' = {<<m, p[1], p[2]>> : p \in ToSet(rest)}
    BY <1>1 DEF Waiting
  <2>3. Head(todo)[1] = role /\ Head(todo)[2] = addr
    OBVIOUS
  <2>. HIDE DEF role, addr, rest, m
  <2>4. Waiting = Waiting' \cup {<<m, role, addr>>}
    BY <1>4, <2>2, <2>3
  <2>. QED  BY <2>1, <2>2, <2>4
<1>8. /\ Received \in SUBSET MailId /\ Fields \in SUBSET Field
      /\ FiledTyped(interactions)
      /\ CopiesOnFile(stored, inbox, read)
      /\ OnlyMail(interactions, Received, emailToActor, Fields)
      /\ AllMail(interactions, Received, emailToActor, Fields, Waiting)
  <2>1. \A k \in 1..read : k \in 1..Len(inbox)
    BY InboxTyped DEF Inv
  <2>2. Received \in SUBSET MailId
    BY <2>1, InboxTyped DEF Inv, Received
  <2>3. FiledTyped(interactions)
    BY DEF Inv, Typed, TypeOK, FiledTyped
  <2>. QED  BY <1>1, <2>2, <2>3, FieldsAreFields DEF Inv, Storing
<1>9. /\ OnlyMail(interactions, Received, emailToActor', Fields)
      /\ AllMail(interactions, Received, emailToActor', Fields, Waiting)
  BY <1>2, <1>8, OnlyMailGrows, AllMailGrows
<1>. HIDE DEF id, m, role, addr, rest
<1>10. role # "from" =>
         /\ DOMAIN interactions' = DOMAIN interactions \cup {<<m, role, id>>}
         /\ interactions'[<<m, role, id>>] = [from |-> sender, thread |-> NoThread]
         /\ \A k \in DOMAIN interactions : k # <<m, role, id>> =>
              interactions'[k] = interactions[k]
  BY <1>1 DEF FileInteraction
<1>11. /\ sender' \in R!ActorId
       /\ role = "from" => sender' = emailToActor'[Normal[Header[m].from]]
       /\ role # "from" => sender' = sender /\ sender = emailToActor'[Normal[Header[m].from]]
  <2>1. CASE role = "from"
    BY <1>1, <1>2, <1>3, <2>1
  <2>2. CASE role # "from"
    <3>1. Normal[Header[m].from] \in Email
      BY <1>5, HeaderTyped, ResolverAssumption
    <3>2. sender' = sender /\ sender # R!NoId /\ sender = emailToActor[Normal[Header[m].from]]
      BY <1>1, <1>3, <2>2 DEF Owner
    <3>3. sender \in R!ActorId \cup {R!NoId}
      BY DEF Inv, Typed, TypeOK
    <3>. QED  BY <1>2, <2>2, <3>1, <3>2, <3>3 DEF Grows
  <2>. QED  BY <2>1, <2>2
<1>12. Typed'
  <2>1. \A k \in DOMAIN interactions' :
          /\ k \in MailId \X Field \X R!ActorId
          /\ interactions'[k] \in [from : R!ActorId, thread : Thread \cup {NoThread}]
    <3>1. \A k \in DOMAIN interactions :
            /\ k \in MailId \X Field \X R!ActorId
            /\ interactions[k] \in [from : R!ActorId, thread : Thread \cup {NoThread}]
      BY DEF Inv, Typed, TypeOK
    <3>2. CASE role = "from"
      BY <1>1, <3>1, <3>2
    <3>3. CASE role # "from"
      <4>1. <<m, role, id>> \in MailId \X Field \X R!ActorId
        BY <1>2, <1>5, <1>6, <3>3
      <4>2. [from |-> sender, thread |-> NoThread]
              \in [from : R!ActorId, thread : Thread \cup {NoThread}]
        BY <1>11, <3>3
      <4>. DEFINE key == <<m, role, id>>
      <4>. HIDE DEF key
      <4>. QED  BY <1>10, <3>1, <3>3, <4>1, <4>2 DEF key
    <3>. QED  BY <3>2, <3>3
  <2>2. TypeOK'
    BY <1>1, <1>2, <1>11, <2>1 DEF Inv, Typed, TypeOK
  <2>. QED  BY <1>1, <1>2, <2>2 DEF Inv, Typed
<1>13. OnlyMail(interactions', Received, emailToActor', Fields)
  <2>1. CASE role = "from"
    BY <1>1, <1>9, <2>1
  <2>2. CASE role # "from"
    <3>. DEFINE key == <<m, role, id>>
    <3>1. key[1] = m /\ key[2] = role /\ key[3] = id
      OBVIOUS
    <3>2. DOMAIN interactions' = DOMAIN interactions \cup {key}
          /\ interactions'[key].from = sender
          /\ \A k \in DOMAIN interactions : k # key => interactions'[k] = interactions[k]
      BY <1>10, <2>2
    <3>. HIDE DEF key
    <3>3. /\ key[1] \in Received /\ key[2] \in Fields
          /\ \E a \in ToSet(Header[key[1]][key[2]]) : key[3] = emailToActor'[Normal[a]]
          /\ interactions'[key].from = emailToActor'[Normal[Header[key[1]].from]]
      BY <1>2, <1>5, <1>6, <1>11, <2>2, <3>1, <3>2
    <3>. QED  BY <1>9, <3>2, <3>3 DEF OnlyMail
  <2>. QED  BY <2>1, <2>2
<1>14. AllMail(interactions', Received, emailToActor', Fields, Waiting')
  <2>. SUFFICES ASSUME NEW n \in Received, NEW f \in Fields, NEW a \in ToSet(Header[n][f])
                PROVE  \/ <<n, f, emailToActor'[Normal[a]]>> \in DOMAIN interactions'
                       \/ <<n, f, a>> \in Waiting'
    BY DEF AllMail
  <2>1. DOMAIN interactions \subseteq DOMAIN interactions'
    BY <1>1, <1>10
  <2>2. \/ <<n, f, emailToActor'[Normal[a]]>> \in DOMAIN interactions
        \/ <<n, f, a>> \in Waiting
    BY <1>9 DEF AllMail
  <2>3. CASE <<n, f, a>> = <<m, role, addr>>
    <3>1. n = m /\ f = role /\ a = addr
      BY <2>3
    <3>2. role # "from"
      BY <3>1, FieldsAreFields DEF Field
    <3>. QED  BY <1>2, <1>10, <3>1, <3>2
  <2>. QED  BY <1>7, <2>1, <2>2, <2>3
<1>15. Storing'
  <2>1. phase' = "reading"
    BY <1>1
  <2>2. command' \in {"ingest", "pipeline"}
    BY <1>1 DEF Inv, Storing
  <2>3. CopiesOnFile(stored', inbox', read')
    BY <1>1, <1>8
  <2>. QED  BY <1>7, <1>13, <1>14, <2>1, <2>2, <2>3 DEF Storing
<1>16. Resolving'
  <2>1. \A i \in 1..Len(rest) : rest[i] = todo[i + 1] /\ i + 1 \in 2..Len(todo)
    BY <1>1, <1>3, <1>4 DEF rest
  <2>2. \A i \in 1..Len(rest) : rest[i][1] # "from"
    BY <1>3, <2>1
  <2>3. rest # <<>> => Head(rest)[1] # "from"
    <3>1. rest # <<>> => 1 \in 1..Len(rest) /\ Head(rest) = rest[1]
      BY <1>4
    <3>. QED  BY <2>2, <3>1
  <2>4. \A i \in 2..Len(rest) : rest[i][1] # "from"
    <3>1. \A i \in 2..Len(rest) : i \in 1..Len(rest)
      BY <1>4
    <3>. QED  BY <2>2, <3>1
  <2>5. sender' = emailToActor'[Normal[Header[m].from]] /\ sender' # R!NoId
    BY <1>11, NoIdIsNobody
  <2>6. \A p \in ToSet(rest) : p[1] # "from" =>
          p[1] \in Fields /\ p[2] \in ToSet(Header[m][p[1]])
    BY <1>3, <1>4
  <2>7. inbox'[read'] = m /\ read' > 0
    BY <1>1, <1>3 DEF m
  <2>. QED  BY <1>1, <1>2, <1>4, <1>7, <2>3, <2>4, <2>5, <2>6, <2>7 DEF Resolving, Owner, Role
<1>17. Inventing'
  <2>1. command = "ingest" => roster = {}
    BY <1>1 DEF Inv, Inventing
  <2>. QED  BY <1>1, <1>2, <2>1 DEF Inventing
<1>18. Threaded' /\ Loading' /\ SessionGood'
  <2>1. \A k \in DOMAIN interactions : interactions[k].thread = NoThread
    BY <1>1 DEF Inv, Threaded
  <2>2. \A k \in DOMAIN interactions' : interactions'[k].thread = NoThread
    BY <1>1, <1>10, <2>1
  <2>. QED  BY <1>1, <2>2, SessionSame DEF Inv, Threaded, Loading
<1>. QED  BY <1>12, <1>15, <1>16, <1>17, <1>18 DEF Inv

LEMMA EndsInv ==
  ASSUME Inv, phase' \in {"exit", "refused"}, command' \in {"ingest", "pipeline"} \cup Query,
         UNCHANGED <<resolver, store, roster, inbox, read, todo, sender, session, runs>>
  PROVE  Inv'
<1>1. UNCHANGED <<actors, emailToActor, nextID, stats, pc, pending, answer, calls,
                  stored, interactions, thread, threads, roster, inbox, read, todo,
                  sender, session, runs>>
  BY DEF resolver, store
<1>2. R!TypeOK'
  BY <1>1 DEF Inv, Typed, TypeOK, R!TypeOK
<1>3. TypeOK'
  BY <1>1, <1>2 DEF Inv, Typed, TypeOK
<1>4. Typed'
  BY <1>1, <1>3 DEF Inv, Typed
<1>5. SessionGood'
  BY <1>1, SessionSame DEF Inv
<1>. QED  BY <1>4, <1>5, OutOfPhase DEF Inv

LEMMA ReconstructInv == Inv /\ Reconstruct => Inv'
<1>. SUFFICES ASSUME Inv, Reconstruct PROVE Inv'
  OBVIOUS
<1>1. /\ phase = "reading" /\ todo = <<>> /\ read = Len(inbox) /\ phase' = "done"
      /\ UNCHANGED <<actors, emailToActor, nextID, stats, pc, pending, answer, calls,
                     stored, command, roster, inbox, read, todo, sender, session, runs>>
  BY DEF Reconstruct, AtEndOfStream, resolver
<1>2. PICK of \in [1..read -> Thread \cup {NoThread}] :
        /\ thread' = [k \in Copy |-> IF k <= read THEN of[k] ELSE NoThread]
        /\ threads' = [t \in {of[k] : k \in 1..read} \ {NoThread} |-> ThreadOf(of, t)]
        /\ IF command = "ingest" THEN interactions' = WithThreads(of)
                                 ELSE UNCHANGED interactions
  BY DEF Reconstruct
<1>3. /\ command \in {"ingest", "pipeline"} /\ Waiting = {}
      /\ CopiesOnFile(stored, inbox, read)
      /\ OnlyMail(interactions, Received, emailToActor, Fields)
      /\ AllMail(interactions, Received, emailToActor, Fields, Waiting)
  BY <1>1, ElementsOfNone DEF Inv, Storing, Waiting
<1>4. Received' = Received /\ Waiting' = Waiting /\ Fields' = Fields
  BY <1>1 DEF Received, Waiting, Fields
<1>5. /\ read \in Nat /\ read <= MaxMail /\ MaxMail \in Nat
      /\ DOMAIN inbox = 1..read
      /\ \A k \in 1..read : of[k] \in Thread \cup {NoThread}
      /\ \A m \in Received : m \in MailId
  <2>1. read \in Nat /\ read <= MaxMail /\ \A k \in 1..read : inbox[k] \in MailId
    BY <1>1, InboxTyped DEF Inv
  <2>2. inbox \in Seq(MailId)
    BY InboxTyped DEF Inv
  <2>. QED  BY <1>1, <1>2, <2>1, <2>2, BoundsAssumption DEF Received
<1>. DEFINE W(m) == WithThread(of, m)
<1>14. \A m \in MailId : W(m) # {} =>
         /\ Max(W(m)) \in 1..read /\ inbox[Max(W(m))] = m
         /\ of[Max(W(m))] \in Thread /\ of[Max(W(m))] # NoThread
         /\ \A c \in W(m) : c <= Max(W(m))
  <2>1. SUFFICES ASSUME NEW m \in MailId, W(m) # {}
                 PROVE  /\ Max(W(m)) \in 1..read /\ inbox[Max(W(m))] = m
                        /\ of[Max(W(m))] \in Thread /\ of[Max(W(m))] # NoThread
                        /\ \A c \in W(m) : c <= Max(W(m))
    OBVIOUS
  <2>2. W(m) \subseteq 1..read /\ 1..read \subseteq Nat /\ IsFiniteSet(1..read)
    BY <1>5, FS_Interval DEF WithThread
  <2>3. W(m) \subseteq Nat /\ IsFiniteSet(W(m))
    BY <2>2, FS_Subset
  <2>4. Max(W(m)) \in W(m) /\ \A c \in W(m) : c <= Max(W(m))
    BY <2>1, <2>3, ExtremesExist
  <2>. QED  BY <1>5, <2>2, <2>4 DEF WithThread
<1>. HIDE DEF W
<1>6. /\ DOMAIN interactions' = DOMAIN interactions
      /\ \A k \in DOMAIN interactions : interactions'[k].from = interactions[k].from
      /\ \A k \in DOMAIN interactions :
           interactions'[k] \in [from : R!ActorId, thread : Thread \cup {NoThread}]
      /\ command = "ingest" =>
           \A k \in DOMAIN interactions :
             interactions'[k].thread = IF W(k[1]) = {} THEN NoThread ELSE of[Max(W(k[1]))]
  <2>1. \A k \in DOMAIN interactions :
          /\ interactions[k] \in [from : R!ActorId, thread : Thread \cup {NoThread}]
          /\ interactions[k].thread = NoThread
          /\ W(k[1]) # {} => of[Max(W(k[1]))] \in Thread
    <3>1. \A k \in DOMAIN interactions : k[1] \in MailId
      BY <1>3, <1>5 DEF OnlyMail
    <3>. QED  BY <1>1, <1>14, <3>1 DEF Inv, Typed, TypeOK, Threaded
  <2>2. CASE command = "ingest"
    <3>1. interactions' = WithThreads(of)
      BY <1>2, <2>2
    <3>2. /\ DOMAIN interactions' = DOMAIN interactions
          /\ \A k \in DOMAIN interactions :
               interactions'[k] = IF W(k[1]) = {} THEN interactions[k]
                                  ELSE [interactions[k] EXCEPT !.thread = of[Max(W(k[1]))]]
      BY <3>1 DEF WithThreads, W
    <3>. QED  BY <2>1, <3>2
  <2>3. CASE command # "ingest"
    BY <1>2, <2>1, <2>3
  <2>. QED  BY <2>2, <2>3
<1>7. /\ thread' \in [Copy -> Thread \cup {NoThread}]
      /\ \A k \in 1..read : thread'[k] = of[k]
  <2>1. \A k \in Copy : k <= read => k \in 1..read
    BY <1>5 DEF Copy
  <2>2. \A k \in 1..read : k \in Copy /\ k <= read
    BY <1>5 DEF Copy
  <2>. QED  BY <1>2, <1>5, <2>1, <2>2
<1>8. /\ DOMAIN threads' \subseteq Thread
      /\ \A k \in 1..read : of[k] # NoThread =>
           /\ of[k] \in DOMAIN threads'
           /\ GetMessageID(inbox[k]) \in threads'[of[k]].messageIDs
  BY <1>2, <1>5 DEF ThreadOf
<1>9. Typed'
  <2>1. R!TypeOK'
    BY <1>1 DEF Inv, Typed, TypeOK, R!TypeOK
  <2>2. TypeOK'
    BY <1>1, <1>6, <1>7, <1>8, <2>1 DEF Inv, Typed, TypeOK
  <2>. QED  BY <1>1, <2>2 DEF Inv, Typed
<1>10. pc[Main] = "idle"
  BY <1>1 DEF Inv, Resolving
<1>11. Storing'
  <2>1. OnlyMail(interactions', Received, emailToActor, Fields)
    BY <1>3, <1>6 DEF OnlyMail
  <2>2. AllMail(interactions', Received, emailToActor, Fields, Waiting)
    BY <1>3, <1>6 DEF AllMail
  <2>. QED  BY <1>1, <1>3, <1>4, <1>10, <2>1, <2>2 DEF Storing
<1>12. Threaded'
  <2>1. SUFFICES ASSUME command = "ingest"
                 PROVE  ThreadsAgree(interactions', stored, inbox, thread', threads')
    BY <1>1 DEF Threaded
  <2>2. SUFFICES ASSUME NEW k \in DOMAIN interactions, NEW t, t = interactions'[k].thread
                 PROVE  LET given == Given(inbox, thread', k[1]) IN
                        /\ t = NoThread <=> given \subseteq {NoThread}
                        /\ thread'[stored[k[1]]] \in {t, NoThread}
                        /\ t # NoThread =>
                             /\ t \in given \cap DOMAIN threads'
                             /\ GetMessageID(k[1]) \in threads'[t].messageIDs
    BY <1>6 DEF ThreadsAgree
  <2>. DEFINE m == k[1]
              given == Given(inbox, thread', m)
  <2>3. m \in Received /\ m \in MailId
    BY <1>3, <1>5 DEF OnlyMail
  <2>4. stored[m] \in 1..read /\ inbox[stored[m]] = m
        /\ \A c \in 1..read : inbox[c] = m => c <= stored[m]
    BY <1>3, <2>3 DEF CopiesOnFile, Received, Arrived
  <2>5. t = IF W(m) = {} THEN NoThread ELSE of[Max(W(m))]
    BY <1>6, <2>1, <2>2
  <2>6. /\ \A c : c \in W(m) <=> c \in 1..read /\ inbox[c] = m /\ of[c] # NoThread
        /\ \A x : x \in given <=> \E c \in 1..read : inbox[c] = m /\ x = of[c]
    BY <1>5, <1>7 DEF W, WithThread, Given
  <2>7. thread'[stored[m]] = of[stored[m]]
    BY <1>7, <2>4
  <2>. HIDE DEF m, given
  <2>8. CASE W(m) = {}
    BY <2>4, <2>5, <2>6, <2>7, <2>8 DEF m, given
  <2>9. CASE W(m) # {}
    <3>1. /\ Max(W(m)) \in 1..read /\ inbox[Max(W(m))] = m /\ Max(W(m)) \in W(m)
          /\ of[Max(W(m))] # NoThread /\ \A c \in W(m) : c <= Max(W(m))
      BY <1>14, <2>3, <2>6, <2>9
    <3>2. t = of[Max(W(m))] /\ t # NoThread /\ t \in given
      BY <2>5, <2>6, <2>9, <3>1
    <3>3. of[stored[m]] \in {t, NoThread}
      <4>1. SUFFICES ASSUME of[stored[m]] # NoThread PROVE stored[m] = Max(W(m))
        BY <3>2
      <4>2. stored[m] <= Max(W(m)) /\ Max(W(m)) <= stored[m]
        BY <2>4, <2>6, <3>1, <4>1
      <4>. QED  BY <1>5, <2>4, <3>1, <4>2
    <3>4. t \in DOMAIN threads' /\ GetMessageID(m) \in threads'[t].messageIDs
      BY <1>8, <3>1, <3>2
    <3>. QED  BY <2>7, <3>2, <3>3, <3>4 DEF m, given
  <2>. QED  BY <2>8, <2>9
<1>13. Resolving' /\ Inventing' /\ Loading' /\ SessionGood'
  BY <1>1, SessionSame DEF Inv, Resolving, Inventing, Loading
<1>. QED  BY <1>9, <1>11, <1>12, <1>13 DEF Inv

LEMMA SaveInv == Inv /\ Save => Inv'
<1>. SUFFICES ASSUME Inv, Save PROVE Inv'
  OBVIOUS
<1>1. /\ phase = "done" /\ command = "ingest" /\ phase' = "exit"
      /\ session' \in {Snapshot, BrokenSession, session}
      /\ UNCHANGED <<actors, emailToActor, nextID, stats, pc, pending, answer, calls,
                     stored, interactions, thread, threads, command, roster, inbox, read,
                     todo, sender, runs>>
  BY DEF Save, resolver, store
<1>2. Typed'
  <2>1. R!TypeOK'
    BY <1>1 DEF Inv, Typed, TypeOK, R!TypeOK
  <2>2. session'.state \in {"absent", "broken", "saved"}
    BY <1>1 DEF Snapshot, BrokenSession, Inv, Typed, TypeOK
  <2>3. TypeOK'
    BY <1>1, <2>1, <2>2 DEF Inv, Typed, TypeOK
  <2>. QED  BY <1>1, <2>3 DEF Inv, Typed
<1>3. SessionGood'
  <2>1. CASE session' = BrokenSession
    BY <2>1 DEF SessionGood, BrokenSession
  <2>2. CASE session' = Snapshot
    <3>1. /\ session'.source = inbox /\ session'.stored = stored
          /\ session'.interactions = interactions /\ session'.thread = thread
          /\ session'.threads = threads /\ session'.actors = actors
          /\ session'.index = emailToActor
      BY <2>2 DEF Snapshot
    <3>2. /\ read = Len(inbox) /\ Waiting = {} /\ Fields = Field
          /\ Received = Arrived(inbox, Len(inbox))
      BY <1>1, ElementsOfNone DEF Inv, Storing, Threaded, Waiting, Fields, Received, Arrived
    <3>3. /\ CopiesOnFile(stored, inbox, Len(inbox))
          /\ OnlyMail(interactions, Arrived(inbox, Len(inbox)), emailToActor, Field)
          /\ AllMail(interactions, Arrived(inbox, Len(inbox)), emailToActor, Field, {})
      BY <1>1, <3>2 DEF Inv, Storing
    <3>4. ThreadsAgree(interactions, stored, inbox, thread, threads)
          /\ OneForEach(actors, emailToActor)
      BY <1>1 DEF Inv, Threaded, Inventing
    <3>5. /\ inbox \in SeqOf(MailId, MaxMail)
          /\ stored \in [MailId -> 0..MaxMail]
          /\ \A k \in DOMAIN interactions :
               /\ k \in MailId \X Field \X R!ActorId
               /\ interactions[k] \in [from : R!ActorId, thread : Thread \cup {NoThread}]
          /\ thread \in [Copy -> Thread \cup {NoThread}]
          /\ DOMAIN threads \subseteq Thread
      BY DEF Inv, Typed, TypeOK
    <3>6. DOMAIN actors \subseteq R!ActorId /\ emailToActor \in [Email -> R!ActorId \cup {R!NoId}]
      BY DEF Inv, Typed, TypeOK, R!TypeOK
    <3>. QED  BY <3>1, <3>3, <3>4, <3>5, <3>6 DEF SessionGood
  <2>3. CASE session' = session
    BY <2>3, SessionSame DEF Inv
  <2>. QED  BY <1>1, <2>1, <2>2, <2>3
<1>. QED  BY <1>1, <1>2, <1>3, OutOfPhase DEF Inv
-----------------------------------------------------------------------------
(***************************************************************************)
(* Steps of a command that loads the session.                              *)
(***************************************************************************)
LEMMA LoadSessionInv == Inv /\ LoadSession => Inv'
<1>. SUFFICES ASSUME Inv, LoadSession PROVE Inv'
  OBVIOUS
<1>1. /\ session.state = "saved" /\ command' = "analyze" /\ phase' = "loading" /\ NewResolver
      /\ roster' = Entries(session.actors) /\ stored' = session.stored
      /\ interactions' = session.interactions
      /\ thread' = [k \in Copy |-> IF k \in Range(session.stored) THEN session.thread[k]
                                                                  ELSE NoThread]
      /\ threads' = session.threads /\ inbox' = session.source
      /\ read' = Len(session.source) /\ todo' = <<>> /\ sender' = R!NoId
      /\ UNCHANGED <<session, runs>>
  BY DEF LoadSession
<1>2. /\ R!TypeOK' /\ pc'[Main] = "idle" /\ calls' = 0
      /\ DOMAIN actors' = {} /\ \A e \in Email : emailToActor'[e] = R!NoId
  BY <1>1, NewResolverEffect
<1>3. /\ session.source \in SeqOf(MailId, MaxMail)
      /\ session.stored \in [MailId -> 0..MaxMail]
      /\ \A k \in DOMAIN session.interactions :
           /\ k \in MailId \X Field \X R!ActorId
           /\ session.interactions[k] \in [from : R!ActorId, thread : Thread \cup {NoThread}]
      /\ session.thread \in [Copy -> Thread \cup {NoThread}]
      /\ DOMAIN session.threads \subseteq Thread
      /\ DOMAIN session.actors \subseteq R!ActorId
      /\ OneForEach(session.actors, session.index)
  BY <1>1 DEF Inv, SessionGood
<1>4. roster' \subseteq Entry
  <2>1. SUFFICES ASSUME NEW i \in DOMAIN session.actors
                 PROVE  [id |-> i, emails |-> session.actors[i].emails,
                         primary |-> session.actors[i].primary,
                         internal |-> session.actors[i].internal] \in Entry
    BY <1>1 DEF Entries
  <2>2. PICK e \in Email : session.actors[i] = Single(e)
    BY <1>3 DEF OneForEach
  <2>3. R!isInternalEmail(e) \in BOOLEAN
    BY DEF R!isInternalEmail
  <2>. QED  BY <1>3, <2>2, <2>3 DEF Single, Entry
<1>5. Typed'
  <2>1. Len(session.source) \in 0..Len(session.source)
    <3>1. MaxMail \in Nat
      BY BoundsAssumption
    <3>2. Len(session.source) \in Nat
      BY <1>3, <3>1, SeqOfIsSeq
    <3>. QED  BY <3>2
  <2>2. TypeOK'
    BY <1>1, <1>2, <1>3, <2>1 DEF Inv, Typed, TypeOK, Query
  <2>. QED  BY <1>2, <1>4, <2>2 DEF Typed
<1>6. Storing' /\ Resolving' /\ Inventing' /\ Threaded' /\ SessionGood'
  BY <1>1, <1>2, SessionSame DEF Inv, Storing, Resolving, Inventing, Threaded
<1>7. Loading'
  <2>1. ASSUME NEW i \in DOMAIN session.actors PROVE \E r \in roster' : r.id = i
    <3>. DEFINE r == [id |-> i, emails |-> session.actors[i].emails,
                      primary |-> session.actors[i].primary,
                      internal |-> session.actors[i].internal]
    <3>1. r \in roster' /\ r.id = i
      BY <1>1 DEF Entries
    <3>. HIDE DEF r
    <3>. QED  BY <3>1
  <2>. QED  BY <1>1, <1>2, <2>1 DEF Loading
<1>. QED  BY <1>5, <1>6, <1>7 DEF Inv

LEMMA ResolveMoreInv == ASSUME Inv, NEW addr \in Address, ResolveMore(addr) PROVE Inv'
<1>1. /\ phase = "loaded"
      /\ \/ R!Resolve(Main, addr) \/ R!LookUpHit(Main, addr) \/ R!LookUpMiss(Main, addr)
         \/ R!CountHit(Main) \/ R!JoinExisting(Main) \/ R!CreateActor(Main)
      /\ UNCHANGED <<stored, interactions, thread, threads, command, phase, roster, inbox,
                     read, todo, sender, session, runs>>
  BY DEF ResolveMore, store
<1>2. R!TypeOK /\ (pc[Main] = "create" => pending[Main] \in Email)
  BY DEF Inv, Typed, TypeOK
<1>3. /\ R!TypeOK' /\ (pc'[Main] = "create" => pending'[Main] \in Email)
      /\ Grows(emailToActor, emailToActor')
  <2>1. CASE R!CreateActor(Main)
    <3>1. /\ R!TypeOK' /\ pc'[Main] = "idle" /\ emailToActor[pending[Main]] = R!NoId
          /\ emailToActor' = [emailToActor EXCEPT ![pending[Main]] = <<"auto", nextID + 1>>]
      BY <1>2, <2>1, CreateEffect
    <3>2. emailToActor \in [Email -> R!ActorId \cup {R!NoId}]
      BY <1>2 DEF R!TypeOK
    <3>. QED  BY <3>1, <3>2 DEF Grows
  <2>2. CASE ~ R!CreateActor(Main)
    <3>1. /\ R!TypeOK' /\ (pc'[Main] = "create" => pending'[Main] \in Email)
          /\ UNCHANGED <<actors, emailToActor, nextID>>
      BY <1>1, <1>2, <2>2, CallEffect
    <3>. QED  BY <3>1 DEF Grows
  <2>. QED  BY <2>1, <2>2
<1>4. calls' # 0
  <2>1. calls \in Nat
    BY <1>2, ResolverAssumption DEF R!TypeOK
  <2>2. CASE R!Resolve(Main, addr) \/ R!LookUpHit(Main, addr) \/ R!LookUpMiss(Main, addr)
    BY <2>1, <2>2 DEF R!Resolve, R!LookUpHit, R!LookUpMiss, R!StartCall
  <2>3. CASE R!CountHit(Main) \/ R!JoinExisting(Main) \/ R!CreateActor(Main)
    <3>1. pc[Main] # "idle" /\ calls' = calls
      BY <2>3 DEF R!CountHit, R!JoinExisting, R!CreateActor
    <3>2. calls = 0 => pc[Main] = "idle"
      BY <1>1 DEF Inv, Loading
    <3>. QED  BY <3>1, <3>2
  <2>. QED  BY <1>1, <2>2, <2>3
<1>5. Typed'
  BY <1>1, <1>3 DEF Inv, Typed, TypeOK
<1>6. Storing' /\ Resolving' /\ Inventing' /\ Threaded' /\ SessionGood'
  BY <1>1, SessionSame DEF Inv, Storing, Resolving, Inventing, Threaded
<1>7. Loading'
  <2>1. \A e \in Email : session.index[e] # R!NoId => emailToActor'[e] = session.index[e]
    BY <1>1, <1>3 DEF Inv, Loading, Grows
  <2>. QED  BY <1>1, <1>4, <2>1 DEF Inv, Loading
<1>. QED  BY <1>5, <1>6, <1>7 DEF Inv

LEMMA StutterInv == Inv /\ UNCHANGED vars => Inv'
<1>. SUFFICES ASSUME Inv, UNCHANGED vars PROVE Inv'
  OBVIOUS
<1>1. UNCHANGED <<actors, emailToActor, nextID, stats, pc, pending, answer, calls,
                  stored, interactions, thread, threads, command, phase, roster, inbox,
                  read, todo, sender, session, runs>>
  BY DEF vars, resolver, store
<1>2. R!TypeOK'
  BY <1>1 DEF Inv, Typed, TypeOK, R!TypeOK
<1>3. TypeOK'
  BY <1>1, <1>2 DEF Inv, Typed, TypeOK
<1>4. Received' = Received /\ Waiting' = Waiting /\ Fields' = Fields
  BY <1>1 DEF Received, Waiting, Fields
<1>5. Typed' /\ Storing'
  BY <1>1, <1>3, <1>4 DEF Inv, Typed, Storing
<1>6. Resolving'
  BY <1>1, <1>4 DEF Inv, Resolving, Owner
<1>7. Inventing' /\ Threaded' /\ Loading' /\ SessionGood'
  BY <1>1, SessionSame DEF Inv, Inventing, Threaded, Loading
<1>. QED  BY <1>5, <1>6, <1>7 DEF Inv

LEMMA InvNext == Inv /\ [Next]_vars => Inv'
<1>. SUFFICES ASSUME Inv, [Next]_vars PROVE Inv'
  OBVIOUS
<1>1. ASSUME NEW cmd \in {"ingest", "pipeline"}, NEW box \in SeqOf(MailId, MaxMail),
             StartCommand(cmd, box)
      PROVE  Inv'
  BY <1>1, StartCommandInv
<1>2. ASSUME NEW r \in roster, LoadRosterEntry(r) PROVE Inv'
  BY <1>2, LoadRosterEntryInv
<1>3. CASE RosterLoaded
  BY <1>3, RosterLoadedInv
<1>4. CASE ReceiveMessage
  BY <1>4, ReceiveMessageInv
<1>5. CASE Ask
  BY <1>5, AskInv
<1>6. CASE Settle
  BY <1>6, SettleInv
<1>7. CASE StreamFails \/ PipelineEnds \/ QueryEnds \/ QueryWithoutLoading
  <2>1. command' \in {"ingest", "pipeline"} \cup Query
    BY <1>7 DEF StreamFails, PipelineEnds, QueryEnds, QueryWithoutLoading, Query,
                Inv, Typed, TypeOK
  <2>2. /\ phase' \in {"exit", "refused"}
        /\ UNCHANGED <<resolver, store, roster, inbox, read, todo, sender, session, runs>>
    BY <1>7 DEF StreamFails, PipelineEnds, QueryEnds, QueryWithoutLoading
  <2>. QED  BY <2>1, <2>2, EndsInv
<1>8. CASE Reconstruct
  BY <1>8, ReconstructInv
<1>9. CASE Save
  BY <1>9, SaveInv
<1>10. CASE LoadSession
  BY <1>10, LoadSessionInv
<1>11. ASSUME NEW addr \in Address, ResolveMore(addr) PROVE Inv'
  BY <1>11, ResolveMoreInv
<1>12. CASE UNCHANGED vars
  BY <1>12, StutterInv
<1>. QED  BY <1>1, <1>2, <1>3, <1>4, <1>5, <1>6, <1>7, <1>8, <1>9, <1>10, <1>11, <1>12
          DEF Next

LEMMA AlwaysInv == Spec => []Inv
  BY InvInit, InvNext, PTL DEF Spec
-----------------------------------------------------------------------------
(***************************************************************************)
(* What follows.                                                           *)
(***************************************************************************)
LEMMA KnownMail ==
  ASSUME NEW copies, NEW box, NEW n \in Nat, CopiesOnFile(copies, box, n),
         Arrived(box, n) \subseteq MailId
  PROVE  {m \in MailId : copies[m] # 0} = Arrived(box, n)
  BY DEF CopiesOnFile

LEMMA EdgesFromMail ==
  ASSUME NEW met \in SUBSET MailId, NEW fields \in SUBSET Field, FiledTyped(interactions),
         OnlyMail(interactions, met, emailToActor, fields),
         AllMail(interactions, met, emailToActor, fields, {})
  PROVE  /\ DOMAIN interactions = UNION {Edges(m, fields) : m \in met}
         /\ \A k \in DOMAIN interactions : interactions[k].from = Owner(Header[k[1]].from)
<1>1. ASSUME NEW k \in DOMAIN interactions
      PROVE  k \in UNION {Edges(m, fields) : m \in met}
  <2>1. k = <<k[1], k[2], k[3]>>
    BY DEF FiledTyped
  <2>2. /\ k[1] \in met /\ k[2] \in fields
        /\ \E a \in ToSet(Header[k[1]][k[2]]) : k[3] = Owner(a)
    BY DEF OnlyMail, Owner
  <2>3. k \in Edges(k[1], fields)
    BY <2>1, <2>2 DEF Edges
  <2>. QED  BY <2>2, <2>3
<1>2. ASSUME NEW m \in met, NEW k \in Edges(m, fields) PROVE k \in DOMAIN interactions
  <2>1. PICK f \in fields : k \in {<<m, f, Owner(a)>> : a \in ToSet(Header[m][f])}
    BY <1>2 DEF Edges
  <2>2. PICK a \in ToSet(Header[m][f]) : k = <<m, f, Owner(a)>>
    BY <2>1
  <2>. QED  BY <2>2 DEF AllMail, Owner
<1>3. \A k \in DOMAIN interactions : interactions[k].from = Owner(Header[k[1]].from)
  BY DEF OnlyMail, Owner
<1>. QED  BY <1>1, <1>2, <1>3

(***************************************************************************)
(* Whatever commands ran before, between two messages and after a reload   *)
(* the store's interactions are exactly those the stored messages say      *)
(* under the resolver's map (cmd/commgraph/ingest.go, session/loader.go).  *)
(***************************************************************************)
THEOREM InteractionsMirrorMail == Spec => []EdgesMatchMail
<1>1. Inv => EdgesMatchMail
  <2>. SUFFICES ASSUME Inv, phase \in {"reading", "done", "loaded"}, todo = <<>>
                PROVE  LET fields == IF command = "pipeline" THEN {"to", "cc"} ELSE Field
                           known == {m \in MailId : stored[m] # 0}
                       IN  /\ DOMAIN interactions = UNION {Edges(m, fields) : m \in known}
                           /\ \A k \in DOMAIN interactions :
                                interactions[k].from = Owner(Header[k[1]].from)
    BY DEF EdgesMatchMail
  <2>1. FiledTyped(interactions)
    BY DEF Inv, Typed, TypeOK, FiledTyped
  <2>2. /\ CopiesOnFile(stored, inbox, read)
        /\ OnlyMail(interactions, Arrived(inbox, read), emailToActor, Fields)
        /\ AllMail(interactions, Arrived(inbox, read), emailToActor, Fields, {})
    <3>1. CASE phase \in {"reading", "done"}
      <4>1. Received = Arrived(inbox, read) /\ Waiting = {}
        BY ElementsOfNone DEF Received, Arrived, Waiting
      <4>. QED  BY <3>1, <4>1 DEF Inv, Storing
    <3>2. CASE phase = "loaded"
      <4>1. /\ session.state = "saved" /\ command = "analyze" /\ Fields = Field
            /\ inbox = session.source /\ read = Len(session.source)
            /\ stored = session.stored /\ interactions = session.interactions
            /\ Grows(session.index, emailToActor)
        BY <3>2 DEF Inv, Loading, Fields, Grows
      <4>2. /\ CopiesOnFile(stored, inbox, read)
            /\ OnlyMail(interactions, Arrived(inbox, read), session.index, Field)
            /\ AllMail(interactions, Arrived(inbox, read), session.index, Field, {})
        BY <4>1 DEF Inv, SessionGood
      <4>3. Arrived(inbox, read) \in SUBSET MailId
        BY <4>1, InboxTyped DEF Inv, Arrived
      <4>. QED  BY <2>1, <4>1, <4>2, <4>3, OnlyMailGrows, AllMailGrows
    <3>. QED  BY <3>1, <3>2
  <2>3. Arrived(inbox, read) \in SUBSET MailId /\ read \in Nat
    <3>1. \A k \in 1..read : k \in 1..Len(inbox)
      BY InboxTyped DEF Inv
    <3>. QED  BY <3>1, InboxTyped DEF Inv, Arrived
  <2>4. {m \in MailId : stored[m] # 0} = Arrived(inbox, read)
    BY <2>2, <2>3, KnownMail
  <2>5. Fields = IF command = "pipeline" THEN {"to", "cc"} ELSE Field
    BY DEF Fields
  <2>. DEFINE met == Arrived(inbox, read)
              known == {m \in MailId : stored[m] # 0}
              fields == IF command = "pipeline" THEN {"to", "cc"} ELSE Field
  <2>6. /\ DOMAIN interactions = UNION {Edges(m, fields) : m \in met}
        /\ \A k \in DOMAIN interactions : interactions[k].from = Owner(Header[k[1]].from)
    <3>1. met \in SUBSET MailId /\ fields \in SUBSET Field
      BY <2>3, <2>5, FieldsAreFields
    <3>2. /\ OnlyMail(interactions, met, emailToActor, fields)
          /\ AllMail(interactions, met, emailToActor, fields, {})
      BY <2>2, <2>5
    <3>. HIDE DEF met, fields
    <3>. QED  BY <2>1, <3>1, <3>2, EdgesFromMail
  <2>7. known = met
    BY <2>4
  <2>. HIDE DEF met
  <2>. QED  BY <2>6, <2>7
<1>. QED  BY <1>1, AlwaysInv, PTL

(***************************************************************************)
(* A reloaded session answers as the resolver that was saved, though the   *)
(* index is rebuilt from the actors one by one and in any order            *)
(* (identity/scim.go LoadActor, session/loader.go LoadIntoStore).          *)
(***************************************************************************)
THEOREM LoadersRebuildTheIndex == Spec => []ReloadRestores
<1>1. Inv => ReloadRestores
  <2>. SUFFICES ASSUME Inv, phase = "loaded", calls = 0, NEW e \in Email,
                       session.index[e] # R!NoId
                PROVE  /\ emailToActor[e] = session.index[e]
                       /\ R!IsInternal(e) = R!isInternalEmail(e)
    BY DEF ReloadRestores
  <2>1. /\ emailToActor[e] = session.index[e] /\ session.state = "saved"
        /\ \A i \in DOMAIN session.actors : i \in DOMAIN actors /\ actors[i] = session.actors[i]
    BY DEF Inv, Loading
  <2>2. session.index[e] \in DOMAIN session.actors
        /\ session.actors[session.index[e]] = Single(e)
    BY <2>1 DEF Inv, SessionGood, OneForEach
  <2>3. emailToActor[e] \in DOMAIN actors /\ actors[emailToActor[e]] = Single(e)
    BY <2>1, <2>2
  <2>. QED  BY <2>1, <2>3 DEF R!IsInternal, Single
<1>. QED  BY <1>1, AlwaysInv, PTL

(***************************************************************************)
(* An interaction of a saved session names none but a thread that a copy   *)
(* of its message was given, is on file and lists the message under the ID *)
(* threads go by; it names one if any copy has one, and the stored copy's  *)
(* if that has one.  So whichever copies the threading library left        *)
(* without a thread or put into different ones, and however many arrived.  *)
(***************************************************************************)
THEOREM ThreadsHangTogether == Spec => []SavedThreadsAgree
<1>1. Inv => SavedThreadsAgree
  BY DEF Inv, SessionGood, ThreadsAgree, Given, SavedThreadsAgree
<1>. QED  BY <1>1, AlwaysInv, PTL

(***************************************************************************)
(* No order of commands, failures of the stream and broken saves leaves a  *)
(* session that holds a part of its source only.                           *)
(***************************************************************************)
THEOREM SessionsAreWhole == Spec => []NoPartialSession
<1>1. Inv => NoPartialSession
  <2>. SUFFICES ASSUME Inv, session.state = "saved"
                PROVE  {m \in MailId : session.stored[m] # 0} = ToSet(session.source)
    BY DEF Inv, Typed, NoPartialSession
  <2>. DEFINE box == session.source
              n == Len(box)
  <2>1. box \in Seq(MailId) /\ n \in Nat
    <3>1. MaxMail \in Nat
      BY BoundsAssumption
    <3>. QED  BY <3>1, SeqOfIsSeq DEF Inv, SessionGood
  <2>2. CopiesOnFile(session.stored, box, n)
    BY DEF Inv, SessionGood
  <2>3. Arrived(box, n) = ToSet(box) /\ ToSet(box) \subseteq MailId
    <3>1. \A x : x \in ToSet(box) <=> \E i \in 1..n : box[i] = x
      BY <2>1, ElementIndex
    <3>2. ToSet(box) \subseteq MailId
      BY <2>1, ElementIndex
    <3>. QED  BY <3>1, <3>2 DEF Arrived
  <2>. HIDE DEF n
  <2>. QED  BY <2>1, <2>2, <2>3, KnownMail
<1>. QED  BY <1>1, AlwaysInv, PTL
=============================================================================
