---------------------------- MODULE SCIMResolver ----------------------------
(***************************************************************************)
(* identity/scim.go: the resolver that maps e-mail addresses to actors.    *)
(*                                                                         *)
(* Every exported method runs under r.mu, so each critical section is one  *)
(* action.  ResolveOrCreate has two of them: it looks the address up under *)
(* the read lock, lets go, and takes the write lock to create.  Anything   *)
(* can happen in between, and the hit counter of the fast path is bumped   *)
(* after the read lock is gone; those are separate actions here.           *)
(*                                                                         *)
(* An address in the code is a string in any spelling; a mailbox (Email)   *)
(* is what normalizeEmail makes of it.  Actor IDs are pairs: "auto_7" is   *)
(* <<"auto", 7>>, an ID of the loaded directory is <<"user", name>>.       *)
(***************************************************************************)
EXTENDS Integers, FiniteSets

CONSTANTS
  Caller,         \* goroutines calling Resolve and ResolveOrCreate
  Address,        \* spellings of addresses, as callers pass them
  Email,          \* mailboxes: addresses in normal form
  Normal,         \* the mailbox a spelling denotes
  InternalEmail,  \* mailboxes in one of config.InternalDomains
  UserName,       \* names that make up the directory's actor IDs
  Roster,         \* actors that LoadActor may be called with
  MaxCalls        \* bound on the calls of one behaviour

NoEmail == "none"
NoId == <<"none", 0>>
AutoId == {"auto"} \X Nat
DirectoryId == {"user"} \X UserName
ActorId == AutoId \cup DirectoryId

Actor == [emails : SUBSET Email, primary : Email \cup {NoEmail}, internal : BOOLEAN]
RosterEntry == [id : DirectoryId, emails : SUBSET Email,
                primary : Email \cup {NoEmail}, internal : BOOLEAN]

ASSUME EmailAssumption == IsFiniteSet(Email)
ASSUME NormalAssumption == Normal \in [Address -> Email]
ASSUME InternalAssumption == InternalEmail \subseteq Email
ASSUME NoEmailAssumption == NoEmail \notin Email
ASSUME RosterAssumption == Roster \subseteq RosterEntry
ASSUME MaxCallsAssumption == MaxCalls \in Nat

VARIABLES
  actors,        \* r.actors: a function on the IDs in use
  emailToActor,  \* r.emailToActor: mailbox -> ID, NoId where the map has no key
  nextID,        \* r.nextID
  stats,         \* r.stats
  pc,            \* where each caller is in ResolveOrCreate
  pending,       \* the mailbox a caller found nobody for
  answer,        \* the last answer each caller got
  calls          \* calls started so far

vars == <<actors, emailToActor, nextID, stats, pc, pending, answer, calls>>

Counter == {"total", "internal", "external", "aliases", "hits", "misses", "auto"}

TypeOK ==
  /\ DOMAIN actors \subseteq ActorId
  /\ \A i \in DOMAIN actors : actors[i] \in Actor
  /\ emailToActor \in [Email -> ActorId \cup {NoId}]
  /\ nextID \in Nat
  /\ stats \in [Counter -> Nat]
  /\ pc \in [Caller -> {"idle", "hit", "create"}]
  /\ pending \in [Caller -> Email \cup {NoEmail}]
  /\ answer \in [Caller -> [email : Email \cup {NoEmail}, id : ActorId \cup {NoId}]]
  /\ calls \in 0..MaxCalls
-----------------------------------------------------------------------------
Init ==
  /\ actors = [i \in {} |-> [emails |-> {}, primary |-> NoEmail, internal |-> FALSE]]
  /\ emailToActor = [e \in Email |-> NoId]
  /\ nextID = 0
  /\ stats = [k \in Counter |-> 0]
  /\ pc = [c \in Caller |-> "idle"]
  /\ pending = [c \in Caller |-> NoEmail]
  /\ answer = [c \in Caller |-> [email |-> NoEmail, id |-> NoId]]
  /\ calls = 0

normalizeEmail(addr) == Normal[addr]
isInternalEmail(e) == e \in InternalEmail

IsInternal(e) ==
  IF emailToActor[e] \in DOMAIN actors
  THEN actors[emailToActor[e]].internal
  ELSE isInternalEmail(e)

\* Everything an actor is reachable under when it is first stored.
Mailboxes(a) == a.emails \cup ({a.primary} \ {NoEmail})

WithActor(i, a) ==
  [j \in DOMAIN actors \cup {i} |-> IF j = i THEN a ELSE actors[j]]

Tell(c, e, i) == answer' = [answer EXCEPT ![c] = [email |-> e, id |-> i]]

StartCall(c) ==
  /\ pc[c] = "idle"
  /\ calls < MaxCalls
  /\ calls' = calls + 1

Side(internal) == IF internal THEN "internal" ELSE "external"
-----------------------------------------------------------------------------
(***************************************************************************)
(* Loading a directory entry whose ID is new, and merging one whose ID is  *)
(* known: only mailboxes new to that actor are taken over, and only they   *)
(* count as aliases.                                                       *)
(***************************************************************************)
LoadNewActor(r) ==
  /\ r.id \notin DOMAIN actors
  /\ actors' = WithActor(r.id, [emails |-> r.emails, primary |-> r.primary,
                                internal |-> r.internal])
  /\ emailToActor' = [e \in Email |->
                        IF e \in Mailboxes(r) THEN r.id ELSE emailToActor[e]]
  /\ stats' = [stats EXCEPT !["total"] = @ + 1,
                            !["aliases"] = @ + Cardinality(r.emails),
                            ![Side(r.internal)] = @ + 1]

\* Fault: the merged entry's new mailboxes are filed but not indexed.
MergeUnindexed(r) ==
  LET new == r.emails \ actors[r.id].emails IN
  /\ r.id \in DOMAIN actors
  /\ actors' = WithActor(r.id, [actors[r.id] EXCEPT !.emails = @ \cup new])
  /\ stats' = [stats EXCEPT !["aliases"] = @ + Cardinality(new)]
  /\ UNCHANGED emailToActor

\* Fault: the merged entry replaces the list of addresses.
MergeReplacing(r) ==
  /\ r.id \in DOMAIN actors
  /\ actors' = WithActor(r.id, [actors[r.id] EXCEPT !.emails = r.emails])
  /\ emailToActor' = [e \in Email |-> IF e \in r.emails THEN r.id ELSE emailToActor[e]]
  /\ UNCHANGED stats

\* Fault: every address of the merged entry counts as a new alias.
MergeCountingAll(r) ==
  LET new == r.emails \ actors[r.id].emails IN
  /\ r.id \in DOMAIN actors
  /\ actors' = WithActor(r.id, [actors[r.id] EXCEPT !.emails = @ \cup new])
  /\ emailToActor' = [e \in Email |-> IF e \in new THEN r.id ELSE emailToActor[e]]
  /\ stats' = [stats EXCEPT !["aliases"] = @ + Cardinality(r.emails)]

MergeActor(r) ==
  LET new == r.emails \ actors[r.id].emails IN
  /\ r.id \in DOMAIN actors
  /\ actors' = WithActor(r.id, [actors[r.id] EXCEPT !.emails = @ \cup new])
  /\ emailToActor' = [e \in Email |-> IF e \in new THEN r.id ELSE emailToActor[e]]
  /\ stats' = [stats EXCEPT !["aliases"] = @ + Cardinality(new)]

LoadActor(r) ==
  /\ LoadNewActor(r) \/ MergeActor(r)
  /\ UNCHANGED <<nextID, pc, pending, answer, calls>>

Resolve(c, addr) ==
  LET e == normalizeEmail(addr) IN
  /\ StartCall(c)
  /\ Tell(c, e, emailToActor[e])
  /\ stats' = IF emailToActor[e] # NoId THEN [stats EXCEPT !["hits"] = @ + 1]
                                        ELSE [stats EXCEPT !["misses"] = @ + 1]
  /\ UNCHANGED <<actors, emailToActor, nextID, pc, pending>>

(***************************************************************************)
(* ResolveOrCreate, first critical section: the read-only attempt.         *)
(***************************************************************************)
LookUpHit(c, addr) ==
  LET e == normalizeEmail(addr) IN
  /\ StartCall(c)
  /\ emailToActor[e] # NoId
  /\ Tell(c, e, emailToActor[e])
  /\ pc' = [pc EXCEPT ![c] = "hit"]
  /\ UNCHANGED <<actors, emailToActor, nextID, stats, pending>>

LookUpMiss(c, addr) ==
  LET e == normalizeEmail(addr) IN
  /\ StartCall(c)
  /\ emailToActor[e] = NoId
  /\ pending' = [pending EXCEPT ![c] = e]
  /\ pc' = [pc EXCEPT ![c] = "create"]
  /\ UNCHANGED <<actors, emailToActor, nextID, stats, answer>>

CountHit(c) ==
  /\ pc[c] = "hit"
  /\ stats' = [stats EXCEPT !["hits"] = @ + 1]
  /\ pc' = [pc EXCEPT ![c] = "idle"]
  /\ UNCHANGED <<actors, emailToActor, nextID, pending, answer, calls>>

(***************************************************************************)
(* Second critical section: look again under the write lock, then create.  *)
(***************************************************************************)
Finish(c) ==
  /\ pc' = [pc EXCEPT ![c] = "idle"]
  /\ pending' = [pending EXCEPT ![c] = NoEmail]

\* Fault: the write section trusts the miss seen under the read lock.
NoRecheck(e) == NoId

Recheck(e) == emailToActor[e]

JoinExisting(c) ==
  LET e == pending[c] IN
  /\ pc[c] = "create"
  /\ Recheck(e) # NoId
  /\ Tell(c, e, Recheck(e))
  /\ stats' = [stats EXCEPT !["hits"] = @ + 1]
  /\ Finish(c)
  /\ UNCHANGED <<actors, emailToActor, nextID, calls>>

generateID == <<"auto", nextID + 1>>

CreateActor(c) ==
  LET e == pending[c]
      id == generateID
      internal == isInternalEmail(e)
  IN
  /\ pc[c] = "create"
  /\ Recheck(e) = NoId
  /\ nextID' = nextID + 1
  /\ actors' = WithActor(id, [emails |-> {e}, primary |-> e, internal |-> internal])
  /\ emailToActor' = [emailToActor EXCEPT ![e] = id]
  /\ stats' = [stats EXCEPT !["total"] = @ + 1, !["aliases"] = @ + 1,
                            !["auto"] = @ + 1, ![Side(internal)] = @ + 1]
  /\ Tell(c, e, id)
  /\ Finish(c)
  /\ UNCHANGED calls
-----------------------------------------------------------------------------
Next ==
  \/ \E r \in Roster : LoadActor(r)
  \/ \E c \in Caller :
       \/ \E addr \in Address :
            Resolve(c, addr) \/ LookUpHit(c, addr) \/ LookUpMiss(c, addr)
       \/ CountHit(c)
       \/ JoinExisting(c)
       \/ CreateActor(c)

Spec == Init /\ [][Next]_vars
-----------------------------------------------------------------------------
AutoActors == {i \in DOMAIN actors : i \in AutoId}

(***************************************************************************)
(* The two maps agree: an indexed mailbox leads to an actor on file that   *)
(* lists it, and a mailbox on file is never a stranger to the index, even  *)
(* after merges and after another person's entry took the mailbox over.    *)
(***************************************************************************)
IndexConsistent ==
  /\ \A e \in Email : emailToActor[e] # NoId =>
       /\ emailToActor[e] \in DOMAIN actors
       /\ e \in Mailboxes(actors[emailToActor[e]])
  /\ \A i \in DOMAIN actors : \A e \in Mailboxes(actors[i]) : emailToActor[e] # NoId

(***************************************************************************)
(* Racing callers agree: two callers who were both given invented          *)
(* identities for one mailbox were given the same one, and one invented    *)
(* identity never stands for two mailboxes.                                *)
(***************************************************************************)
CallersAgree ==
  \A c, d \in Caller :
    answer[c].id \in AutoId /\ answer[d].id \in AutoId =>
      (answer[c].email = answer[d].email <=> answer[c].id = answer[d].id)

(***************************************************************************)
(* An answer stays good after the lock is gone: whatever happened since,   *)
(* the identity a caller holds names an actor on file that lists the       *)
(* mailbox the caller asked about.                                         *)
(***************************************************************************)
AnswersStayTrue ==
  \A c \in Caller : answer[c].id # NoId =>
    /\ answer[c].id \in DOMAIN actors
    /\ answer[c].email \in Mailboxes(actors[answer[c].id])

(***************************************************************************)
(* The gauges of Stats() describe the map: actors, their split, the number *)
(* of addresses on file and the number of invented actors.  Every call is  *)
(* counted exactly once, as a hit, a miss or a creation, though the        *)
(* counters are bumped at four places and one is outside the lock.         *)
(***************************************************************************)
StatsConsistent ==
  /\ TypeOK
  /\ stats["total"] = Cardinality(DOMAIN actors)
  /\ stats["internal"] = Cardinality({i \in DOMAIN actors : actors[i].internal})
  /\ stats["external"] = stats["total"] - stats["internal"]
  /\ stats["aliases"] = Cardinality({p \in (DOMAIN actors) \X Email :
                                    p[2] \in actors[p[1]].emails})
  /\ stats["auto"] = Cardinality(AutoActors)
  /\ stats["hits"] + stats["misses"] + stats["auto"]
       + Cardinality({c \in Caller : pc[c] # "idle"}) = calls

(***************************************************************************)
(* A mailbox that resolves keeps its owner until a directory entry claims  *)
(* it; resolving never moves it to an invented identity.                   *)
(***************************************************************************)
NeverRebindToAuto ==
  [][\A e \in Email :
       emailToActor[e] # NoId /\ emailToActor'[e] # emailToActor[e] =>
         emailToActor'[e] \in DirectoryId]_vars

(***************************************************************************)
(* Nothing on file is lost or overwritten: an actor stays, keeps its       *)
(* addresses and its internal flag.                                        *)
(***************************************************************************)
ActorsOnlyGrow ==
  [][\A i \in DOMAIN actors :
       /\ i \in DOMAIN actors'
       /\ actors[i].emails \subseteq actors'[i].emails
       /\ actors[i].internal = actors'[i].internal]_vars

(***************************************************************************)
(* Every call looks as if it ran alone: the split critical sections of     *)
(* ResolveOrCreate implement the atomic map of module IdentityMap.         *)
(***************************************************************************)
Atomic == INSTANCE IdentityMap WITH
  owner <- emailToActor, ids <- DOMAIN actors, None <- NoId
Linearizable == Atomic!Spec
=============================================================================
