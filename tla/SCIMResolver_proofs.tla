------------------------- MODULE SCIMResolver_proofs -------------------------
(***************************************************************************)
(* Machine-checked facts about SCIMResolver, for every set of callers,     *)
(* mailboxes, spellings and directory entries.                             *)
(***************************************************************************)
EXTENDS SCIMResolver, FiniteSetTheorems, TLAPS

(***************************************************************************)
(* TypeOK is inductive once a caller in the second critical section is     *)
(* known to hold a mailbox.                                                *)
(***************************************************************************)
PendingOK == \A c \in Caller : pc[c] = "create" => pending[c] \in Email

Typed == TypeOK /\ PendingOK

LEMMA WithActorTyped ==
  ASSUME NEW i \in ActorId, NEW a \in Actor, TypeOK
  PROVE  /\ DOMAIN WithActor(i, a) = DOMAIN actors \cup {i}
         /\ DOMAIN WithActor(i, a) \subseteq ActorId
         /\ \A j \in DOMAIN WithActor(i, a) : WithActor(i, a)[j] \in Actor
         /\ WithActor(i, a)[i] = a
         /\ \A j \in DOMAIN actors : j # i => WithActor(i, a)[j] = actors[j]
  BY DEF WithActor, TypeOK

LEMMA RosterTyped ==
  ASSUME NEW r \in Roster
  PROVE  /\ r \in RosterEntry
         /\ r.id \in DirectoryId
         /\ r.id \in ActorId
         /\ r.emails \subseteq Email
         /\ r.primary \in Email \cup {NoEmail}
         /\ r.internal \in BOOLEAN
  BY RosterAssumption DEF RosterEntry, ActorId

LEMMA EmailsAddedTyped ==
  ASSUME NEW a \in Actor, NEW S \in SUBSET Email
  PROVE  /\ [a EXCEPT !.emails = @ \cup S] \in Actor
         /\ [a EXCEPT !.emails = @ \cup S].emails = a.emails \cup S
         /\ [a EXCEPT !.emails = @ \cup S].primary = a.primary
         /\ [a EXCEPT !.emails = @ \cup S].internal = a.internal
  BY DEF Actor

LEMMA CardinalityOfMailboxes ==
  ASSUME IsFiniteSet(Email), NEW S \in SUBSET Email
  PROVE  Cardinality(S) \in Nat
  BY FS_Subset, FS_CardinalityType

(***************************************************************************)
(* Type correctness of the resolver, in every behaviour of Spec.           *)
(***************************************************************************)
LEMMA TypedInit == Init => Typed
  BY MaxCallsAssumption
     DEF Init, Typed, TypeOK, PendingOK, Counter, Actor, AutoId, ActorId

LEMMA LoadTyped ==
  ASSUME Typed, NEW r \in Roster, LoadActor(r)
  PROVE  Typed'
<1>. USE DEF Typed, PendingOK
<1>1. UNCHANGED <<nextID, pc, pending, answer, calls>>
  BY DEF LoadActor
<1>2. CASE LoadNewActor(r)
  <2>. DEFINE a == [emails |-> r.emails, primary |-> r.primary, internal |-> r.internal]
  <2>1. a \in Actor /\ r.id \in ActorId /\ r.internal \in BOOLEAN
        /\ Cardinality(r.emails) \in Nat
    BY RosterTyped, CardinalityOfMailboxes, EmailAssumption DEF Actor
  <2>2. actors' = WithActor(r.id, a)
    BY <1>2 DEF LoadNewActor
  <2>3. DOMAIN actors' \subseteq ActorId /\ \A j \in DOMAIN actors' : actors'[j] \in Actor
    BY <2>1, <2>2, WithActorTyped
  <2>4. emailToActor' \in [Email -> ActorId \cup {NoId}]
    BY <1>2, <2>1 DEF LoadNewActor, TypeOK
  <2>5. stats' \in [Counter -> Nat]
    BY <1>2, <2>1 DEF LoadNewActor, TypeOK, Counter, Side
  <2>. QED  BY <1>1, <2>3, <2>4, <2>5 DEF TypeOK
<1>3. CASE MergeActor(r)
  <2>. DEFINE new == r.emails \ actors[r.id].emails
              a == [actors[r.id] EXCEPT !.emails = @ \cup new]
  <2>1. r.id \in DOMAIN actors /\ actors[r.id] \in Actor
    BY <1>3 DEF MergeActor, TypeOK
  <2>2. /\ r.id \in ActorId
        /\ new \in SUBSET Email
        /\ Cardinality(new) \in Nat
        /\ a \in Actor
    <3>1. r.id \in ActorId /\ new \in SUBSET Email
      BY RosterTyped
    <3>2. Cardinality(new) \in Nat
      BY <3>1, CardinalityOfMailboxes, EmailAssumption
    <3>3. a \in Actor
      BY <2>1, <3>1, EmailsAddedTyped
    <3>. QED  BY <3>1, <3>2, <3>3
  <2>3. actors' = WithActor(r.id, a)
    BY <1>3 DEF MergeActor
  <2>4. DOMAIN actors' \subseteq ActorId /\ \A j \in DOMAIN actors' : actors'[j] \in Actor
    <3>. HIDE DEF a, new
    <3>. QED  BY <2>2, <2>3, WithActorTyped
  <2>5. emailToActor' \in [Email -> ActorId \cup {NoId}]
    BY <1>3, <2>2 DEF MergeActor, TypeOK
  <2>6. stats' \in [Counter -> Nat]
    BY <1>3, <2>2 DEF MergeActor, TypeOK, Counter
  <2>. QED  BY <1>1, <2>4, <2>5, <2>6 DEF TypeOK
<1>. QED  BY <1>2, <1>3 DEF LoadActor

LEMMA CreateTyped ==
  ASSUME Typed, NEW c \in Caller, CreateActor(c)
  PROVE  Typed'
<1>. DEFINE e == pending[c]
            a == [emails |-> {e}, primary |-> e, internal |-> isInternalEmail(e)]
<1>1. e \in Email /\ generateID \in AutoId /\ generateID \in ActorId
  BY DEF Typed, TypeOK, PendingOK, CreateActor, generateID, AutoId, ActorId
<1>2. a \in Actor /\ isInternalEmail(e) \in BOOLEAN
  BY <1>1 DEF Actor, isInternalEmail
<1>3. DOMAIN actors' \subseteq ActorId /\ \A j \in DOMAIN actors' : actors'[j] \in Actor
  <2>1. actors' = WithActor(generateID, a)
    BY DEF CreateActor
  <2>. QED  BY <1>1, <1>2, <2>1, WithActorTyped DEF Typed
<1>4. emailToActor' \in [Email -> ActorId \cup {NoId}] /\ nextID' \in Nat
  BY <1>1 DEF CreateActor, Typed, TypeOK
<1>5. stats' \in [Counter -> Nat]
  BY DEF CreateActor, Typed, TypeOK, Counter, Side
<1>6. /\ pc' \in [Caller -> {"idle", "hit", "create"}]
      /\ pending' \in [Caller -> Email \cup {NoEmail}]
      /\ PendingOK'
      /\ answer' \in [Caller -> [email : Email \cup {NoEmail}, id : ActorId \cup {NoId}]]
      /\ calls' \in 0..MaxCalls
  BY <1>1 DEF CreateActor, Finish, Tell, Typed, TypeOK, PendingOK
<1>. QED  BY <1>3, <1>4, <1>5, <1>6 DEF Typed, TypeOK

LEMMA CallTyped ==
  ASSUME Typed, NEW c \in Caller,
         \/ \E addr \in Address :
              Resolve(c, addr) \/ LookUpHit(c, addr) \/ LookUpMiss(c, addr)
         \/ CountHit(c)
         \/ JoinExisting(c)
  PROVE  Typed'
<1>. USE DEF Typed, PendingOK
<1>1. ASSUME NEW addr \in Address,
             Resolve(c, addr) \/ LookUpHit(c, addr) \/ LookUpMiss(c, addr)
      PROVE  Typed'
  <2>1. Normal[addr] \in Email
    BY NormalAssumption
  <2>2. calls' \in 0..MaxCalls
    BY <1>1, MaxCallsAssumption DEF Resolve, LookUpHit, LookUpMiss, StartCall, TypeOK
  <2>3. CASE Resolve(c, addr)
    BY <2>1, <2>2, <2>3 DEF Resolve, Tell, normalizeEmail, TypeOK, Counter
  <2>4. CASE LookUpHit(c, addr)
    BY <2>1, <2>2, <2>4 DEF LookUpHit, Tell, normalizeEmail, TypeOK
  <2>5. CASE LookUpMiss(c, addr)
    BY <2>1, <2>2, <2>5 DEF LookUpMiss, normalizeEmail, TypeOK
  <2>. QED  BY <1>1, <2>3, <2>4, <2>5
<1>2. CASE CountHit(c)
  BY <1>2 DEF CountHit, TypeOK, Counter
<1>3. CASE JoinExisting(c)
  BY <1>3 DEF JoinExisting, Recheck, Finish, Tell, TypeOK, Counter
<1>. QED  BY <1>1, <1>2, <1>3

LEMMA TypedNext == Typed /\ [Next]_vars => Typed'
<1>. SUFFICES ASSUME Typed, [Next]_vars PROVE Typed'
  OBVIOUS
<1>1. CASE Next
  BY <1>1, LoadTyped, CreateTyped, CallTyped DEF Next
<1>2. CASE UNCHANGED vars
  BY <1>2 DEF vars, Typed, TypeOK, PendingOK
<1>. QED  BY <1>1, <1>2

THEOREM TypeCorrect == Spec => []TypeOK
<1>1. Typed => TypeOK
  BY DEF Typed
<1>. QED  BY <1>1, TypedInit, TypedNext, PTL DEF Spec
-----------------------------------------------------------------------------
(***************************************************************************)
(* The inductive invariant.  IndexConsistent and AnswersStayTrue are not   *)
(* inductive alone: that a created actor does not replace another needs    *)
(* the counter to be ahead of every invented ID (Fresh), and that racing   *)
(* callers agree needs every invented actor to own one mailbox that no     *)
(* other invented actor has (OneOwner).                                    *)
(***************************************************************************)
Fresh == \A i \in DOMAIN actors : i \in AutoId => i[2] <= nextID

OneOwner ==
  /\ \A i \in AutoActors : \E e \in Email : Mailboxes(actors[i]) = {e}
  /\ \A i, j \in AutoActors :
       Mailboxes(actors[i]) \cap Mailboxes(actors[j]) # {} => i = j

Inv == Typed /\ IndexConsistent /\ AnswersStayTrue /\ Fresh /\ OneOwner

LEMMA IdKinds ==
  /\ NoId \notin ActorId
  /\ \A i \in DirectoryId : i \notin AutoId
  /\ \A n \in Nat : <<"auto", n>> \in AutoId /\ <<"auto", n>>[2] = n
  BY DEF NoId, ActorId, DirectoryId, AutoId

LEMMA MailboxesTyped ==
  ASSUME NEW a \in Actor
  PROVE  Mailboxes(a) \subseteq Email
  BY DEF Actor, Mailboxes

(***************************************************************************)
(* What loading an entry does to the two maps, whether it is new or is     *)
(* merged: some mailboxes S move to the entry's ID, and the actor filed    *)
(* under it lists S on top of what it listed before.                       *)
(***************************************************************************)
LoadsAs(r, a, S) ==
  /\ actors' = WithActor(r.id, a)
  /\ emailToActor' = [e \in Email |-> IF e \in S THEN r.id ELSE emailToActor[e]]
  /\ r.id \notin DOMAIN actors => Mailboxes(a) = S
  /\ r.id \in DOMAIN actors =>
       /\ Mailboxes(a) = Mailboxes(actors[r.id]) \cup S
       /\ a.emails = actors[r.id].emails \cup S
       /\ a.internal = actors[r.id].internal

LEMMA LoadEffect ==
  ASSUME Typed, NEW r \in Roster, LoadActor(r)
  PROVE  \E a \in Actor, S \in SUBSET Email : LoadsAs(r, a, S)
<1>1. CASE LoadNewActor(r)
  <2>. DEFINE a == [emails |-> r.emails, primary |-> r.primary, internal |-> r.internal]
              S == Mailboxes(r)
  <2>1. a \in Actor /\ Mailboxes(a) = S /\ S \in SUBSET Email
    BY RosterTyped DEF Actor, Mailboxes
  <2>2. LoadsAs(r, a, S)
    BY <1>1, <2>1 DEF LoadNewActor, LoadsAs
  <2>. QED  BY <2>1, <2>2
<1>2. CASE MergeActor(r)
  <2>. DEFINE old == actors[r.id]
              S == r.emails \ old.emails
              a == [old EXCEPT !.emails = @ \cup S]
  <2>1. r.id \in DOMAIN actors /\ old \in Actor
    BY <1>2 DEF MergeActor, Typed, TypeOK
  <2>2. S \in SUBSET Email
    BY RosterTyped
  <2>3. /\ a \in Actor
        /\ a.emails = old.emails \cup S
        /\ a.primary = old.primary
        /\ a.internal = old.internal
    <3>. HIDE DEF old, S
    <3>. QED  BY <2>1, <2>2, EmailsAddedTyped DEF old
  <2>4. Mailboxes(a) = Mailboxes(old) \cup S
    <3>. HIDE DEF a, old, S
    <3>. QED  BY <2>3 DEF Mailboxes
  <2>5. actors' = WithActor(r.id, a)
    BY <1>2 DEF MergeActor
  <2>6. emailToActor' = [e \in Email |-> IF e \in S THEN r.id ELSE emailToActor[e]]
    BY <1>2 DEF MergeActor
  <2>7. LoadsAs(r, a, S)
    <3>. HIDE DEF a, S
    <3>. QED  BY <2>1, <2>3, <2>4, <2>5, <2>6 DEF LoadsAs, old
  <2>8. QED  BY <2>2, <2>3, <2>7
<1>. QED  BY <1>1, <1>2 DEF LoadActor

(***************************************************************************)
(* What creating an actor does: one new ID, one mailbox that had no owner. *)
(***************************************************************************)
LEMMA CreateEffect ==
  ASSUME Inv, NEW c \in Caller, CreateActor(c)
  PROVE  /\ pending[c] \in Email
         /\ emailToActor[pending[c]] = NoId
         /\ generateID \in AutoId
         /\ generateID[2] = nextID + 1
         /\ generateID \notin DOMAIN actors
         /\ \E a \in Actor :
              /\ actors' = WithActor(generateID, a)
              /\ Mailboxes(a) = {pending[c]}
              /\ a.internal = isInternalEmail(pending[c])
<1>1. pending[c] \in Email /\ emailToActor[pending[c]] = NoId
  BY DEF Inv, Typed, TypeOK, PendingOK, CreateActor, Recheck
<1>2. nextID \in Nat
  BY DEF Inv, Typed, TypeOK
<1>3. generateID \in AutoId /\ generateID[2] = nextID + 1
  BY <1>2, IdKinds DEF generateID
<1>4. generateID \notin DOMAIN actors
  BY <1>2, <1>3 DEF Inv, Fresh
<1>. DEFINE a == [emails |-> {pending[c]}, primary |-> pending[c],
                  internal |-> isInternalEmail(pending[c])]
<1>5. a \in Actor /\ Mailboxes(a) = {pending[c]} /\ a.internal = isInternalEmail(pending[c])
  BY <1>1, NoEmailAssumption DEF Actor, Mailboxes, isInternalEmail
<1>6. actors' = WithActor(generateID, a)
  BY DEF CreateActor
<1>. QED  BY <1>1, <1>3, <1>4, <1>5, <1>6

LEMMA InvInit == Init => Inv
  BY TypedInit
     DEF Init, Inv, IndexConsistent, AnswersStayTrue, Fresh, OneOwner, AutoActors

LEMMA LoadInv ==
  ASSUME Inv, NEW r \in Roster, LoadActor(r)
  PROVE  Inv'
<1>1. Typed' /\ Typed /\ TypeOK
  BY LoadTyped DEF Inv, Typed
<1>2. PICK a \in Actor, S \in SUBSET Email : LoadsAs(r, a, S)
  BY <1>1, LoadEffect
<1>3. r.id \in ActorId /\ r.id \notin AutoId /\ r.id # NoId
  BY RosterTyped, IdKinds
<1>4. UNCHANGED <<answer, nextID>>
  BY DEF LoadActor
<1>5. /\ DOMAIN actors' = DOMAIN actors \cup {r.id}
      /\ actors'[r.id] = a
      /\ \A j \in DOMAIN actors : j # r.id => actors'[j] = actors[j]
  <2>1. actors' = WithActor(r.id, a)
    BY <1>2 DEF LoadsAs
  <2>. QED  BY <2>1, RosterTyped, WithActorTyped DEF Inv, Typed
<1>6. ASSUME NEW j \in DOMAIN actors
      PROVE  Mailboxes(actors[j]) \subseteq Mailboxes(actors'[j])
  <2>1. CASE j = r.id
    BY <2>1, <1>2, <1>5 DEF LoadsAs
  <2>2. CASE j # r.id
    <3>1. actors'[j] = actors[j]
      BY <2>2, <1>5
    <3>. QED  BY <3>1
  <2>. QED  BY <2>1, <2>2
<1>7. S \subseteq Mailboxes(a)
  BY <1>2 DEF LoadsAs
<1>8. \A e \in Email : emailToActor'[e] = IF e \in S THEN r.id ELSE emailToActor[e]
  BY <1>2 DEF LoadsAs
<1>9. IndexConsistent'
  <2>1. ASSUME NEW e \in Email, emailToActor'[e] # NoId
        PROVE  emailToActor'[e] \in DOMAIN actors' /\ e \in Mailboxes(actors'[emailToActor'[e]])
    BY <2>1, <1>5, <1>6, <1>7, <1>8 DEF Inv, IndexConsistent
  <2>2. ASSUME NEW i \in DOMAIN actors', NEW e \in Mailboxes(actors'[i])
        PROVE  emailToActor'[e] # NoId
    <3>1. e \in Email
      BY <1>1, MailboxesTyped DEF Typed, TypeOK
    <3>2. CASE e \in S
      BY <3>1, <3>2, <1>3, <1>8
    <3>3. CASE e \notin S
      <4>1. i \in DOMAIN actors /\ e \in Mailboxes(actors[i])
        BY <3>3, <1>2, <1>5 DEF LoadsAs
      <4>. QED  BY <4>1, <3>1, <3>3, <1>8 DEF Inv, IndexConsistent
    <3>. QED  BY <3>2, <3>3
  <2>. QED  BY <2>1, <2>2 DEF IndexConsistent
<1>10. AnswersStayTrue'
  BY <1>4, <1>5, <1>6 DEF Inv, AnswersStayTrue
<1>11. AutoActors' = AutoActors /\ \A i \in AutoActors : actors'[i] = actors[i]
  BY <1>3, <1>5 DEF AutoActors
<1>12. Fresh' /\ OneOwner'
  BY <1>3, <1>4, <1>5, <1>11 DEF Inv, Fresh, OneOwner
<1>. QED  BY <1>1, <1>9, <1>10, <1>12 DEF Inv

LEMMA CreateInv ==
  ASSUME Inv, NEW c \in Caller, CreateActor(c)
  PROVE  Inv'
<1>. DEFINE e == pending[c]
            id == generateID
<1>1. Typed' /\ Typed /\ TypeOK
  BY CreateTyped DEF Inv, Typed
<1>2. /\ e \in Email
      /\ emailToActor[e] = NoId
      /\ id \in AutoId
      /\ id[2] = nextID + 1
      /\ id \notin DOMAIN actors
  BY CreateEffect
<1>3. PICK a \in Actor : actors' = WithActor(id, a) /\ Mailboxes(a) = {e}
  BY CreateEffect
<1>4. id \in ActorId /\ id # NoId
  BY <1>2, IdKinds DEF ActorId
<1>5. /\ DOMAIN actors' = DOMAIN actors \cup {id}
      /\ actors'[id] = a
      /\ \A j \in DOMAIN actors : actors'[j] = actors[j]
  BY <1>1, <1>2, <1>3, <1>4, WithActorTyped
<1>6. /\ emailToActor' = [emailToActor EXCEPT ![e] = id]
      /\ nextID' = nextID + 1
      /\ answer' = [answer EXCEPT ![c] = [email |-> e, id |-> id]]
  BY DEF CreateActor, Tell
<1>. HIDE DEF e, id
<1>7. /\ emailToActor'[e] = id
      /\ \A f \in Email : f # e => emailToActor'[f] = emailToActor[f]
  BY <1>1, <1>2, <1>6 DEF TypeOK
<1>8. \A i \in DOMAIN actors : e \notin Mailboxes(actors[i])
  BY <1>2 DEF Inv, IndexConsistent
<1>9. IndexConsistent'
  BY <1>1, <1>2, <1>3, <1>4, <1>5, <1>7, MailboxesTyped DEF Inv, IndexConsistent, Typed, TypeOK
<1>10. AnswersStayTrue'
  BY <1>1, <1>3, <1>5, <1>6 DEF Inv, AnswersStayTrue, TypeOK
<1>11. Fresh'
  <2>1. nextID \in Nat
    BY <1>1 DEF TypeOK
  <2>2. \A i \in AutoId : i[2] \in Nat
    BY DEF AutoId
  <2>. QED  BY <2>1, <2>2, <1>2, <1>5, <1>6 DEF Inv, Fresh
<1>12. AutoActors' = AutoActors \cup {id}
  BY <1>2, <1>5 DEF AutoActors
<1>13. OneOwner'
  BY <1>2, <1>3, <1>5, <1>8, <1>12 DEF Inv, OneOwner, AutoActors
<1>. QED  BY <1>1, <1>9, <1>10, <1>11, <1>13 DEF Inv

LEMMA CallInv ==
  ASSUME Inv, NEW c \in Caller,
         \/ \E addr \in Address :
              Resolve(c, addr) \/ LookUpHit(c, addr) \/ LookUpMiss(c, addr)
         \/ CountHit(c)
         \/ JoinExisting(c)
  PROVE  Inv'
<1>1. Typed' /\ Typed /\ TypeOK
  BY CallTyped DEF Inv, Typed
<1>2. UNCHANGED <<actors, emailToActor, nextID>>
  BY DEF Resolve, LookUpHit, LookUpMiss, CountHit, JoinExisting
<1>3. IndexConsistent' /\ Fresh' /\ OneOwner'
  BY <1>2 DEF Inv, IndexConsistent, Fresh, OneOwner, AutoActors
<1>. DEFINE Told == \E e \in Email :
                      answer' = [answer EXCEPT ![c] = [email |-> e, id |-> emailToActor[e]]]
<1>4. UNCHANGED answer \/ Told
  <2>1. ASSUME NEW addr \in Address, Resolve(c, addr) \/ LookUpHit(c, addr)
        PROVE  Told
    BY <2>1, NormalAssumption DEF Resolve, LookUpHit, Tell, normalizeEmail
  <2>2. ASSUME NEW addr \in Address, LookUpMiss(c, addr)
        PROVE  UNCHANGED answer
    BY <2>2 DEF LookUpMiss
  <2>3. CASE CountHit(c)
    BY <2>3 DEF CountHit
  <2>4. CASE JoinExisting(c)
    BY <2>4, <1>1 DEF JoinExisting, Recheck, Tell, Typed, PendingOK
  <2>. QED  BY <2>1, <2>2, <2>3, <2>4
<1>5. AnswersStayTrue'
  BY <1>1, <1>2, <1>4 DEF Inv, AnswersStayTrue, IndexConsistent, TypeOK
<1>. QED  BY <1>1, <1>3, <1>5 DEF Inv

LEMMA InvNext == Inv /\ [Next]_vars => Inv'
<1>. SUFFICES ASSUME Inv, [Next]_vars PROVE Inv'
  OBVIOUS
<1>1. CASE Next
  BY <1>1, LoadInv, CreateInv, CallInv DEF Next
<1>2. CASE UNCHANGED vars
  BY <1>2, TypedNext
     DEF vars, Inv, IndexConsistent, AnswersStayTrue, Fresh, OneOwner, AutoActors
<1>. QED  BY <1>1, <1>2

(***************************************************************************)
(* In every behaviour the two maps agree: what is indexed is on file and   *)
(* what is on file is indexed.                                             *)
(***************************************************************************)
THEOREM IndexIsConsistent == Spec => []IndexConsistent
<1>1. Inv => IndexConsistent
  BY DEF Inv
<1>. QED  BY <1>1, InvInit, InvNext, PTL DEF Spec

(***************************************************************************)
(* In every behaviour the identity a caller was told still names an actor  *)
(* on file that lists the mailbox it asked about.                          *)
(***************************************************************************)
THEOREM AnswersAreGood == Spec => []AnswersStayTrue
<1>1. Inv => AnswersStayTrue
  BY DEF Inv
<1>. QED  BY <1>1, InvInit, InvNext, PTL DEF Spec

(***************************************************************************)
(* In every behaviour racing creators of one mailbox end with one invented *)
(* identity, and two mailboxes never share one.                            *)
(***************************************************************************)
THEOREM RacingCallersAgree == Spec => []CallersAgree
<1>1. Inv => CallersAgree
  <2>. SUFFICES ASSUME Inv, NEW c \in Caller, NEW d \in Caller,
                       answer[c].id \in AutoId, answer[d].id \in AutoId
                PROVE  answer[c].email = answer[d].email <=> answer[c].id = answer[d].id
    BY DEF CallersAgree
  <2>1. answer[c].id # NoId /\ answer[d].id # NoId
    BY DEF AutoId, NoId
  <2>2. /\ answer[c].id \in AutoActors /\ answer[c].email \in Mailboxes(actors[answer[c].id])
        /\ answer[d].id \in AutoActors /\ answer[d].email \in Mailboxes(actors[answer[d].id])
    BY <2>1 DEF Inv, AnswersStayTrue, AutoActors
  <2>. QED  BY <2>2 DEF Inv, OneOwner
<1>. QED  BY <1>1, InvInit, InvNext, PTL DEF Spec

(***************************************************************************)
(* No step of any behaviour loses, renames or overwrites an actor: the     *)
(* write section of ResolveOrCreate never reuses an ID.                    *)
(***************************************************************************)
THEOREM NoActorLost == Spec => ActorsOnlyGrow
<1>. DEFINE Grow == \A i \in DOMAIN actors :
                      /\ i \in DOMAIN actors'
                      /\ actors[i].emails \subseteq actors'[i].emails
                      /\ actors[i].internal = actors'[i].internal
<1>1. Inv /\ [Next]_vars => [Grow]_vars
  <2>. SUFFICES ASSUME Inv, Next PROVE Grow
    OBVIOUS
  <2>1. ASSUME NEW r \in Roster, LoadActor(r) PROVE Grow
    <3>1. PICK a \in Actor, S \in SUBSET Email : LoadsAs(r, a, S)
      BY <2>1, LoadEffect DEF Inv
    <3>2. actors' = WithActor(r.id, a)
      BY <3>1 DEF LoadsAs
    <3>3. /\ DOMAIN actors' = DOMAIN actors \cup {r.id}
          /\ actors'[r.id] = a
          /\ \A j \in DOMAIN actors : j # r.id => actors'[j] = actors[j]
      BY <3>2, RosterTyped, WithActorTyped DEF Inv, Typed
    <3>4. r.id \in DOMAIN actors => actors[r.id].emails \subseteq a.emails
                                   /\ actors[r.id].internal = a.internal
      BY <3>1 DEF LoadsAs
    <3>. QED  BY <3>3, <3>4
  <2>2. ASSUME NEW c \in Caller, CreateActor(c) PROVE Grow
    <3>1. PICK a \in Actor : actors' = WithActor(generateID, a)
      BY <2>2, CreateEffect
    <3>2. generateID \in ActorId /\ generateID \notin DOMAIN actors
      BY <2>2, CreateEffect DEF ActorId
    <3>. QED  BY <3>1, <3>2, WithActorTyped DEF Inv, Typed
  <2>3. ASSUME NEW c \in Caller,
               \/ \E addr \in Address :
                    Resolve(c, addr) \/ LookUpHit(c, addr) \/ LookUpMiss(c, addr)
               \/ CountHit(c)
               \/ JoinExisting(c)
        PROVE  Grow
    BY <2>3 DEF Resolve, LookUpHit, LookUpMiss, CountHit, JoinExisting
  <2>. QED  BY <2>1, <2>2, <2>3 DEF Next
<1>. QED  BY <1>1, InvInit, InvNext, PTL DEF Spec, ActorsOnlyGrow

(***************************************************************************)
(* An address that resolves is never given to an invented actor later:     *)
(* only a directory entry can take it over.                                *)
(***************************************************************************)
THEOREM KnownAddressesKeepTheirOwner == Spec => NeverRebindToAuto
<1>. DEFINE Keep == \A e \in Email :
                      emailToActor[e] # NoId /\ emailToActor'[e] # emailToActor[e] =>
                        emailToActor'[e] \in DirectoryId
<1>1. Inv /\ [Next]_vars => [Keep]_vars
  <2>. SUFFICES ASSUME Inv, Next PROVE Keep
    OBVIOUS
  <2>1. ASSUME NEW r \in Roster, LoadActor(r) PROVE Keep
    <3>1. PICK a \in Actor, S \in SUBSET Email : LoadsAs(r, a, S)
      BY <2>1, LoadEffect DEF Inv
    <3>. QED  BY <3>1, RosterTyped DEF LoadsAs
  <2>2. ASSUME NEW c \in Caller, CreateActor(c) PROVE Keep
    <3>1. emailToActor[pending[c]] = NoId
      BY <2>2, CreateEffect
    <3>2. emailToActor' = [emailToActor EXCEPT ![pending[c]] = generateID]
      BY <2>2 DEF CreateActor
    <3>. QED  BY <3>1, <3>2 DEF Inv, Typed, TypeOK
  <2>3. ASSUME NEW c \in Caller,
               \/ \E addr \in Address :
                    Resolve(c, addr) \/ LookUpHit(c, addr) \/ LookUpMiss(c, addr)
               \/ CountHit(c)
               \/ JoinExisting(c)
        PROVE  Keep
    BY <2>3 DEF Resolve, LookUpHit, LookUpMiss, CountHit, JoinExisting
  <2>. QED  BY <2>1, <2>2, <2>3 DEF Next
<1>. QED  BY <1>1, InvInit, InvNext, PTL DEF Spec, NeverRebindToAuto

(***************************************************************************)
(* The resolver implements IdentityMap: seen through its maps and answers, *)
(* every call takes effect in one step, at the read-locked lookup when it  *)
(* hits and inside the write lock when it creates.                         *)
(***************************************************************************)
THEOREM ResolverIsLinearizable == Spec => Linearizable
<1>1. Init => Atomic!Init
  BY DEF Init, Atomic!Init
<1>2. Inv /\ [Next]_vars => [Atomic!Next]_(Atomic!vars)
  <2>. SUFFICES ASSUME Inv, [Next]_vars
                PROVE  Atomic!Next \/ UNCHANGED Atomic!vars
    OBVIOUS
  <2>. USE DEF Atomic!Next, Atomic!vars
  <2>1. ASSUME NEW r \in Roster, LoadActor(r)
        PROVE  Atomic!Next
    <3>1. PICK a \in Actor, S \in SUBSET Email : LoadsAs(r, a, S)
      BY <2>1, LoadEffect DEF Inv
    <3>2. r.id \in DirectoryId /\ UNCHANGED answer
      BY <2>1, RosterTyped DEF LoadActor
    <3>3. DOMAIN actors' = DOMAIN actors \cup {r.id}
      <4>1. actors' = WithActor(r.id, a)
        BY <3>1 DEF LoadsAs
      <4>. QED  BY <4>1 DEF WithActor
    <3>4. Atomic!Load(r.id, S)
      BY <3>1, <3>2, <3>3 DEF LoadsAs, Atomic!Load
    <3>. QED  BY <3>2, <3>4
  <2>2. ASSUME NEW c \in Caller, CreateActor(c)
        PROVE  Atomic!Next
    <3>1. /\ pending[c] \in Email
          /\ emailToActor[pending[c]] = NoId
          /\ generateID \in AutoId
          /\ generateID \notin DOMAIN actors
          /\ \E a \in Actor : actors' = WithActor(generateID, a)
      BY <2>2, CreateEffect
    <3>2. DOMAIN actors' = DOMAIN actors \cup {generateID}
      BY <3>1 DEF WithActor
    <3>3. /\ emailToActor' = [emailToActor EXCEPT ![pending[c]] = generateID]
          /\ answer' = [answer EXCEPT ![c] = [email |-> pending[c], id |-> generateID]]
      BY <2>2 DEF CreateActor, Tell
    <3>4. Atomic!Mint(c, pending[c])
      BY <3>1, <3>2, <3>3 DEF Atomic!Mint, Atomic!Tell
    <3>. QED  BY <3>1, <3>4
  <2>3. ASSUME NEW c \in Caller, NEW addr \in Address,
               Resolve(c, addr) \/ LookUpHit(c, addr)
        PROVE  Atomic!Next
    <3>1. Normal[addr] \in Email
      BY NormalAssumption
    <3>2. Atomic!Resolve(c, Normal[addr])
      BY <2>3, <3>1 DEF Resolve, LookUpHit, Tell, normalizeEmail,
                        Atomic!Resolve, Atomic!Tell
    <3>. QED  BY <3>1, <3>2
  <2>4. ASSUME NEW c \in Caller, JoinExisting(c)
        PROVE  Atomic!Next
    <3>1. pending[c] \in Email
      BY <2>4 DEF JoinExisting, Inv, Typed, PendingOK
    <3>2. Atomic!Resolve(c, pending[c])
      BY <2>4, <3>1 DEF JoinExisting, Recheck, Tell, Atomic!Resolve, Atomic!Tell
    <3>. QED  BY <3>1, <3>2
  <2>5. ASSUME NEW c \in Caller,
               CountHit(c) \/ \E addr \in Address : LookUpMiss(c, addr)
        PROVE  UNCHANGED Atomic!vars
    BY <2>5 DEF CountHit, LookUpMiss
  <2>6. CASE UNCHANGED vars
    BY <2>6 DEF vars
  <2>. QED  BY <2>1, <2>2, <2>3, <2>4, <2>5, <2>6 DEF Next
<1>. QED  BY <1>1, <1>2, InvInit, InvNext, PTL DEF Spec, Linearizable, Atomic!Spec
-----------------------------------------------------------------------------
(***************************************************************************)
(* The counters.  StatsConsistent is inductive on top of Inv once the      *)
(* actors on file and the callers inside a call are known to be finitely   *)
(* many, which no constant promises: every behaviour has filed and called  *)
(* only so often.                                                          *)
(***************************************************************************)
Insiders == {i \in DOMAIN actors : actors[i].internal}
Filed == {p \in (DOMAIN actors) \X Email : p[2] \in actors[p[1]].emails}
Busy == {c \in Caller : pc[c] # "idle"}

Counted ==
  /\ IsFiniteSet(DOMAIN actors) /\ IsFiniteSet(Busy)
  /\ stats["total"] = Cardinality(DOMAIN actors)
  /\ stats["internal"] = Cardinality(Insiders)
  /\ stats["external"] = stats["total"] - stats["internal"]
  /\ stats["aliases"] = Cardinality(Filed)
  /\ stats["auto"] = Cardinality(AutoActors)
  /\ stats["hits"] + stats["misses"] + stats["auto"] + Cardinality(Busy) = calls

LEMMA FiledFinite ==
  ASSUME TypeOK, IsFiniteSet(DOMAIN actors)
  PROVE  /\ IsFiniteSet(Filed) /\ Cardinality(Filed) \in Nat
         /\ IsFiniteSet(Insiders) /\ Cardinality(Insiders) \in Nat
         /\ IsFiniteSet(AutoActors) /\ Cardinality(AutoActors) \in Nat
         /\ Cardinality(DOMAIN actors) \in Nat
<1>1. IsFiniteSet((DOMAIN actors) \X Email)
  BY EmailAssumption, FS_Product
<1>2. Filed \in SUBSET ((DOMAIN actors) \X Email)
  BY DEF Filed
<1>3. Insiders \in SUBSET DOMAIN actors /\ AutoActors \in SUBSET DOMAIN actors
  BY DEF Insiders, AutoActors
<1>4. IsFiniteSet(Filed) /\ IsFiniteSet(Insiders) /\ IsFiniteSet(AutoActors)
  BY <1>1, <1>2, <1>3, FS_Subset
<1>. QED  BY <1>4, FS_CardinalityType

(***************************************************************************)
(* What filing an actor under an ID, new or known, adds to the gauges.     *)
(***************************************************************************)
LEMMA FilingCounts ==
  ASSUME TypeOK, IsFiniteSet(DOMAIN actors), NEW i \in ActorId, NEW a \in Actor,
         actors' = WithActor(i, a), NEW old \in SUBSET a.emails,
         i \in DOMAIN actors => old = actors[i].emails /\ a.internal = actors[i].internal,
         i \notin DOMAIN actors => old = {}
  PROVE  /\ IsFiniteSet(DOMAIN actors')
         /\ Cardinality(Filed') = Cardinality(Filed) + Cardinality(a.emails \ old)
         /\ Cardinality(a.emails \ old) \in Nat
         /\ i \in DOMAIN actors =>
              /\ DOMAIN actors' = DOMAIN actors
              /\ Insiders' = Insiders /\ AutoActors' = AutoActors
         /\ i \notin DOMAIN actors =>
              /\ Cardinality(DOMAIN actors') = Cardinality(DOMAIN actors) + 1
              /\ Cardinality(Insiders') = Cardinality(Insiders) + (IF a.internal THEN 1 ELSE 0)
              /\ Cardinality(AutoActors') =
                   Cardinality(AutoActors) + (IF i \in AutoId THEN 1 ELSE 0)
<1>1. /\ DOMAIN actors' = DOMAIN actors \cup {i}
      /\ actors'[i] = a
      /\ \A j \in DOMAIN actors : j # i => actors'[j] = actors[j]
  BY WithActorTyped
<1>2. a.emails \subseteq Email /\ a.internal \in BOOLEAN
  BY DEF Actor
<1>3. IsFiniteSet(DOMAIN actors')
  BY <1>1, FS_AddElement
<1>. DEFINE new == {i} \X (a.emails \ old)
<1>4. IsFiniteSet(a.emails \ old) /\ Cardinality(a.emails \ old) \in Nat
  BY <1>2, EmailAssumption, FS_Subset, FS_CardinalityType
<1>5. IsFiniteSet(new) /\ Cardinality(new) = Cardinality(a.emails \ old)
  <2>1. IsFiniteSet({i}) /\ Cardinality({i}) = 1
    BY FS_Singleton
  <2>2. IsFiniteSet(new) /\ Cardinality(new) = Cardinality({i}) * Cardinality(a.emails \ old)
    BY <1>4, <2>1, FS_Product
  <2>. QED  BY <1>4, <2>1, <2>2
<1>6. Filed' = Filed \cup new
  <2>1. \A j \in DOMAIN actors : actors[j].emails \subseteq Email
    BY DEF TypeOK, Actor
  <2>2. ASSUME NEW p \in Filed' PROVE p \in Filed \cup new
    BY <2>2, <1>1, <1>2 DEF Filed
  <2>3. ASSUME NEW p \in Filed PROVE p \in Filed'
    BY <2>3, <1>1, <1>2 DEF Filed
  <2>4. ASSUME NEW p \in new PROVE p \in Filed'
    BY <2>4, <1>1, <1>2 DEF Filed
  <2>. QED  BY <2>2, <2>3, <2>4
<1>7. Filed \cap new = {}
  BY DEF Filed
<1>8. Cardinality(Filed') = Cardinality(Filed) + Cardinality(a.emails \ old)
  <2>. HIDE DEF new
  <2>1. IsFiniteSet(Filed) /\ Cardinality(Filed) \in Nat
    BY FiledFinite
  <2>. QED  BY <2>1, <1>4, <1>5, <1>6, <1>7, FS_Union, FS_EmptySet
<1>9. CASE i \in DOMAIN actors
  BY <1>1, <1>3, <1>4, <1>8, <1>9 DEF Insiders, AutoActors
<1>10. CASE i \notin DOMAIN actors
  <2>1. Cardinality(DOMAIN actors') = Cardinality(DOMAIN actors) + 1
    BY <1>1, <1>10, FS_AddElement
  <2>2. Insiders' = IF a.internal THEN Insiders \cup {i} ELSE Insiders
    BY <1>1, <1>10 DEF Insiders
  <2>3. AutoActors' = IF i \in AutoId THEN AutoActors \cup {i} ELSE AutoActors
    BY <1>1, <1>10 DEF AutoActors
  <2>4. i \notin Insiders /\ i \notin AutoActors
    BY <1>10 DEF Insiders, AutoActors
  <2>5. Cardinality(Insiders') = Cardinality(Insiders) + (IF a.internal THEN 1 ELSE 0)
    <3>1. CASE a.internal
      BY <2>2, <2>4, <3>1, FiledFinite, FS_AddElement
    <3>2. CASE ~a.internal
      BY <2>2, <3>2, FiledFinite
    <3>. QED  BY <3>1, <3>2
  <2>6. Cardinality(AutoActors') = Cardinality(AutoActors) + (IF i \in AutoId THEN 1 ELSE 0)
    <3>1. CASE i \in AutoId
      BY <2>3, <2>4, <3>1, FiledFinite, FS_AddElement
    <3>2. CASE i \notin AutoId
      BY <2>3, <3>2, FiledFinite
    <3>. QED  BY <3>1, <3>2
  <2>. QED  BY <1>3, <1>4, <1>8, <1>10, <2>1, <2>5, <2>6
<1>. QED  BY <1>9, <1>10

LEMMA CountedInit == Init => Counted
<1>. SUFFICES ASSUME Init PROVE Counted
  OBVIOUS
<1>1. DOMAIN actors = {} /\ Busy = {}
  BY DEF Init, Busy
<1>2. Insiders = {} /\ Filed = {} /\ AutoActors = {}
  BY <1>1 DEF Insiders, Filed, AutoActors
<1>3. calls = 0 /\ \A k \in Counter : stats[k] = 0
  BY DEF Init
<1>. QED  BY <1>1, <1>2, <1>3, FS_EmptySet DEF Counted, Counter

LEMMA LoadCounted ==
  ASSUME Inv, Counted, NEW r \in Roster, LoadActor(r)
  PROVE  Counted'
<1>1. TypeOK /\ stats \in [Counter -> Nat] /\ calls \in Int
  BY DEF Inv, Typed, TypeOK
<1>2. Busy' = Busy /\ calls' = calls
  BY DEF LoadActor, Busy
<1>3. r.id \in ActorId /\ r.id \notin AutoId /\ r.internal \in BOOLEAN
  BY RosterTyped, IdKinds
<1>4. CASE LoadNewActor(r)
  <2>. DEFINE a == [emails |-> r.emails, primary |-> r.primary, internal |-> r.internal]
  <2>1. a \in Actor /\ a.emails = r.emails /\ a.internal = r.internal
    BY RosterTyped DEF Actor
  <2>2. actors' = WithActor(r.id, a) /\ r.id \notin DOMAIN actors
    BY <1>4 DEF LoadNewActor
  <2>3. r.emails \ {} = r.emails
    OBVIOUS
  <2>4. /\ IsFiniteSet(DOMAIN actors')
        /\ Cardinality(Filed') = Cardinality(Filed) + Cardinality(r.emails)
        /\ Cardinality(r.emails) \in Nat
        /\ Cardinality(DOMAIN actors') = Cardinality(DOMAIN actors) + 1
        /\ Cardinality(Insiders') = Cardinality(Insiders) + (IF r.internal THEN 1 ELSE 0)
        /\ Cardinality(AutoActors') = Cardinality(AutoActors)
    <3>. HIDE DEF a
    <3>1. IsFiniteSet(DOMAIN actors)
      BY DEF Counted
    <3>2. {} \in SUBSET a.emails
      OBVIOUS
    <3>3. /\ IsFiniteSet(DOMAIN actors')
          /\ Cardinality(Filed') = Cardinality(Filed) + Cardinality(a.emails \ {})
          /\ Cardinality(a.emails \ {}) \in Nat
          /\ Cardinality(DOMAIN actors') = Cardinality(DOMAIN actors) + 1
          /\ Cardinality(Insiders') = Cardinality(Insiders) + (IF a.internal THEN 1 ELSE 0)
          /\ Cardinality(AutoActors') = Cardinality(AutoActors) + (IF r.id \in AutoId THEN 1 ELSE 0)
      BY <1>1, <1>3, <2>1, <2>2, <3>1, <3>2, FilingCounts
    <3>4. Cardinality(AutoActors) \in Nat
      BY <1>1, <3>1, FiledFinite
    <3>. QED  BY <1>3, <2>1, <2>3, <3>3, <3>4
  <2>5. stats' = [stats EXCEPT !["total"] = @ + 1,
                               !["aliases"] = @ + Cardinality(r.emails),
                               ![Side(r.internal)] = @ + 1]
    BY <1>4 DEF LoadNewActor
  <2>6. /\ stats'["total"] = stats["total"] + 1
        /\ stats'["aliases"] = stats["aliases"] + Cardinality(r.emails)
        /\ stats'["internal"] = stats["internal"] + (IF r.internal THEN 1 ELSE 0)
        /\ stats'["external"] = stats["external"] + (IF r.internal THEN 0 ELSE 1)
        /\ stats'["auto"] = stats["auto"]
        /\ stats'["hits"] = stats["hits"] /\ stats'["misses"] = stats["misses"]
    BY <1>1, <1>3, <2>4, <2>5 DEF Counter, Side
  <2>7. \A k \in Counter : stats[k] \in Nat
    BY <1>1
  <2>. QED  BY <1>2, <1>3, <2>4, <2>6, <2>7
            DEF Counted, Counter
<1>5. CASE MergeActor(r)
  <2>. DEFINE old == actors[r.id]
              new == r.emails \ old.emails
              a == [old EXCEPT !.emails = @ \cup new]
  <2>1. r.id \in DOMAIN actors /\ old \in Actor /\ new \in SUBSET Email
    BY <1>1, <1>5, RosterTyped DEF MergeActor, TypeOK
  <2>2. a \in Actor /\ a.emails = old.emails \cup new /\ a.internal = old.internal
    <3>. HIDE DEF old, new
    <3>. QED  BY <2>1, EmailsAddedTyped
  <2>3. actors' = WithActor(r.id, a)
    BY <1>5 DEF MergeActor
  <2>4. a.emails \ old.emails = new /\ old.emails \in SUBSET a.emails
    BY <2>2
  <2>5. /\ DOMAIN actors' = DOMAIN actors
        /\ Insiders' = Insiders /\ AutoActors' = AutoActors
        /\ Cardinality(Filed') = Cardinality(Filed) + Cardinality(new)
        /\ Cardinality(new) \in Nat
    <3>1. IsFiniteSet(DOMAIN actors)
      BY DEF Counted
    <3>2. /\ Cardinality(Filed') = Cardinality(Filed) + Cardinality(a.emails \ old.emails)
          /\ Cardinality(a.emails \ old.emails) \in Nat
          /\ DOMAIN actors' = DOMAIN actors
          /\ Insiders' = Insiders /\ AutoActors' = AutoActors
      <4>. HIDE DEF a
      <4>. QED  BY SMTT(30), <1>1, <1>3, <2>1, <2>2, <2>3, <2>4, <3>1, FilingCounts
    <3>. HIDE DEF a, new
    <3>. QED  BY <2>4, <3>2
  <2>6. stats' = [stats EXCEPT !["aliases"] = @ + Cardinality(new)]
    BY <1>5 DEF MergeActor
  <2>7. /\ stats'["aliases"] = stats["aliases"] + Cardinality(new)
        /\ \A k \in Counter : k # "aliases" => stats'[k] = stats[k]
    <3>. HIDE DEF new
    <3>. QED  BY <1>1, <2>6 DEF Counter
  <2>8. \A k \in Counter : stats[k] \in Nat
    BY <1>1
  <2>. HIDE DEF new
  <2>. QED  BY <1>2, <2>5, <2>7, <2>8
            DEF Counted, Counter
<1>. QED  BY <1>4, <1>5 DEF LoadActor

LEMMA CreateCounted ==
  ASSUME Inv, Counted, NEW c \in Caller, CreateActor(c)
  PROVE  Counted'
<1>. DEFINE e == pending[c]
            a == [emails |-> {e}, primary |-> e, internal |-> isInternalEmail(e)]
<1>1. TypeOK /\ stats \in [Counter -> Nat] /\ calls \in Int /\ pc \in [Caller -> {"idle", "hit", "create"}]
  BY DEF Inv, Typed, TypeOK
<1>2. e \in Email /\ generateID \in AutoId /\ generateID \in ActorId
      /\ generateID \notin DOMAIN actors
  BY CreateEffect DEF ActorId
<1>3. a \in Actor /\ a.emails = {e} /\ a.internal = isInternalEmail(e)
      /\ isInternalEmail(e) \in BOOLEAN
  BY <1>2 DEF Actor, isInternalEmail
<1>4. actors' = WithActor(generateID, a)
  BY DEF CreateActor
<1>5. /\ IsFiniteSet(DOMAIN actors')
      /\ Cardinality(Filed') = Cardinality(Filed) + 1
      /\ Cardinality(DOMAIN actors') = Cardinality(DOMAIN actors) + 1
      /\ Cardinality(Insiders') = Cardinality(Insiders) + (IF isInternalEmail(e) THEN 1 ELSE 0)
      /\ Cardinality(AutoActors') = Cardinality(AutoActors) + 1
  <2>. HIDE DEF a, e
  <2>1. IsFiniteSet(DOMAIN actors)
    BY DEF Counted
  <2>2. a.emails \ {} = {e}
    BY <1>3
  <2>3. Cardinality({e}) = 1
    BY FS_Singleton
  <2>4. {} \in SUBSET a.emails
    OBVIOUS
  <2>5. /\ IsFiniteSet(DOMAIN actors')
        /\ Cardinality(Filed') = Cardinality(Filed) + Cardinality(a.emails \ {})
        /\ Cardinality(DOMAIN actors') = Cardinality(DOMAIN actors) + 1
        /\ Cardinality(Insiders') = Cardinality(Insiders) + (IF a.internal THEN 1 ELSE 0)
        /\ Cardinality(AutoActors') =
             Cardinality(AutoActors) + (IF generateID \in AutoId THEN 1 ELSE 0)
    BY <1>1, <1>2, <1>3, <1>4, <2>1, <2>4, FilingCounts
  <2>. QED  BY <1>2, <1>3, <2>2, <2>3, <2>5
<1>6. stats' = [stats EXCEPT !["total"] = @ + 1, !["aliases"] = @ + 1,
                             !["auto"] = @ + 1, ![Side(isInternalEmail(e))] = @ + 1]
  BY DEF CreateActor
<1>7. pc[c] = "create" /\ pc' = [pc EXCEPT ![c] = "idle"] /\ calls' = calls
  BY DEF CreateActor, Finish
<1>. HIDE DEF e
<1>8. /\ stats'["total"] = stats["total"] + 1
      /\ stats'["aliases"] = stats["aliases"] + 1
      /\ stats'["auto"] = stats["auto"] + 1
      /\ stats'["internal"] = stats["internal"] + (IF isInternalEmail(e) THEN 1 ELSE 0)
      /\ stats'["external"] = stats["external"] + (IF isInternalEmail(e) THEN 0 ELSE 1)
      /\ stats'["hits"] = stats["hits"] /\ stats'["misses"] = stats["misses"]
  BY <1>1, <1>3, <1>6 DEF Counter, Side
<1>9. Busy' = Busy \ {c} /\ c \in Busy
  BY <1>1, <1>7 DEF Busy
<1>10. /\ IsFiniteSet(Busy') /\ Cardinality(Busy') = Cardinality(Busy) - 1
       /\ Cardinality(Busy) \in Nat
  BY <1>9, FS_RemoveElement, FS_CardinalityType DEF Counted
<1>11. \A k \in Counter : stats[k] \in Nat
  BY <1>1
<1>12. /\ Cardinality(Filed) \in Nat /\ Cardinality(Insiders) \in Nat
       /\ Cardinality(AutoActors) \in Nat /\ Cardinality(DOMAIN actors) \in Nat
  BY <1>1, FiledFinite DEF Counted
<1>13. stats'["external"] = stats'["total"] - stats'["internal"]
  BY <1>3, <1>8, <1>11 DEF Counted, Counter
<1>14. stats'["hits"] + stats'["misses"] + stats'["auto"] + Cardinality(Busy') = calls'
  BY <1>7, <1>8, <1>10, <1>11, <1>1 DEF Counted, Counter
<1>. QED  BY <1>3, <1>5, <1>8, <1>10, <1>13, <1>14
          DEF Counted, Counter

(***************************************************************************)
(* Calls that file nothing: one more call is answered, or one more caller  *)
(* is inside a call, or one caller leaves it and is counted as a hit.      *)
(***************************************************************************)
LEMMA CallCounted ==
  ASSUME Inv, Counted, NEW c \in Caller,
         \/ \E addr \in Address :
              Resolve(c, addr) \/ LookUpHit(c, addr) \/ LookUpMiss(c, addr)
         \/ CountHit(c)
         \/ JoinExisting(c)
  PROVE  Counted'
<1>1. stats \in [Counter -> Nat] /\ calls \in Int /\ pc \in [Caller -> {"idle", "hit", "create"}]
  BY DEF Inv, Typed, TypeOK
<1>2. actors' = actors
  BY DEF Resolve, LookUpHit, LookUpMiss, CountHit, JoinExisting
<1>3. Insiders' = Insiders /\ Filed' = Filed /\ AutoActors' = AutoActors
  BY <1>2 DEF Insiders, Filed, AutoActors
<1>4. IsFiniteSet(Busy) /\ Cardinality(Busy) \in Nat
  BY FS_CardinalityType DEF Counted
<1>. DEFINE Gauges == {"total", "internal", "external", "aliases", "auto"}
<1>5. /\ \A k \in Gauges : stats'[k] = stats[k]
      /\ IsFiniteSet(Busy')
      /\ stats'["hits"] + stats'["misses"] + Cardinality(Busy') - calls'
           = stats["hits"] + stats["misses"] + Cardinality(Busy) - calls
  <2>1. ASSUME NEW addr \in Address, Resolve(c, addr)
        PROVE  <1>5!:
    <3>1. Busy' = Busy /\ calls' = calls + 1
      BY <2>1 DEF Resolve, StartCall, Busy
    <3>2. \/ stats' = [stats EXCEPT !["hits"] = @ + 1]
          \/ stats' = [stats EXCEPT !["misses"] = @ + 1]
      BY <2>1 DEF Resolve
    <3>. QED  BY <1>1, <1>4, <3>1, <3>2 DEF Counter
  <2>2. ASSUME NEW addr \in Address, LookUpHit(c, addr) \/ LookUpMiss(c, addr)
        PROVE  <1>5!:
    <3>1. c \notin Busy /\ Busy' = Busy \cup {c} /\ calls' = calls + 1 /\ stats' = stats
      BY <1>1, <2>2 DEF LookUpHit, LookUpMiss, StartCall, Busy
    <3>2. IsFiniteSet(Busy') /\ Cardinality(Busy') = Cardinality(Busy) + 1
      BY <1>4, <3>1, FS_AddElement
    <3>. QED  BY <1>1, <1>4, <3>1, <3>2 DEF Counter
  <2>3. ASSUME CountHit(c) \/ JoinExisting(c)
        PROVE  <1>5!:
    <3>1. c \in Busy /\ Busy' = Busy \ {c} /\ calls' = calls
      BY <1>1, <2>3 DEF CountHit, JoinExisting, Finish, Busy
    <3>2. stats' = [stats EXCEPT !["hits"] = @ + 1]
      BY <2>3 DEF CountHit, JoinExisting
    <3>3. IsFiniteSet(Busy') /\ Cardinality(Busy') = Cardinality(Busy) - 1
      BY <1>4, <3>1, FS_RemoveElement
    <3>. QED  BY <1>1, <1>4, <3>1, <3>2, <3>3 DEF Counter
  <2>. QED  BY <2>1, <2>2, <2>3
<1>6. stats' \in [Counter -> Nat] /\ calls' \in Nat
  BY CallTyped DEF Inv, Typed, TypeOK
<1>7. /\ stats'["hits"] \in Nat /\ stats'["misses"] \in Nat /\ stats'["auto"] \in Nat
      /\ Cardinality(Busy') \in Nat
  BY <1>5, <1>6, FS_CardinalityType DEF Counter
<1>8. \A k \in Counter : stats[k] \in Nat
  BY <1>1
<1>. QED  BY <1>1, <1>2, <1>3, <1>4, <1>5, <1>6, <1>7, <1>8
          DEF Counted, Counter

LEMMA CountedNext == Inv /\ Counted /\ [Next]_vars => Counted'
<1>. SUFFICES ASSUME Inv, Counted, [Next]_vars PROVE Counted'
  OBVIOUS
<1>1. CASE Next
  BY <1>1, LoadCounted, CreateCounted, CallCounted DEF Next
<1>2. CASE UNCHANGED vars
  BY <1>2 DEF vars, Counted, Busy, AutoActors, Insiders, Filed
<1>. QED  BY <1>1, <1>2

(***************************************************************************)
(* In every behaviour Stats() tells the truth about the map, and every     *)
(* call that is not under way was counted exactly once, wherever a caller  *)
(* was overtaken between the two critical sections.                        *)
(***************************************************************************)
THEOREM StatsTellTheTruth == Spec => []StatsConsistent
<1>1. Inv /\ Counted => StatsConsistent
  BY DEF Inv, Typed, Counted, StatsConsistent, Insiders, Filed, Busy
<1>. QED  BY <1>1, InvInit, InvNext, CountedInit, CountedNext, PTL DEF Spec
=============================================================================
