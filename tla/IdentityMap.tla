----------------------------- MODULE IdentityMap -----------------------------
(***************************************************************************)
(* What an identity resolver promises its callers: a map from mailboxes to *)
(* actor identities in which every call looks as if it ran alone.  A       *)
(* lookup answers with the current owner; a resolve-or-create answers with *)
(* the current owner or, when the mailbox has none, gives it an identity   *)
(* that was never used before; a directory load moves mailboxes to the     *)
(* loaded person.  There are no locks, counters or records here: module    *)
(* SCIMResolver is shown to implement this one.                            *)
(***************************************************************************)
CONSTANTS
  Caller,       \* the goroutines that use the resolver
  Email,        \* mailboxes, in normal form
  AutoId,       \* identities the resolver may invent
  DirectoryId,  \* identities that only a directory load introduces
  None          \* "no identity"

VARIABLES
  owner,   \* owner[e]: the identity that mailbox e resolves to, or None
  ids,     \* the identities in use
  answer   \* answer[c]: the last mailbox c asked about and what it was told

vars == <<owner, ids, answer>>

Init ==
  /\ owner = [e \in Email |-> None]
  /\ ids = {}
  /\ \A c \in Caller : answer[c].id = None

Tell(c, e, i) == answer' = [answer EXCEPT ![c] = [email |-> e, id |-> i]]

Resolve(c, e) ==
  /\ Tell(c, e, owner[e])
  /\ UNCHANGED <<owner, ids>>

Mint(c, e) ==
  /\ owner[e] = None
  /\ \E i \in ids' \ ids :
       /\ i \in AutoId
       /\ ids' = ids \cup {i}
       /\ owner' = [owner EXCEPT ![e] = i]
       /\ Tell(c, e, i)

Load(i, claimed) ==
  /\ ids' = ids \cup {i}
  /\ owner' = [e \in Email |-> IF e \in claimed THEN i ELSE owner[e]]
  /\ UNCHANGED answer

Next ==
  \/ \E c \in Caller, e \in Email : Resolve(c, e) \/ Mint(c, e)
  \/ \E i \in DirectoryId, claimed \in SUBSET Email : Load(i, claimed)

Spec == Init /\ [][Next]_vars
=============================================================================
