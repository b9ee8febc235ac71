---------------------------- MODULE MessageStream ----------------------------
(***************************************************************************)
(* What an adapter promises the reader of its two channels: the wanted     *)
(* messages arrive one by one in source order, and the stream ends, either *)
(* with an error or with everything delivered.  "excused" marks the one    *)
(* case in which the code ends a stream early without an error.            *)
(* Module MailIngest is shown to implement this one.                       *)
(***************************************************************************)
EXTENDS Naturals, Sequences

VARIABLES
  wanted,     \* the messages of the source that a reader should see
  delivered,  \* what the reader has received
  outcome,    \* "open", "ok" (ended, no error) or "failed" (ended, error)
  excused     \* the source was a maildir whose context was cancelled

vars == <<wanted, delivered, outcome, excused>>

Init ==
  /\ delivered = <<>>
  /\ outcome = "open"
  /\ excused = FALSE

Deliver ==
  /\ outcome = "open"
  /\ Len(delivered) < Len(wanted)
  /\ delivered' = Append(delivered, wanted[Len(delivered) + 1])
  /\ UNCHANGED <<wanted, outcome, excused>>

End ==
  /\ outcome = "open"
  /\ delivered = wanted \/ excused
  /\ outcome' = "ok"
  /\ UNCHANGED <<wanted, delivered, excused>>

Fail ==
  /\ outcome = "open"
  /\ outcome' = "failed"
  /\ UNCHANGED <<wanted, delivered, excused>>

Excuse ==
  /\ excused' = TRUE
  /\ UNCHANGED <<wanted, delivered, outcome>>

Next == Deliver \/ End \/ Fail \/ Excuse

Spec == Init /\ [][Next]_vars /\ WF_vars(Deliver \/ End \/ Fail)
=============================================================================
