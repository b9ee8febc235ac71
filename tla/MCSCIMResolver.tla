--------------------------- MODULE MCSCIMResolver ---------------------------
(***************************************************************************)
(* A small instance: two callers, two people of the directory who share a  *)
(* mailbox, a second entry that merges into the first person, and an       *)
(* address that comes in two spellings.                                    *)
(***************************************************************************)
EXTENDS SCIMResolver

CONSTANTS c1, c2, alice, bob

MCCaller == {c1, c2}
MCEmail == {"a@corp", "b@corp", "x@out"}
MCAddress == {"a@corp", "Ann <A@corp>", "x@out"}
MCNormal == [addr \in MCAddress |-> IF addr = "x@out" THEN "x@out" ELSE "a@corp"]
MCInternalEmail == {"a@corp", "b@corp"}
MCUserName == {alice, bob}

Entry(name, emails, primary, internal) ==
  [id |-> <<"user", name>>, emails |-> emails, primary |-> primary,
   internal |-> internal]

MCRoster == {
  Entry(alice, {"b@corp"}, "b@corp", TRUE),
  Entry(alice, {"a@corp", "b@corp"}, "none", TRUE),
  Entry(bob, {"x@out"}, "a@corp", FALSE)}
=============================================================================
