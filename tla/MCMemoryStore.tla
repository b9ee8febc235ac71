--------------------------- MODULE MCMemoryStore ---------------------------
(***************************************************************************)
(* Two messages of two platforms, an interaction of each, a thread and one *)
(* actor.                                                                  *)
(***************************************************************************)
EXTENDS MemoryStore

MCMessage == {"m1", "m2"}
MCActor == {"a1"}
MCDate == [m \in MCMessage |-> IF m = "m1" THEN 1 ELSE 2]
MCPlatform == [m \in MCMessage |-> IF m = "m1" THEN "email" ELSE "chat"]
MCInteraction ==
  {[message |-> "m1", thread |-> "t1", from |-> "a1", to |-> "a2", edgeType |-> "TO", timestamp |-> 1],
   [message |-> "m2", thread |-> None, from |-> "a2", to |-> "a1", edgeType |-> "CC", timestamp |-> 2]}
MCThread == {[id |-> "t1", start |-> 1, end |-> 2]}

Opts(start, end, platform, limit) ==
  [after |-> start, before |-> end, platform |-> platform, limit |-> limit]
MCListOptions == {Opts(0, 0, None, 0), Opts(0, 0, None, 1), Opts(0, 3, "email", 1)}

AnyInteraction == [from |-> None, to |-> None, edgeTypes |-> {}, after |-> 0, before |-> 0,
                   message |-> None, thread |-> None, limit |-> 1]
MCQueries == {AnyInteraction,
              [AnyInteraction EXCEPT !.edgeTypes = {"CC"}, !.from = "a2", !.after = 1]}
=============================================================================
