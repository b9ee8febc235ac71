----------------------------- MODULE MCAnalyzer -----------------------------
(***************************************************************************)
(* Two insiders and two outsiders. Traffic is any four of nine             *)
(* interactions: within, out, in, outside, to oneself, known or not, and   *)
(* one whose type weighs nothing in the profile. For the temporal reports  *)
(* a day is two ticks and the threshold one deviation: at least seven of   *)
(* ten interactions on seven days make bursts of two days, two bursts, and *)
(* one on the last day counted, and one of the ten is stored without a     *)
(* time. Of the eight interactions of a conversation four share an instant *)
(* and two are to oneself.                                                 *)
(***************************************************************************)
EXTENDS Analyzer

MCActor == {"ann", "bob", "eve", "max"}
MCWeight == [t \in {"TO", "CC", "BCC"} |->
               CASE t = "TO" -> 2 [] t = "CC" -> 1 [] t = "BCC" -> 0]
At(from, to, type, time) == [from |-> from, to |-> to, edgeType |-> type, time |-> time]
I(from, to, type) == At(from, to, type, 0)
All == <<I("ann", "bob", "TO"), I("ann", "eve", "TO"), I("eve", "ann", "CC"),
         I("bob", "eve", "CC"), I("max", "bob", "TO"), I("eve", "max", "TO"),
         I("ann", "ann", "CC"), I("bob", "max", "BCC"), I("eve", "eve", "CC")>>
MCWalks == {[i \in S |-> All[i]] : S \in kSubset(4, DOMAIN All) \cup {{}, {8}, {7, 8}}}
Days == <<NoTime, 2, 3, 4, 5, 6, 8, 10, 11, 13>>
Talk == <<At("ann", "bob", "TO", 1), At("bob", "ann", "TO", 2), At("ann", "bob", "CC", 4),
          At("bob", "ann", "TO", 4), At("bob", "ann", "CC", 4), At("ann", "bob", "TO", 6),
          At("ann", "ann", "TO", 2), At("ann", "ann", "TO", 4)>>
MCBursts == {[i \in S |-> At("ann", "bob", "TO", Days[i])] :
               S \in UNION {kSubset(n, DOMAIN Days) : n \in {0, 1, 7, 8, 9, 10}}}
MCTalks == {[i \in S |-> Talk[i]] : S \in UNION {kSubset(n, DOMAIN Talk) : n \in 4 .. 6}}
MCArrivals == (11 :> At("ann", "bob", "TO", 7)) @@ (12 :> At("bob", "ann", "TO", 14))

MCJobs == {"external", "degree", "indegree", "outdegree", "pagerank", "bursts", "responses"}
MCTraffics == [j \in MCJobs |-> CASE j = "bursts" -> MCBursts
                                  [] j = "responses" -> MCTalks
                                  [] OTHER -> MCWalks]


E(internal, primary, emails) ==
  [internal |-> internal, primary |-> primary, emails |-> emails]
Insider == E(TRUE, "ann@corp.com", <<"ann@corp.com">>)
Outsider == E(FALSE, NoAddress, <<"eve@out.org">>)
Blank == E(FALSE, NoAddress, <<>>)
Broken == E(FALSE, "max at out", <<"max@out.org">>)
MCEntry == {Insider, Outsider, Blank, Broken}
MCDomain == [e \in {"ann@corp.com", "eve@out.org", "max@out.org", "max at out"} |->
               CASE e = "ann@corp.com" -> "corp.com" [] e = "max at out" -> Unknown
                 [] OTHER -> "out.org"]
Directory(eve, max) ==
  [a \in MCActor |-> CASE a = "eve" -> eve [] a = "max" -> max [] OTHER -> Insider]
MCDirectories == {Directory(Outsider, Nobody), Directory(Blank, Outsider),
                  Directory(Nobody, Broken)}
MCLoadable == [a \in MCActor |-> IF a \in {"eve", "max"} THEN {Insider, Outsider} ELSE {}]
=============================================================================
