-------------------------- MODULE MCIngestCommand --------------------------
(***************************************************************************)
(* Two messages under one Message-ID header, sources of up to three (so    *)
(* one comes twice), a directory entry that owns two of the mailboxes, an  *)
(* address that no message names, and two commands that read a source.     *)
(***************************************************************************)
EXTENDS IngestCommand

CONSTANTS a1, a2, b1, c1, m1, m2, t1, t2

MCAddress == {a1, a2, b1, c1}
MCEmail == {"ann", "ann2", "bob", "cyd"}
MCNormal == [a \in MCAddress |->
               CASE a = a1 -> "ann" [] a = a2 -> "ann2" [] a = b1 -> "bob" [] a = c1 -> "cyd"]
MCInternalEmail == {"ann", "ann2"}
MCUserName == {"ann"}
MCRoster == {[id |-> <<"user", "ann">>, emails |-> {"ann", "ann2"},
              primary |-> "ann", internal |-> TRUE]}
MCMailId == {m1, m2}
MCHeader ==
  [m \in MCMailId |->
     IF m = m1
     THEN [from |-> b1, to |-> <<a1, a2>>, cc |-> <<>>, bcc |-> <<>>]
     ELSE [from |-> a1, to |-> <<b1>>, cc |-> <<b1>>, bcc |-> <<a2>>]]
MCMessageID == [m \in MCMailId |-> "id"]
MCThread == {t1, t2}
=============================================================================
