--------------------------- MODULE MCSessionFile ---------------------------
(***************************************************************************)
(* Two commands, three saves, sessions of one or two chunks: a short one   *)
(* after a long one, a crash after each chunk, and loads in between.       *)
(***************************************************************************)
EXTENDS SessionFile
=============================================================================
