---------------------------- MODULE MCMailIngest ----------------------------
(***************************************************************************)
(* All four calls, every source of up to MaxEntries entries, and channels  *)
(* small enough to fill up.                                                *)
(***************************************************************************)
EXTENDS MailIngest

AllModes == Mode
MboxIncremental == [format : {"mbox"}, incremental : {TRUE}]
=============================================================================
