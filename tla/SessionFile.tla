---------------------------- MODULE SessionFile ----------------------------
(***************************************************************************)
(* session/session.go: one session file, and the commands that save it and *)
(* load it.  Save truncates the file and then writes one JSON value; Load  *)
(* reads until the first value is complete and ignores what follows.       *)
(* Nothing locks the file, so commands may overlap, and a command may die  *)
(* at any point.                                                           *)
(*                                                                         *)
(* The text of a session is a number of chunks, the unit in which bytes    *)
(* become visible to others; chunk i of version v is <<v, i>>.  A version  *)
(* is <<n, size>>: the n-th save, size chunks long.                        *)
(***************************************************************************)
EXTENDS Naturals, Sequences, SequencesExt

CONSTANTS
  Process,    \* commands running at the same time
  MaxSaves,   \* bound on the saves of one behaviour
  MaxChunks   \* bound on the length of a session's text

ASSUME MaxSavesAssumption == MaxSaves \in Nat
ASSUME MaxChunksAssumption == MaxChunks \in Nat \ {0}

VARIABLES
  exists,   \* the file exists
  file,     \* its chunks
  saves,    \* saves begun so far
  pc,       \* pc[p]: "idle", "saving" or "loading"
  version,  \* version[p]: what p is saving
  offset,   \* offset[p]: chunks p has written or read
  buffer,   \* buffer[p]: the chunks p has read
  loaded,   \* loaded[p]: the outcome of p's last load
  alone,    \* alone[p]: nobody else saved while p's operation ran
  settled   \* what the last save left behind

sessionVars == <<exists, file, saves, pc, version, offset, buffer, loaded, alone, settled>>

Version == (1..MaxSaves) \X (1..MaxChunks)
Hole == <<<<0, 0>>, 0>>                 \* zero bytes under a late write
Chunk == (Version \X (1..MaxChunks)) \cup {Hole}

\* Outcomes of a load beside a version: an error, or chunks of different
\* versions that happen to parse.
Nothing == <<"nothing">>
Error == <<"error">>
Mixture == <<"mixture">>
\* What a save leaves beside a version: not known to anyone who overlapped it.
Unknown == <<"unknown">>

SessionTypeOK ==
  /\ exists \in BOOLEAN
  /\ file \in SeqOf(Chunk, MaxChunks)
  /\ saves \in 0..MaxSaves
  /\ pc \in [Process -> {"idle", "saving", "loading"}]
  /\ version \in [Process -> Version \cup {Nothing}]
  /\ offset \in [Process -> 0..MaxChunks]
  /\ buffer \in [Process -> SeqOf(Chunk, MaxChunks)]
  /\ loaded \in [Process -> Version \cup {Nothing, Error, Mixture}]
  /\ alone \in [Process -> BOOLEAN]
  /\ settled \in Version \cup {Nothing, Error, Unknown}
-----------------------------------------------------------------------------
SessionInit ==
  /\ exists = FALSE
  /\ file = <<>>
  /\ saves = 0
  /\ pc = [p \in Process |-> "idle"]
  /\ version = [p \in Process |-> Nothing]
  /\ offset = [p \in Process |-> 0]
  /\ buffer = [p \in Process |-> <<>>]
  /\ loaded = [p \in Process |-> Nothing]
  /\ alone = [p \in Process |-> TRUE]
  /\ settled = Nothing

Saving(p) == \E q \in Process \ {p} : pc[q] = "saving"

\* Fault: the file is opened for writing without O_TRUNC.
OpenedFile == file

\* os.Create truncates what is there.
CreatedFile == <<>>

BeginSave(p) ==
  /\ pc[p] = "idle"
  /\ saves < MaxSaves
  /\ saves' = saves + 1
  /\ exists' = TRUE
  /\ file' = CreatedFile
  /\ \E n \in 1..MaxChunks : version' = [version EXCEPT ![p] = <<saves + 1, n>>]
  /\ pc' = [pc EXCEPT ![p] = "saving"]
  /\ offset' = [offset EXCEPT ![p] = 0]
  /\ alone' = [q \in Process |->
                 IF q = p THEN ~Saving(p) ELSE alone[q] /\ pc[q] = "idle"]
  /\ settled' = Unknown
  /\ UNCHANGED <<buffer, loaded>>

\* The writer keeps its own offset, whatever others did to the file.
WriteChunk(p) ==
  /\ pc[p] = "saving"
  /\ offset[p] < version[p][2]
  /\ offset' = [offset EXCEPT ![p] = @ + 1]
  /\ LET at == offset[p] + 1
         end == IF at > Len(file) THEN at ELSE Len(file)
     IN  file' = [i \in 1..end |->
                    IF i = at THEN <<version[p], at>>
                    ELSE IF i <= Len(file) THEN file[i] ELSE Hole]
  /\ UNCHANGED <<exists, saves, pc, version, buffer, loaded, alone, settled>>

EndSave(p) ==
  /\ pc[p] = "saving"
  /\ offset[p] = version[p][2]
  /\ pc' = [pc EXCEPT ![p] = "idle"]
  /\ settled' = IF alone[p] THEN version[p] ELSE Unknown
  /\ UNCHANGED <<exists, file, saves, version, offset, buffer, loaded, alone>>

\* A write error, or the death of the command, in the middle of a save.
BreakSave(p) ==
  /\ pc[p] = "saving"
  /\ offset[p] < version[p][2]
  /\ pc' = [pc EXCEPT ![p] = "idle"]
  /\ settled' = IF alone[p] THEN Error ELSE Unknown
  /\ UNCHANGED <<exists, file, saves, version, offset, buffer, loaded, alone>>
-----------------------------------------------------------------------------
BeginLoad(p) ==
  /\ pc[p] = "idle"
  /\ exists
  /\ pc' = [pc EXCEPT ![p] = "loading"]
  /\ buffer' = [buffer EXCEPT ![p] = <<>>]
  /\ loaded' = [loaded EXCEPT ![p] = Nothing]
  /\ alone' = [alone EXCEPT ![p] = ~Saving(p)]
  /\ UNCHANGED <<exists, file, saves, version, offset, settled>>

\* The decoder stops when the value that the first chunk opens is complete.
ValueComplete(b) == Len(b) > 0 /\ (b[1] = Hole \/ Len(b) >= b[1][1][2])

ReadChunk(p) ==
  /\ pc[p] = "loading"
  /\ ~ValueComplete(buffer[p])
  /\ Len(buffer[p]) < Len(file)
  /\ buffer' = [buffer EXCEPT ![p] = Append(@, file[Len(@) + 1])]
  /\ UNCHANGED <<exists, file, saves, pc, version, offset, loaded, alone, settled>>

\* Fault: a text that ends early decodes to what could be read of it.
DecodeLeniently(b) == IF b = <<>> THEN {Error} ELSE {b[1][1]}

\* Zero bytes and a text that ends early never parse; a mixture may.
Decode(b) ==
  IF Hole \in ToSet(b) \/ ~ValueComplete(b) THEN {Error}
  ELSE IF \A i \in 1..Len(b) : b[i] = <<b[1][1], i>> THEN {b[1][1]}
  ELSE {Error, Mixture}

EndLoad(p) ==
  /\ pc[p] = "loading"
  /\ ValueComplete(buffer[p]) \/ Len(buffer[p]) >= Len(file)
  /\ \E result \in Decode(buffer[p]) : loaded' = [loaded EXCEPT ![p] = result]
  /\ pc' = [pc EXCEPT ![p] = "idle"]
  /\ UNCHANGED <<exists, file, saves, version, offset, buffer, alone, settled>>
-----------------------------------------------------------------------------
SessionNext == \E p \in Process :
  \/ BeginSave(p) \/ WriteChunk(p) \/ EndSave(p) \/ BreakSave(p)
  \/ BeginLoad(p) \/ ReadChunk(p) \/ EndLoad(p)

SessionSpec == SessionInit /\ [][SessionNext]_sessionVars
-----------------------------------------------------------------------------
(***************************************************************************)
(* A load that no save overlapped returns the session of the last save, or *)
(* an error if that save broke off: never an older session, never a part   *)
(* of one and never a mixture of two.  (Saves that overlapped each other   *)
(* leave a file nobody can vouch for.)                                     *)
(***************************************************************************)
QuietLoadIsLastSave ==
  [][\A p \in Process :
       pc[p] = "loading" /\ pc'[p] = "idle" /\ alone[p] /\ settled # Unknown =>
         loaded'[p] = settled]_sessionVars

(***************************************************************************)
(* What a save on its own leaves in the file: exactly its session when it  *)
(* returned, and a text that ends early when it broke off, whatever longer *)
(* or shorter session was there before.                                    *)
(***************************************************************************)
FileIsLastSave ==
  /\ SessionTypeOK
  /\ settled \in Version => file = [i \in 1..settled[2] |-> <<settled, i>>]
  /\ settled = Error => Decode(file) = {Error}
=============================================================================
