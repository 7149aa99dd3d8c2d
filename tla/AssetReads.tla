----------------------------- MODULE AssetReads -----------------------------
(***************************************************************************)
(* Serving the game's record reads from a directory of unpacked records    *)
(* (runtime/assets.py).  The game reads a record through a handle that     *)
(* holds a cursor and the index of the record; the hook on its read        *)
(* wrapper either answers the read itself (mode "skip") or lets the engine *)
(* read from the archive and replaces the bytes when the wrapper returns   *)
(* (mode "overwrite").  The engine's read is external: by the measurements *)
(* the module quotes it moves the cursor by the total and returns it.      *)
(***************************************************************************)
EXTENDS Integers, Sequences, SequencesExt, FiniteSetsExt

CONSTANTS
  Handles,      \* handles of the game, one record each
  RecordOf,     \* the record of each handle
  Lengths,      \* length of each record's unpacked bytes
  Totals,       \* size * count of a read
  MaxCursor     \* bound: cursors

Records == DOMAIN Lengths

\* Every handle holds the index of a record; lengths and totals are naturals.
ASSUME AssetAssumption ==
  /\ RecordOf \in [Handles -> Records]
  /\ \A r \in Records : Lengths[r] \in Nat
  /\ Totals \subseteq Nat

\* Byte i of record r, from the directory or from the archive: told apart.
FromFile(r, i) == <<"file", r, i>>
FromEngine(r, i) == <<"engine", r, i>>

VARIABLES
  mode,      \* mode of install
  inManifest, onDisk,  \* records the manifest lists, and those whose file exists
  cached,    \* DirectoryProvider._cache
  cursor,    \* the cursor in each handle
  pending,   \* pending[0]
  buffer,    \* what the last finished read put into the game's buffer
  reading,   \* ghost: the read in progress, or the last one
  served     \* ghost: the provider answered that read

assetVars == <<mode, inManifest, onDisk, cached, cursor, pending, buffer, reading, served>>

NoChunk == << <<"none">> >>
Idle == [handle |-> "none", at |-> 0, total |-> 0, done |-> TRUE]

\* DirectoryProvider.get: a record once read is served from memory.
Provided(r) == r \in cached \/ (r \in inManifest /\ r \in onDisk)

\* blob[cursor : cursor + total], short at the end of the record.
Chunk(h, total) ==
  [i \in 1 .. Max({0, Min({total, Lengths[RecordOf[h]] - cursor[h]})}) |->
     FromFile(RecordOf[h], cursor[h] + i)]

EngineBytes(h, at, total) == [i \in 1..total |-> FromEngine(RecordOf[h], at + i)]

\* on_read for a call the provider answers in mode "skip": nothing of the
\* engine's read happens.
SkipRead(h, total) ==
  /\ mode = "skip"
  /\ buffer' = Chunk(h, total)
  /\ cursor' = [cursor EXCEPT ![h] = @ + Len(Chunk(h, total))]
  /\ reading' = [handle |-> h, at |-> cursor[h], total |-> total, done |-> TRUE]
  /\ UNCHANGED pending

\* on_read in mode "overwrite": the chunk waits for the return.
NoteRead(h, total) ==
  /\ mode = "overwrite"
  /\ pending' = Chunk(h, total)
  /\ reading' = [handle |-> h, at |-> cursor[h], total |-> total, done |-> FALSE]
  /\ UNCHANGED <<buffer, cursor>>

\* A read of nothing, of an unreadable handle or of a record that is not
\* provided is left to the engine.
LeaveRead(h, total) ==
  /\ reading' = [handle |-> h, at |-> cursor[h], total |-> total, done |-> FALSE]
  /\ UNCHANGED <<buffer, cursor, pending>>

OnRead(h, total, handleReadable) ==
  /\ reading.done
  /\ cursor[h] + total <= MaxCursor
  /\ LET looked == total > 0 /\ handleReadable
     IN  /\ served' = (looked /\ Provided(RecordOf[h]))
         /\ cached' = IF served' THEN cached \cup {RecordOf[h]} ELSE cached
         /\ IF served' THEN SkipRead(h, total) \/ NoteRead(h, total) ELSE LeaveRead(h, total)
  /\ UNCHANGED <<mode, inManifest, onDisk>>

\* Replacing the head of what the engine read.
Overlaid(chunk, bytes) ==
  [i \in 1 .. Max({Len(bytes), Len(chunk)}) |-> IF i <= Len(chunk) THEN chunk[i] ELSE bytes[i]]

\* The chunk is not taken out at the return.
ChunkStays(hooked) == pending

\* pending[0] = None: a chunk is written once.
ChunkTaken(hooked) == IF hooked THEN NoChunk ELSE pending

\* The engine's read, and on_ret at its return.
EngineReturns ==
  LET r == reading
      bytes == EngineBytes(r.handle, r.at, r.total)
      hooked == mode = "overwrite" /\ pending # NoChunk
  IN  /\ ~r.done
      /\ buffer' = IF hooked THEN Overlaid(pending, bytes) ELSE bytes
      /\ pending' = ChunkTaken(hooked)
      /\ cursor' = [cursor EXCEPT ![r.handle] = @ + r.total]
      /\ reading' = [r EXCEPT !.done = TRUE]
      /\ UNCHANGED <<mode, inManifest, onDisk, cached, served>>

\* The files are replaced while the game runs.
DirectoryChanges(records) ==
  /\ onDisk' = records
  /\ UNCHANGED <<mode, inManifest, cached, cursor, pending, buffer, reading, served>>

AssetInit ==
  /\ mode \in {"skip", "overwrite"}
  /\ inManifest \in SUBSET Records /\ onDisk \in SUBSET Records
  /\ cached = {} /\ cursor = [h \in Handles |-> 0]
  /\ pending = NoChunk /\ buffer = <<>> /\ reading = Idle /\ served = FALSE

AssetNext ==
  \/ \E h \in Handles, total \in Totals, ok \in BOOLEAN : OnRead(h, total, ok)
  \/ EngineReturns
  \/ \E records \in SUBSET Records : DirectoryChanges(records)

-----------------------------------------------------------------------------
(* Properties.                                                             *)

\* The buffer of a finished read holds the bytes of its own record from its
\* own cursor on: from the directory as far as the record goes when the
\* provider answered, the engine's own bytes otherwise.  The chunk of one
\* read never lands in the buffer of another, whatever reads of other handles
\* and empty or failed reads lie between (assets.py:106-152).
ReadsAreTheirOwn ==
  LET r == reading
      given == Max({0, Min({r.total, Lengths[RecordOf[r.handle]] - r.at})})
  IN  r # Idle /\ r.done =>
        \A i \in DOMAIN buffer :
          buffer[i] = IF served /\ i <= given THEN FromFile(RecordOf[r.handle], r.at + i)
                      ELSE FromEngine(RecordOf[r.handle], r.at + i)

=============================================================================
