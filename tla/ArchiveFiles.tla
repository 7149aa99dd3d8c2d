--------------------------- MODULE ArchiveFiles ---------------------------
(***************************************************************************)
(* The stdio of the game (runtime/archive.py): streams on two host files,  *)
(* the resource archive and the save file.  A file is a sequence of bytes, *)
(* a stream has a mode and a position of its own.  The host's disk may     *)
(* refuse bytes at any time: what Python could not flush stays in the      *)
(* stream and goes out with its next flush.  Python's files are modelled   *)
(* as far as the handlers use them; the bytes it reads ahead are not.      *)
(***************************************************************************)
EXTENDS Integers, Sequences, SequencesExt, FiniteSets

CONSTANTS
  Byte,          \* byte values
  Original,      \* contents of the resource archive when the run starts
  GuestModes,    \* mode strings the game passes to fopen
  Sizes,         \* item sizes and counts the game passes
  Offsets,       \* offsets the game passes to fseek
  MaxLength,     \* bound: lengths and positions of a file
  MaxHandles,    \* bound: streams opened in one run
  Absent         \* a file that does not exist

ASSUME FilesAssumption ==
  /\ Byte \subseteq 0..255 /\ Original \in Seq(0..255)
  /\ Absent \notin Seq(0..255)
  /\ Sizes \subseteq Nat /\ Offsets \subseteq Int
  /\ MaxLength \in Nat /\ MaxHandles \in Nat

Paths == {"save", "resource"}  \* a name that ends in \THESIMS.SAV, and any other
PyModes == {"rb", "r+b", "wb", "w+b", "ab", "a+b"}

VARIABLES
  saveSet,     \* ctx.save_file_path is configured
  disk,        \* the host files
  streams,     \* ctx.estlib_files
  nextHandle,  \* ctx.estlib_next_handle
  gone,        \* ghost: the numbers of the streams fclose has closed
  wrote,       \* ghost: <<path, offset>> -> the last byte fwrite acknowledged there
  ravaged,     \* ghost: the game opened a name other than the save for writing
  clash,       \* ghost: a write was acknowledged on a file on which another
               \* stream had bytes left over from a write that failed
  ended        \* ghost: the call whose exception ended the run

fileVars == <<saveSet, disk, streams, nextHandle, gone, wrote, ravaged, clash, ended>>

Readable(m) == m \in {"rb", "r+b", "w+b", "a+b"}
Writable(m) == m # "rb"
Truncates(m) == m \in {"wb", "w+b"}
Appends(m) == m \in {"ab", "a+b"}

-----------------------------------------------------------------------------
\* Every name opens the archive, as before the save path was told apart.
BackingAlwaysArchive(path) == "resource"

\* The host file behind a guest path, or "none".
Backing(path) ==
  IF path # "save" THEN "resource" ELSE IF saveSet THEN "save" ELSE "none"

\* A mode Python does not know is read as "rb".
PyMode(mode) == IF mode \in PyModes THEN mode ELSE "rb"

\* open() fails on a missing file unless the mode creates it.
CanOpen(file, m) == disk[file] # Absent \/ Truncates(m) \/ Appends(m)

Forget(file) == [k \in {j \in DOMAIN wrote : j[1] # file} |-> wrote[k]]

HandleFopen(path, mode) ==
  LET m == PyMode(mode)
      file == Backing(path)
      kept == IF Truncates(m) \/ disk[file] = Absent THEN <<>> ELSE disk[file]
  IN  /\ nextHandle < MaxHandles
      /\ IF file # "none" /\ CanOpen(file, m)
         THEN /\ disk' = [disk EXCEPT ![file] = kept]
              /\ streams' = [h \in (DOMAIN streams) \cup {nextHandle} |->
                   IF h # nextHandle THEN streams[h]
                   ELSE [file |-> file, mode |-> m,
                         pos |-> IF Appends(m) THEN Len(kept) ELSE 0, pending |-> <<>>]]
              /\ nextHandle' = nextHandle + 1
              /\ wrote' = IF Truncates(m) THEN Forget(file) ELSE wrote
              /\ ravaged' = (ravaged \/ (path # "save" /\ Writable(m)))
         ELSE UNCHANGED <<disk, streams, nextHandle, wrote, ravaged>>
      /\ UNCHANGED <<saveSet, gone, clash, ended>>

\* Bytes written at a position; the gap behind the end is filled with zeros.
Written(content, at, bytes) ==
  [i \in 1 .. (IF at + Len(bytes) > Len(content) THEN at + Len(bytes) ELSE Len(content)) |->
     IF i > at /\ i <= at + Len(bytes) THEN bytes[i - at]
     ELSE IF i <= Len(content) THEN content[i] ELSE 0]

\* The file of a stream once its bytes are flushed; bytes of an append mode
\* go to the end the file has then.
Flushed(h, pending) ==
  FoldLeft(LAMBDA content, w :
             Written(content, IF Appends(streams[h].mode) THEN Len(content) ELSE w[1], w[2]),
           disk[streams[h].file], pending)

\* Left-over bytes go out now, unless the disk is full.
FlushFails(h, full) == full /\ streams[h].pending # <<>>

Flush(h, rest) ==
  /\ disk' = [disk EXCEPT ![streams[h].file] = Flushed(h, streams[h].pending)]
  /\ streams' = [streams EXCEPT ![h].pending = <<>>, ![h].pos = rest]

\* fclose: the stream is gone even when its bytes could not be flushed.
HandleFclose(h, full) ==
  /\ h \in DOMAIN streams
  /\ disk' = IF FlushFails(h, full) THEN disk
             ELSE [disk EXCEPT ![streams[h].file] = Flushed(h, streams[h].pending)]
  /\ streams' = [k \in DOMAIN streams \ {h} |-> streams[k]]
  /\ gone' = gone \cup {h}
  /\ UNCHANGED <<saveSet, nextHandle, wrote, ravaged, clash, ended>>

\* A stream fopen never returned, or one that is closed: every call answers
\* with its error value and changes nothing.
HandleUnknown(h) ==
  /\ h \notin DOMAIN streams
  /\ UNCHANGED fileVars

\* The bytes a read of n returns: up to n, from the position.
Raw(h, n) ==
  LET content == Flushed(h, streams[h].pending)
      last == streams[h].pos + n
  IN  SubSeq(content, streams[h].pos + 1, IF last < Len(content) THEN last ELSE Len(content))

\* read() on a stream opened only for writing raises, so do a flush of left-
\* over bytes before it and a store to an address that is not mapped: neither
\* handler catches it, and the run ends.
HandleRead(h, n, mapped, full) ==
  /\ h \in DOMAIN streams
  /\ IF ~Readable(streams[h].mode) \/ FlushFails(h, full)
     THEN ended' = "read raised" /\ UNCHANGED <<disk, streams>>
     ELSE /\ Flush(h, streams[h].pos + Len(Raw(h, n)))
          /\ ended' = IF Len(Raw(h, n)) > 0 /\ ~mapped THEN "unmapped buffer" ELSE ended
  /\ UNCHANGED <<saveSet, nextHandle, gone, wrote, ravaged, clash>>

\* fread: nothing happens for an empty item or count.
HandleFread(h, size, nmemb, mapped, full) ==
  IF h \in DOMAIN streams /\ size * nmemb = 0 THEN UNCHANGED fileVars
  ELSE HandleRead(h, size * nmemb, mapped, full)

HandleFgetc(h, full) == HandleRead(h, 1, TRUE, full)

\* Offsets are taken as signed; a negative target, an unknown whence or a
\* failing flush raises and is answered with -1.
HandleFseek(h, offset, whence, full) ==
  LET s == streams[h]
      origin == CASE whence = 0 -> 0 [] whence = 1 -> s.pos
                  [] OTHER -> Len(Flushed(h, s.pending))
      target == origin + offset
  IN  /\ h \in DOMAIN streams
      /\ target <= MaxLength
      /\ IF whence \notin 0..2 \/ FlushFails(h, full) THEN UNCHANGED <<disk, streams>>
         ELSE Flush(h, IF target >= 0 THEN target ELSE s.pos)
      /\ UNCHANGED <<saveSet, nextHandle, gone, wrote, ravaged, clash, ended>>

\* fwrite: a stream that cannot be written or a range that cannot be read is
\* answered with 0, and so is a full disk, whose bytes stay in the stream
\* (bound: of one failed write at a time).
HandleFwrite(h, size, nmemb, byte, mapped, full) ==
  LET n == size * nmemb
      s == streams[h]
      at == IF Appends(s.mode) THEN Len(Flushed(h, s.pending)) ELSE s.pos
      bytes == [i \in 1..n |-> byte]
      spots == {<<s.file, i>> : i \in (at + 1) .. (at + n)}
  IN  /\ h \in DOMAIN streams
      /\ at + n <= MaxLength
      /\ IF n = 0 \/ ~Writable(s.mode) \/ ~mapped
         THEN UNCHANGED <<disk, streams, wrote, clash>>
         ELSE IF full
         THEN /\ s.pending = <<>>
              /\ streams' = [streams EXCEPT ![h].pending = Append(@, <<at, bytes>>),
                                            ![h].pos = at + n]
              /\ wrote' = [k \in DOMAIN wrote \ spots |-> wrote[k]]
              /\ UNCHANGED <<disk, clash>>
         ELSE /\ disk' = [disk EXCEPT ![s.file] = Flushed(h, Append(s.pending, <<at, bytes>>))]
              /\ streams' = [streams EXCEPT ![h].pending = <<>>, ![h].pos = at + n]
              /\ wrote' = [k \in DOMAIN wrote \cup spots |->
                             IF k \in spots THEN byte ELSE wrote[k]]
              /\ clash' = (clash \/ \E o \in DOMAIN streams \ {h} :
                             streams[o].file = s.file /\ streams[o].pending # <<>>)
      /\ UNCHANGED <<saveSet, nextHandle, gone, ravaged, ended>>

-----------------------------------------------------------------------------
FilesInit ==
  /\ saveSet \in BOOLEAN
  /\ \E save, archive \in {Absent, Original} :
       disk = [f \in Paths |-> IF f = "save" THEN save ELSE archive]
  /\ streams = <<>>
  /\ nextHandle = 0 /\ gone = {}
  /\ wrote = <<>>
  /\ ravaged = FALSE /\ clash = FALSE
  /\ ended = "no"

FilesNext ==
  /\ ended = "no"
  /\ \/ \E path \in Paths, mode \in GuestModes : HandleFopen(path, mode)
     \/ \E h \in 0..MaxHandles, full \in BOOLEAN :
          \/ HandleFclose(h, full)
          \/ HandleUnknown(h)
          \/ HandleFgetc(h, full)
          \/ \E size, nmemb \in Sizes, mapped \in BOOLEAN :
               \/ HandleFread(h, size, nmemb, mapped, full)
               \/ \E byte \in Byte : HandleFwrite(h, size, nmemb, byte, mapped, full)
          \/ \E offset \in Offsets, whence \in 0..3 : HandleFseek(h, offset, whence, full)

FilesSpec == FilesInit /\ [][FilesNext]_fileVars

-----------------------------------------------------------------------------
(* Properties.                                                             *)

\* A game that opens for writing nothing but its save file never changes the
\* resource archive, whatever else it does with its streams: before v233 the
\* save path was answered with the archive itself (archive.py:43-52).
ArchiveIntact == ravaged \/ disk["resource"] \in {Absent, Original}

\* The run may end at any instruction, and Python may never close the
\* streams: every byte fwrite has acknowledged, unless it was overwritten or
\* truncated away later, is in the file by then, at its place, whichever
\* streams wrote to the file and however often the disk was full in between
\* (archive.py:125-141).  Only a stream that still holds bytes of a failed
\* write can damage what another one writes meanwhile.
AckedIsOnDisk ==
  clash \/ \A k \in DOMAIN wrote : k[2] <= Len(disk[k[1]]) /\ disk[k[1]][k[2]] = wrote[k]

\* Streams stand on files that exist, at a position that is not negative, and
\* a number fclose has closed is never a stream again: fopen gives the next
\* one, however many streams were closed in between, so a stale FILE* of the
\* game meets an error and not somebody else's file (archive.py:58-60 and 69).
StreamsSound ==
  /\ gone \cap DOMAIN streams = {}
  /\ gone \cup DOMAIN streams = 0 .. (nextHandle - 1)
  /\ \A h \in DOMAIN streams :
       /\ streams[h].pos >= 0
       /\ disk[streams[h].file] # Absent
       /\ streams[h].file = "save" => saveSet

FilesSound == ArchiveIntact /\ AckedIsOnDisk /\ StreamsSound
=============================================================================
