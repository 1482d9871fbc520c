------------------------------ MODULE Directory ------------------------------
(***************************************************************************)
(* The directory the far end serves (src/src/directory.rs): its files, when *)
(* each was last written, and the newest such time.  It is the state every *)
(* connection shares; each request is answered whole under its lock, so     *)
(* each request is one step here.  The operators below are what one request *)
(* does to that state; FarEnd gives them channels and handles.             *)
(***************************************************************************)
EXTENDS Integers, Sequences

CONSTANTS
  Name,      \* the names a request may carry
  ByteMax,   \* a byte is 0..ByteMax (255 in the code)
  MaxBody,   \* net::MAX_BODY: the most the far end holds of one file
  WordMax,   \* usize::MAX, where an offset and its end saturate
  TimeMax    \* u32::MAX, where a modification time saturates

ASSUME DirectoryAssumption ==
  /\ ByteMax \in Nat
  /\ WordMax \in Nat
  /\ MaxBody \in 0 .. WordMax - 1
  /\ TimeMax \in Nat \ {0}

VARIABLES
  files,     \* Directory.files: name to bytes
  written,   \* Directory.written: name to the time of its last write
  newest     \* Directory.newest: the latest time handed out

dirVars == <<files, written, newest>>
-----------------------------------------------------------------------------
(***************************************************************************)
(* Values.                                                                 *)
(***************************************************************************)
Bytes == Seq(0 .. ByteMax)
Time == 0 .. TimeMax
Stamps == [length : Nat, modified : Time]

MaxOf(a, b) == IF a >= b THEN a ELSE b
MinOf(a, b) == IF a <= b THEN a ELSE b

\* BTreeMap, its insert and its remove.
IsMap(map, keys, values) ==
  DOMAIN map \subseteq keys /\ map \in [DOMAIN map -> values]

Insert(map, key, value) ==
  [k \in DOMAIN map \cup {key} |-> IF k = key THEN value ELSE map[k]]

Without(map, key) == [k \in DOMAIN map \ {key} |-> map[k]]

DirTypeOK ==
  /\ IsMap(files, Name, Bytes)
  /\ IsMap(written, Name, Time)
  /\ newest \in Time
-----------------------------------------------------------------------------
(***************************************************************************)
(* Reading the directory.                                                  *)
(***************************************************************************)
\* Directory::modified: never, for a file the directory was given.
Modified(n) == IF n \in DOMAIN written THEN written[n] ELSE 0

\* What READDIR and STAT give of a file: its length and modification time.
Stamp(n) == [length |-> Len(files[n]), modified |-> Modified(n)]
-----------------------------------------------------------------------------
(***************************************************************************)
(* Changing it.                                                            *)
(***************************************************************************)
\* Faults, each a plausible slip in the definition it names: a time that is
\* not held to a u32, one that is not after the write before it.
TouchedUnbounded(now) == MaxOf(now, newest + 1)
TouchedByClock(now) == MaxOf(now, newest)

\* Directory::touch, the clock reading `now`: after the write before it,
\* as far as a u32 goes.  The wall clock is free to stand still or go back.
Touched(now) == MaxOf(now, MinOf(newest + 1, TimeMax))

Touch(n, now) ==
  /\ newest' = Touched(now)
  /\ written' = Insert(written, n, Touched(now))

\* The refusal of an open with EXCL of a name that exists.
ExclRefused(n, flags) == n \in DOMAIN files /\ "EXCL" \in flags

\* The write side of on_open: created empty, or emptied where TRUNC says so.
OpenForWriting(n, flags, now) ==
  /\ files' = IF n \notin DOMAIN files \/ "TRUNC" \in flags
                THEN Insert(files, n, <<>>)
                ELSE files
  /\ Touch(n, now)

\* Fault: the end of a write wraps.
WriteEndWrapping(offset, data) == (offset + Len(data)) % (WordMax + 1)

\* Where a write ends; the sum saturates.
WriteEnd(offset, data) == MinOf(offset + Len(data), WordMax)

\* Fault: a write goes to the end, wherever it is for.
OverwrittenAtEnd(bytes, offset, data) == bytes \o data

\* Vec::resize with zeros where the write ends past the file, then the copy.
Overwritten(bytes, offset, data) ==
  [i \in 1 .. MaxOf(Len(bytes), offset + Len(data)) |->
     IF offset < i /\ i <= offset + Len(data) THEN data[i - offset]
     ELSE IF i <= Len(bytes) THEN bytes[i] ELSE 0]

\* Fault: a write that is not noted.
WriteToUntouched(n, offset, data, now) ==
  /\ WriteEnd(offset, data) <= MaxBody
  /\ LET held == IF n \in DOMAIN files THEN files[n] ELSE <<>>
     IN  files' = Insert(files, n, Overwritten(held, offset, data))
  /\ UNCHANGED <<written, newest>>

\* on_write: the file is looked up by name, and made where it is gone.
WriteTo(n, offset, data, now) ==
  /\ WriteEnd(offset, data) <= MaxBody
  /\ LET held == IF n \in DOMAIN files THEN files[n] ELSE <<>>
     IN  files' = Insert(files, n, Overwritten(held, offset, data))
  /\ Touch(n, now)

\* Fault: REMOVE leaves the time behind.
RemoveFileOnly(n) ==
  /\ files' = Without(files, n)
  /\ UNCHANGED <<written, newest>>

\* REMOVE: its time goes whether or not the file is there.
RemoveFile(n) ==
  /\ written' = Without(written, n)
  /\ files' = Without(files, n)
  /\ UNCHANGED newest

\* on_rename where neither early return is taken: the time moves along.
CanRename(from, to) == to \notin DOMAIN files /\ from \in DOMAIN files

RenameFile(from, to) ==
  /\ CanRename(from, to)
  /\ files' = Insert(Without(files, from), to, files[from])
  /\ written' = IF from \in DOMAIN written
                  THEN Insert(Without(written, from), to, written[from])
                  ELSE written
  /\ UNCHANGED newest
=============================================================================
