---------------------------- MODULE FarEndProofs -----------------------------
(***************************************************************************)
(* What TLAPS proves of the far end, for any channels, names, bytes and    *)
(* bounds.  The argument for StampSound is the invariant StampInv: a time  *)
(* is handed out once (TimesDistinct), to a file that is there             *)
(* (TimesHaveFiles), and one a client was shown is never given to other    *)
(* bytes (TimesTraced).                                                    *)
(***************************************************************************)
EXTENDS FarEnd, DirectoryProofs

USE DirectoryAssumption, FarEndAssumption

-----------------------------------------------------------------------------
\* The inductive invariant of the directory and of what was seen of it.
StampInv ==
  /\ DirTypeOK
  /\ IsMap(seen, Name, Observation)
  /\ FilesBounded
  /\ TimesHaveFiles
  /\ TimesDistinct
  /\ TimesTraced

\* A write: the file holds new bytes, or the same ones, and touch gives it a
\* time nobody was shown.
LEMMA TouchKeepsStampInv ==
  ASSUME StampInv, NEW n \in Name, NEW now \in Time,
         NEW bytes \in Bytes, Len(bytes) <= MaxBody,
         files' = Insert(files, n, bytes), Touch(n, now), seen' = seen
  PROVE  StampInv'
<1> USE DEF StampInv, DirTypeOK
<1>1. /\ Touched(now) \in 1 .. TimeMax
      /\ Touched(now) >= newest
      /\ Touched(now) > newest \/ Touched(now) = TimeMax
  BY TouchedType
<1>2. /\ IsMap(files', Name, Bytes)
      /\ DOMAIN files' = DOMAIN files \cup {n}
      /\ files'[n] = bytes
      /\ \A k \in DOMAIN files : k # n => files'[k] = files[k]
  BY DEF Insert, IsMap
<1>3. /\ IsMap(written', Name, Time)
      /\ DOMAIN written' = DOMAIN written \cup {n}
      /\ written'[n] = Touched(now)
      /\ \A k \in DOMAIN written : k # n => written'[k] = written[k]
      /\ newest' = Touched(now)
  BY <1>1, TouchedType DEF Touch, Insert, IsMap
<1>4. DirTypeOK' /\ IsMap(seen, Name, Observation)'
  BY <1>1, <1>2, <1>3 DEF Time
<1>5. FilesBounded'
  BY <1>2 DEF FilesBounded
<1>6. TimesHaveFiles'
  BY <1>2, <1>3 DEF TimesHaveFiles
<1>7. \A m \in DOMAIN written : written[m] \in 1 .. newest
  BY DEF TimesTraced
<1>8. newest \in 0 .. TimeMax
  BY DEF Time
<1>9. TimesDistinct'
  BY <1>1, <1>3, <1>7, <1>8 DEF TimesDistinct
<1>10. TimesTraced'
  <2>1. \A m \in DOMAIN written' : written'[m] \in 1 .. newest'
    BY <1>1, <1>3, <1>7, <1>8
  <2>2. ASSUME NEW k \in DOMAIN seen
        PROVE  /\ seen[k].stamp.modified <= newest'
               /\ \A m \in DOMAIN written' :
                    written'[m] = seen[k].stamp.modified /\ written'[m] < TimeMax
                      => files'[m] = seen[k].bytes
    <3>1. seen[k].stamp.modified <= newest /\ seen[k].stamp.modified \in 0 .. TimeMax
      BY DEF TimesTraced, IsMap, Observation, Stamps, Time
    <3>2. \A m \in DOMAIN written :
            written[m] = seen[k].stamp.modified /\ written[m] < TimeMax
              => files[m] = seen[k].bytes
      BY DEF TimesTraced
    <3>3. \A m \in DOMAIN written : m \in DOMAIN files
      BY DEF TimesHaveFiles
    <3> QED BY <1>1, <1>2, <1>3, <1>7, <1>8, <3>1, <3>2, <3>3
  <2> QED BY <2>1, <2>2 DEF TimesTraced
<1> QED BY <1>4, <1>5, <1>6, <1>9, <1>10

\* The write side of on_open.
LEMMA OpenKeepsStampInv ==
  ASSUME StampInv, NEW n \in Name, NEW flags, NEW now \in Time,
         OpenForWriting(n, flags, now), seen' = seen
  PROVE  StampInv'
<1>1. <<>> \in Bytes /\ Len(<<>>) <= MaxBody
  BY DEF Bytes
<1>2. CASE n \notin DOMAIN files \/ "TRUNC" \in flags
  BY <1>1, <1>2, TouchKeepsStampInv DEF OpenForWriting
<1>3. CASE ~ (n \notin DOMAIN files \/ "TRUNC" \in flags)
  <2>1. files[n] \in Bytes /\ Len(files[n]) <= MaxBody
    BY <1>3 DEF StampInv, DirTypeOK, IsMap, FilesBounded
  <2>2. files' = Insert(files, n, files[n])
    BY <1>3 DEF OpenForWriting, Insert, StampInv, DirTypeOK, IsMap
  <2> QED BY <2>1, <2>2, TouchKeepsStampInv DEF OpenForWriting
<1> QED BY <1>2, <1>3

\* on_write.
LEMMA WriteKeepsStampInv ==
  ASSUME StampInv, NEW n \in Name, NEW offset \in Offset, NEW data \in Data,
         NEW now \in Time, WriteTo(n, offset, data, now), seen' = seen
  PROVE  StampInv'
<1> DEFINE held == IF n \in DOMAIN files THEN files[n] ELSE <<>>
           bytes == Overwritten(held, offset, data)
<1>1. held \in Bytes /\ Len(held) <= MaxBody
  <2>1. CASE n \in DOMAIN files
    BY <2>1 DEF StampInv, DirTypeOK, IsMap, FilesBounded
  <2>2. CASE n \notin DOMAIN files
    BY <2>2 DEF Bytes
  <2> QED BY <2>1, <2>2
<1>2. offset \in Nat /\ data \in Bytes /\ Len(data) \in Nat /\ Len(held) \in Nat
  BY <1>1 DEF Bytes
<1>3. bytes \in Bytes /\ Len(bytes) = MaxOf(Len(held), offset + Len(data))
  BY <1>1, <1>2, OverwrittenType
<1>4. offset + Len(data) <= MaxBody
  BY <1>2 DEF WriteTo, WriteEnd, MinOf
<1>5. Len(bytes) <= MaxBody
  BY <1>1, <1>2, <1>3, <1>4 DEF MaxOf
<1> HIDE DEF bytes
<1>6. files' = Insert(files, n, bytes) /\ Touch(n, now)
  BY DEF WriteTo, bytes
<1> QED BY <1>3, <1>5, <1>6, TouchKeepsStampInv

\* REMOVE.
LEMMA RemoveKeepsStampInv ==
  ASSUME StampInv, NEW n \in Name, RemoveFile(n), seen' = seen
  PROVE  StampInv'
<1> USE DEF StampInv, DirTypeOK
<1>1. /\ IsMap(files', Name, Bytes)
      /\ DOMAIN files' = DOMAIN files \ {n}
      /\ \A k \in DOMAIN files : k # n => files'[k] = files[k]
  BY DEF RemoveFile, Without, IsMap
<1>2. /\ IsMap(written', Name, Time)
      /\ DOMAIN written' = DOMAIN written \ {n}
      /\ \A k \in DOMAIN written : k # n => written'[k] = written[k]
      /\ newest' = newest
  BY DEF RemoveFile, Without, IsMap
<1>3. FilesBounded' /\ TimesHaveFiles' /\ TimesDistinct'
  BY <1>1, <1>2 DEF FilesBounded, TimesHaveFiles, TimesDistinct
<1>4. TimesTraced'
  BY <1>1, <1>2 DEF TimesTraced, TimesHaveFiles
<1> QED BY <1>1, <1>2, <1>3, <1>4

\* RENAME: the bytes and their time move together.
LEMMA RenameKeepsStampInv ==
  ASSUME StampInv, NEW from \in Name, NEW to \in Name, RenameFile(from, to),
         seen' = seen
  PROVE  StampInv'
<1> USE DEF StampInv, DirTypeOK
<1>1. from \in DOMAIN files /\ to \notin DOMAIN files /\ from # to
  BY DEF RenameFile, CanRename
<1>2. /\ IsMap(files', Name, Bytes)
      /\ DOMAIN files' = (DOMAIN files \ {from}) \cup {to}
      /\ files'[to] = files[from]
      /\ \A k \in DOMAIN files : k # from => files'[k] = files[k]
  BY <1>1 DEF RenameFile, IsMap, Insert, Without
<1>3. /\ IsMap(written', Name, Time)
      /\ newest' = newest
      /\ \A k \in DOMAIN written' :
           \/ k = to /\ from \in DOMAIN written /\ written'[k] = written[from]
           \/ k \notin {to, from} /\ k \in DOMAIN written /\ written'[k] = written[k]
  BY <1>1 DEF RenameFile, IsMap, Insert, Without, TimesHaveFiles
<1>4. FilesBounded'
  BY <1>1, <1>2 DEF FilesBounded
<1>5. TimesHaveFiles'
  BY <1>2, <1>3 DEF TimesHaveFiles
<1>6. TimesDistinct'
  BY <1>3 DEF TimesDistinct
<1>7. TimesTraced'
  BY <1>1, <1>2, <1>3 DEF TimesTraced, TimesHaveFiles
<1> QED BY <1>2, <1>3, <1>4, <1>5, <1>6, <1>7

-----------------------------------------------------------------------------
\* The type of the handles and of the counter they are numbered by.
HandlesTyped ==
  /\ next \in [Channel -> 0 .. MaxHandles]
  /\ DOMAIN handles = Channel
  /\ \A c \in Channel : IsMap(handles[c], Number, Handle)
  /\ closed \in [Channel -> SUBSET Number]

\* An answer that hands out a handle.
LEMMA HandedTyped ==
  ASSUME HandlesTyped, NEW c \in Channel, Drawn(c), NEW handle \in Handle,
         Handed(c, handle), closed' = closed
  PROVE  HandlesTyped'
<1>1. next[c] \in Number /\ next' \in [Channel -> 0 .. MaxHandles]
  BY DEF HandlesTyped, Drawn, MayOpen, Number
<1>2. IsMap(Insert(handles[c], next[c], handle), Number, Handle)
  BY <1>1 DEF HandlesTyped, Insert, IsMap
<1> QED BY <1>1, <1>2 DEF HandlesTyped, Handed

\* One that leaves the directory, and what was seen of it, as they were.
LEMMA DirUnchanged ==
  ASSUME StampInv, UNCHANGED <<dirVars, seen>>
  PROVE  StampInv'
BY DEF StampInv, dirVars, DirTypeOK, FilesBounded, TimesHaveFiles, TimesDistinct, TimesTraced

\* READDIR and STAT: what is seen is what is there.
LEMMA SeenKeepsStampInv ==
  ASSUME StampInv, NEW n \in Name, seen' = Observed({n}), UNCHANGED dirVars
  PROVE  StampInv'
<1> USE DEF StampInv, DirTypeOK, dirVars
<1>1. ASSUME n \in DOMAIN files
      PROVE  /\ Stamp(n) \in Stamps
             /\ files[n] \in Bytes
             /\ Modified(n) <= newest
  BY <1>1 DEF Stamp, Stamps, Modified, IsMap, Time, Bytes, TimesTraced
<1>2. IsMap(seen', Name, Observation)
  BY <1>1 DEF Observed, Observation, IsMap
<1>3. ASSUME NEW k \in DOMAIN seen'
      PROVE  /\ k = n /\ n \in DOMAIN files
             /\ seen'[k].stamp.modified = Modified(n)
             /\ seen'[k].bytes = files[n]
  BY <1>3 DEF Observed, Stamp
<1>4. ASSUME n \in DOMAIN files, NEW m \in DOMAIN written,
             written[m] = Modified(n), written[m] < TimeMax
      PROVE  files[m] = files[n]
  BY <1>4 DEF Modified, TimesDistinct, TimesTraced
<1>5. TimesTraced'
  BY <1>1, <1>3, <1>4 DEF TimesTraced
<1> QED BY <1>2, <1>5 DEF FilesBounded, TimesHaveFiles, TimesDistinct

LEMMA InitInv == Init => HandlesTyped /\ StampInv
<1> SUFFICES ASSUME Init PROVE HandlesTyped /\ StampInv
  OBVIOUS
<1>1. HandlesTyped
  BY DEF Init, HandlesTyped, IsMap
<1>2. IsMap(files, Name, Bytes) /\ FilesBounded
  <2>1. <<>> \in Bytes /\ Len(<<>>) <= MaxBody
    BY DEF Bytes
  <2> QED BY <2>1 DEF Init, IsMap, FilesBounded
<1>3. IsMap(written, Name, Time) /\ newest \in Time /\ IsMap(seen, Name, Observation)
  BY DEF Init, IsMap, Time
<1>4. TimesHaveFiles /\ TimesDistinct /\ TimesTraced
  BY DEF Init, TimesHaveFiles, TimesDistinct, TimesTraced
<1> QED BY <1>1, <1>2, <1>3, <1>4 DEF StampInv, DirTypeOK

LEMMA NextInv == HandlesTyped /\ StampInv /\ [Next]_vars => (HandlesTyped /\ StampInv)'
<1> SUFFICES ASSUME HandlesTyped, StampInv, [Next]_vars
             PROVE  HandlesTyped' /\ StampInv'
  OBVIOUS
<1> USE DEF HandlesTyped
<1>1. ASSUME NEW c \in Channel, NEW n \in Name, NEW flags \in Flags, NEW now \in Time,
             OnOpenWrite(c, n, flags, now)
      PROVE  HandlesTyped' /\ StampInv'
  <2>1. WriteHandle(n) \in Handle
    BY DEF WriteHandle, Handle
  <2> QED BY <1>1, <2>1, HandedTyped, OpenKeepsStampInv DEF OnOpenWrite
<1>2. ASSUME NEW c \in Channel, NEW n \in Name, NEW flags \in Flags,
             OnOpenRefused(c, n, flags)
      PROVE  HandlesTyped' /\ StampInv'
  BY <1>2, DirUnchanged DEF OnOpenRefused, Drawn, MayOpen
<1>3. ASSUME NEW c \in Channel, NEW n \in Name, OnOpenRead(c, n)
      PROVE  HandlesTyped' /\ StampInv'
  <2>1. ReadHandle(n) \in Handle
    BY DEF ReadHandle, Handle
  <2> QED BY <1>3, <2>1, HandedTyped, DirUnchanged DEF OnOpenRead
<1>4. ASSUME NEW c \in Channel, NEW h \in Number, NEW offset \in Offset, NEW data \in Data,
             NEW now \in Time, OnWrite(c, h, offset, data, now)
      PROVE  HandlesTyped' /\ StampInv'
  <2>1. handles[c][h].name \in Name
    BY <1>4 DEF OnWrite, IsMap, Handle
  <2> QED BY <1>4, <2>1, WriteKeepsStampInv DEF OnWrite
<1>5. ASSUME NEW c \in Channel, NEW h \in Number, NEW n \in Name, OnReaddir(c, h, n)
      PROVE  HandlesTyped' /\ StampInv'
  <2>1. DirHandle(TRUE) \in Handle
    BY DEF DirHandle, Handle
  <2>2. IsMap(Insert(handles[c], h, DirHandle(TRUE)), Number, Handle)
    BY <2>1 DEF Insert, IsMap
  <2> QED BY <1>5, <2>2, SeenKeepsStampInv DEF OnReaddir
<1>6. ASSUME NEW c \in Channel, NEW h \in Number, OnClose(c, h)
      PROVE  HandlesTyped' /\ StampInv'
  <2>1. IsMap(Without(handles[c], h), Number, Handle)
    BY DEF Without, IsMap
  <2> QED BY <1>6, <2>1, DirUnchanged DEF OnClose
<1>7. ASSUME NEW c \in Channel, OnOpendir(c)
      PROVE  HandlesTyped' /\ StampInv'
  <2>1. DirHandle(FALSE) \in Handle
    BY DEF DirHandle, Handle
  <2> QED BY <1>7, <2>1, HandedTyped, DirUnchanged DEF OnOpendir
<1>8. ASSUME NEW c \in Channel, ChannelEnds(c)
      PROVE  HandlesTyped' /\ StampInv'
  BY <1>8, DirUnchanged DEF ChannelEnds, IsMap
<1>9. ASSUME NEW n \in Name, OnStat(n)
      PROVE  HandlesTyped' /\ StampInv'
  BY <1>9, SeenKeepsStampInv DEF OnStat
<1>10. ASSUME NEW n \in Name, OnRemove(n)
       PROVE  HandlesTyped' /\ StampInv'
  BY <1>10, RemoveKeepsStampInv DEF OnRemove
<1>11. ASSUME NEW from \in Name, NEW to \in Name, OnRename(from, to)
       PROVE  HandlesTyped' /\ StampInv'
  BY <1>11, RenameKeepsStampInv DEF OnRename
<1>12. CASE UNCHANGED vars
  BY <1>12, DirUnchanged DEF vars, dirVars
<1> HIDE DEF HandlesTyped
<1> QED
  BY <1>1, <1>2, <1>3, <1>4, <1>5, <1>6, <1>7, <1>8, <1>9, <1>10, <1>11, <1>12
     DEF Next, Request

LEMMA AlwaysInv == Spec => [](HandlesTyped /\ StampInv)
BY InitInv, NextInv, PTL DEF Spec

\* Every variable keeps its type, whatever requests the channels make.
THEOREM TypeCorrect == Spec => []TypeOK
<1>1. HandlesTyped /\ StampInv => TypeOK
  BY DEF HandlesTyped, StampInv, TypeOK
<1> QED BY <1>1, AlwaysInv, PTL

\* The far end never holds more than MAX_BODY of a file (on_write's ceiling).
THEOREM Bounded == Spec => []FilesBounded
<1>1. HandlesTyped /\ StampInv => FilesBounded
  BY DEF StampInv
<1> QED BY <1>1, AlwaysInv, PTL

\* A stamp a client-written file shows again means the bytes it meant before:
\* touch, REMOVE and RENAME together keep what the claim's stability check
\* and the memory of refused files take a stamp to be.
THEOREM StampsMean == Spec => []StampSound
<1>1. HandlesTyped /\ StampInv => StampSound
  <2> SUFFICES ASSUME StampInv, NEW n \in DOMAIN seen \cap DOMAIN files,
                      seen[n].stamp = Stamp(n),
                      seen[n].stamp.modified \in 1 .. TimeMax - 1
               PROVE  files[n] = seen[n].bytes
    BY DEF StampSound
  <2>1. seen[n].stamp.modified = Modified(n)
    BY DEF Stamp
  <2>2. n \in DOMAIN written /\ written[n] = seen[n].stamp.modified
    BY <2>1 DEF Modified
  <2> QED BY <2>2 DEF StampInv, TimesTraced
<1> QED BY <1>1, AlwaysInv, PTL

\* REMOVE and RENAME keep the record of times in step with the files: no time
\* is left behind for another file to wear.
THEOREM NoTimeLeft == Spec => []TimesHaveFiles
<1>1. HandlesTyped /\ StampInv => TimesHaveFiles
  BY DEF StampInv
<1> QED BY <1>1, AlwaysInv, PTL

\* touch hands out each time once: no two files show one, short of the u32's
\* end.
THEOREM NoTimeTwice == Spec => []TimesDistinct
<1>1. HandlesTyped /\ StampInv => TimesDistinct
  BY DEF StampInv
<1> QED BY <1>1, AlwaysInv, PTL

\* A time shown to a client stays with the bytes it was shown for.
THEOREM TimesStay == Spec => []TimesTraced
<1>1. HandlesTyped /\ StampInv => TimesTraced
  BY DEF StampInv
<1> QED BY <1>1, AlwaysInv, PTL
-----------------------------------------------------------------------------
(***************************************************************************)
(* Handles.                                                                *)
(***************************************************************************)
\* Every number a channel's handles go by, or went by, was drawn: it lies below
\* the next; and one that was closed is no handle's.
HandlesDrawn ==
  \A c \in Channel :
    /\ \A h \in DOMAIN handles[c] \cup closed[c] : h < next[c]
    /\ DOMAIN handles[c] \cap closed[c] = {}

\* What one step may do to the handles of a channel: hand one out under the
\* number drawn, give those there were in their old sense, or end the channel.
HandlesMove(c) ==
  \/ next'[c] = 0 /\ next[c] > 0 /\ DOMAIN handles'[c] = {} /\ closed'[c] = {}
  \/ /\ next'[c] = next[c] + 1 /\ closed'[c] = closed[c]
     /\ DOMAIN handles'[c] \subseteq DOMAIN handles[c] \cup {next[c]}
     /\ \A h \in DOMAIN handles[c] : h # next[c] => handles'[c][h] = handles[c][h]
  \/ /\ next'[c] = next[c]
     /\ closed'[c] \subseteq closed[c] \cup (DOMAIN handles[c] \ DOMAIN handles'[c])
     /\ DOMAIN handles'[c] \subseteq DOMAIN handles[c]
     /\ \A h \in DOMAIN handles'[c] :
          \/ handles'[c][h] = handles[c][h]
          \/ handles[c][h] = DirHandle(FALSE) /\ handles'[c][h] = DirHandle(TRUE)

\* A handle handed out under the number drawn.
LEMMA HandedMoves ==
  ASSUME HandlesTyped, NEW c \in Channel, NEW handle, Drawn(c), Handed(c, handle), closed' = closed
  PROVE  \A d \in Channel : HandlesMove(d)
<1> SUFFICES ASSUME NEW d \in Channel PROVE HandlesMove(d)
  OBVIOUS
<1>1. next[c] \in Nat /\ next[d] \in Nat
  BY DEF HandlesTyped
<1>2. CASE d = c
  <2>1. next'[d] = next[d] + 1 /\ handles'[d] = Insert(handles[d], next[d], handle)
    BY <1>2 DEF HandlesTyped, Drawn, Handed
  <2> QED BY <2>1 DEF HandlesMove, Insert
<1>3. CASE d # c
  <2>1. next'[d] = next[d] /\ handles'[d] = handles[d]
    BY <1>3 DEF HandlesTyped, Drawn, Handed
  <2> QED BY <2>1 DEF HandlesMove
<1> QED BY <1>2, <1>3

\* Every request moves the handles of every channel in one of these ways.
LEMMA AllMove ==
  ASSUME HandlesTyped, [Next]_vars
  PROVE  \A d \in Channel : HandlesMove(d)
<1>0. \A d \in Channel : next[d] \in Nat
  BY DEF HandlesTyped
<1>1. ASSUME NEW c \in Channel, NEW n \in Name, NEW flags \in Flags, NEW now \in Time,
             OnOpenWrite(c, n, flags, now)
      PROVE  \A d \in Channel : HandlesMove(d)
  BY <1>1, HandedMoves DEF OnOpenWrite
<1>2. ASSUME NEW c \in Channel, NEW n \in Name, NEW flags \in Flags,
             OnOpenRefused(c, n, flags)
      PROVE  \A d \in Channel : HandlesMove(d)
  <2>1. \A d \in Channel : next'[d] = next[d] \/ next'[d] = next[d] + 1
    BY <1>2 DEF OnOpenRefused, Drawn, HandlesTyped
  <2> QED BY <1>2, <2>1 DEF OnOpenRefused, HandlesMove
<1>3. ASSUME NEW c \in Channel, NEW n \in Name, OnOpenRead(c, n)
      PROVE  \A d \in Channel : HandlesMove(d)
  BY <1>3, HandedMoves DEF OnOpenRead
<1>4. ASSUME UNCHANGED <<handles, next, closed>>
      PROVE  \A d \in Channel : HandlesMove(d)
  BY <1>4 DEF HandlesMove
<1>5. ASSUME NEW c \in Channel, NEW h \in Number, NEW n \in Name, OnReaddir(c, h, n)
      PROVE  \A d \in Channel : HandlesMove(d)
  <2> SUFFICES ASSUME NEW d \in Channel PROVE HandlesMove(d)
    OBVIOUS
  <2>1. /\ next' = next /\ closed' = closed
        /\ h \in DOMAIN handles[c] /\ handles[c][h] = DirHandle(FALSE)
    BY <1>5 DEF OnReaddir
  <2>2. CASE d = c
    <3>1. handles'[d] = Insert(handles[d], h, DirHandle(TRUE))
      BY <1>5, <2>2 DEF OnReaddir, HandlesTyped
    <3> QED BY <2>1, <2>2, <3>1 DEF HandlesMove, Insert
  <2>3. CASE d # c
    <3>1. handles'[d] = handles[d]
      BY <1>5, <2>3 DEF OnReaddir, HandlesTyped
    <3> QED BY <2>1, <3>1 DEF HandlesMove
  <2> QED BY <2>2, <2>3
<1>6. ASSUME NEW c \in Channel, NEW h \in Number, OnClose(c, h)
      PROVE  \A d \in Channel : HandlesMove(d)
  <2> SUFFICES ASSUME NEW d \in Channel PROVE HandlesMove(d)
    OBVIOUS
  <2>1. /\ next' = next
        /\ \/ handles'[d] = handles[d] /\ closed'[d] = closed[d]
           \/ /\ handles'[d] = Without(handles[d], h) /\ h \in DOMAIN handles[d]
              /\ closed'[d] = closed[d] \cup {h}
    BY <1>6 DEF OnClose, HandlesTyped
  <2> QED BY <2>1 DEF HandlesMove, Without
<1>7. ASSUME NEW c \in Channel, OnOpendir(c)
      PROVE  \A d \in Channel : HandlesMove(d)
  BY <1>7, HandedMoves DEF OnOpendir
<1>8. ASSUME NEW c \in Channel, ChannelEnds(c)
      PROVE  \A d \in Channel : HandlesMove(d)
  <2> SUFFICES ASSUME NEW d \in Channel PROVE HandlesMove(d)
    OBVIOUS
  <2>1. CASE d = c
    BY <1>8, <2>1 DEF ChannelEnds, HandlesTyped, HandlesMove
  <2>2. CASE d # c
    BY <1>8, <2>2 DEF ChannelEnds, HandlesTyped, HandlesMove
  <2> QED BY <2>1, <2>2
<1> QED
  BY <1>1, <1>2, <1>3, <1>4, <1>5, <1>6, <1>7, <1>8
     DEF Next, Request, OnWrite, OnStat, OnRemove, OnRename, vars

LEMMA DrawnStep == HandlesTyped /\ HandlesDrawn /\ [Next]_vars => HandlesDrawn'
<1> SUFFICES ASSUME HandlesTyped, HandlesDrawn, [Next]_vars, NEW c \in Channel
             PROVE  /\ \A h \in DOMAIN handles'[c] \cup closed'[c] : h < next'[c]
                    /\ DOMAIN handles'[c] \cap closed'[c] = {}
  BY DEF HandlesDrawn
<1>1. /\ next[c] \in Nat
      /\ \A h \in DOMAIN handles[c] \cup closed[c] : h \in Nat /\ h < next[c]
      /\ DOMAIN handles[c] \cap closed[c] = {}
  BY DEF HandlesTyped, HandlesDrawn, IsMap, Number
<1>2. HandlesMove(c)
  BY AllMove
<1>3. CASE DOMAIN handles'[c] = {} /\ closed'[c] = {}
  BY <1>3
<1>4. CASE /\ next'[c] = next[c] + 1 /\ closed'[c] = closed[c]
           /\ DOMAIN handles'[c] \subseteq DOMAIN handles[c] \cup {next[c]}
  BY <1>1, <1>4
<1>5. CASE /\ next'[c] = next[c] /\ DOMAIN handles'[c] \subseteq DOMAIN handles[c]
           /\ closed'[c] \subseteq closed[c] \cup (DOMAIN handles[c] \ DOMAIN handles'[c])
  BY <1>1, <1>5
<1> QED BY <1>2, <1>3, <1>4, <1>5 DEF HandlesMove

LEMMA AlwaysDrawn == Spec => []HandlesDrawn
<1>1. Init => HandlesDrawn
  BY DEF Init, HandlesDrawn
<1>2. HandlesTyped /\ StampInv => HandlesTyped
  OBVIOUS
<1> QED BY <1>1, <1>2, DrawnStep, AlwaysInv, PTL DEF Spec

\* For any channels and any number of opens: a number a channel was handed
\* keeps its meaning until it is closed or the channel ends, and is no
\* handle's after it was closed (serve's `next` numbers them, each once).
THEOREM HandlesKeep == Spec => HandleKept
<1> DEFINE Keeps == \A c \in Channel : next'[c] >= next[c] =>
                      \A h \in DOMAIN handles'[c] :
                        /\ h \notin closed[c]
                        /\ h \in DOMAIN handles[c] =>
                             \/ handles'[c][h] = handles[c][h]
                             \/ handles[c][h] = DirHandle(FALSE) /\ handles'[c][h] = DirHandle(TRUE)
<1>1. HandlesTyped /\ HandlesDrawn /\ [Next]_vars => [Keeps]_vars
  <2> SUFFICES ASSUME HandlesTyped, HandlesDrawn, [Next]_vars,
                      NEW c \in Channel, next'[c] >= next[c], NEW h \in DOMAIN handles'[c]
               PROVE  /\ h \notin closed[c]
                      /\ h \in DOMAIN handles[c] =>
                           \/ handles'[c][h] = handles[c][h]
                           \/ handles[c][h] = DirHandle(FALSE) /\ handles'[c][h] = DirHandle(TRUE)
    OBVIOUS
  <2>1. /\ next[c] \in Nat
        /\ \A g \in DOMAIN handles[c] \cup closed[c] : g \in Nat /\ g < next[c]
        /\ DOMAIN handles[c] \cap closed[c] = {}
    BY DEF HandlesTyped, HandlesDrawn, IsMap, Number
  <2>2. HandlesMove(c)
    BY AllMove
  <2>3. ~ (next'[c] = 0 /\ next[c] > 0) /\ next[c] \notin DOMAIN handles[c] \cup closed[c]
    BY <2>1
  <2> QED BY <2>1, <2>2, <2>3 DEF HandlesMove
<1>2. HandlesTyped /\ StampInv => HandlesTyped
  OBVIOUS
<1>3. HandleKept <=> [][Keeps]_vars
  BY DEF HandleKept
<1> HIDE DEF Keeps
<1> QED BY <1>1, <1>2, <1>3, AlwaysInv, AlwaysDrawn, PTL DEF Spec
=============================================================================
