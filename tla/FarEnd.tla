------------------------------- MODULE FarEnd --------------------------------
(***************************************************************************)
(* The far end's side of the subsystem (src/src/directory.rs): channels    *)
(* served at once over one directory, each with the handles it was given.  *)
(* One action is one request, answered whole under the directory's lock.   *)
(* A request that is refused changes nothing but the handle counter, and a  *)
(* READ changes nothing at all, so neither needs an action of its own      *)
(* beyond the refused opens.                                               *)
(*                                                                         *)
(* `seen` and `closed` are history variables.  A client follows one file:  *)
(* the stamp the last READDIR or STAT gave it of that file, with the bytes *)
(* the file held at that moment, is what the stability check and the       *)
(* memory of refused files lean on.  A number it closed is one it may      *)
(* still hold, and must never find naming another file.                    *)
(***************************************************************************)
EXTENDS Directory

CONSTANTS
  Channel,     \* the channels served at once
  MaxHandles,  \* bound: opens in the life of a channel, and of two together
  Offset,      \* the offsets a WRITE may carry
  Data,        \* the bytes a WRITE may carry
  Given        \* the names of the files the directory is made with

ASSUME FarEndAssumption ==
  /\ MaxHandles \in Nat
  /\ Offset \subseteq 0 .. WordMax
  /\ Data \subseteq Bytes
  /\ Given \subseteq Name

VARIABLES
  handles,   \* directory::serve's handles, of each channel
  next,      \* directory::serve's next handle number, of each channel
  seen,      \* history: what the client was last told of the file it follows
  closed     \* history: the handle numbers each channel has closed

vars == <<files, written, newest, handles, next, seen, closed>>
-----------------------------------------------------------------------------
Flags == SUBSET {"EXCL", "TRUNC"}

\* enum Handle.
Handle ==
  [kind : {"write", "read"}, name : Name] \cup [kind : {"dir"}, listed : BOOLEAN]

WriteHandle(n) == [kind |-> "write", name |-> n]
ReadHandle(n) == [kind |-> "read", name |-> n]
DirHandle(listed) == [kind |-> "dir", listed |-> listed]

Number == 0 .. MaxHandles - 1

\* What an answer gives of those of the files `names` that are there.
Observed(names) ==
  [n \in names \cap DOMAIN files |-> [stamp |-> Stamp(n), bytes |-> files[n]]]

Observation == [stamp : Stamps, bytes : Bytes]

TypeOK ==
  /\ DirTypeOK
  /\ next \in [Channel -> 0 .. MaxHandles]
  /\ DOMAIN handles = Channel
  /\ \A c \in Channel : IsMap(handles[c], Number, Handle)
  /\ closed \in [Channel -> SUBSET Number]
  /\ IsMap(seen, Name, Observation)
-----------------------------------------------------------------------------
\* Directory::new: files it is given, none of them written since.
Init ==
  /\ files \in [Given -> {<<>>} \cup {d \in Data : Len(d) <= MaxBody}]
  /\ written = [n \in {} |-> 0]
  /\ newest = 0
  /\ handles = [c \in Channel |-> [h \in {} |-> DirHandle(FALSE)]]
  /\ next = [c \in Channel |-> 0]
  /\ seen = [n \in {} |-> [stamp |-> [length |-> 0, modified |-> 0], bytes |-> <<>>]]
  /\ closed = [c \in Channel |-> {}]

\* The bound on opens.
MayOpen(c) ==
  next[c] < MaxHandles /\ \A d \in Channel \ {c} : next[c] + next[d] < MaxHandles

\* The handle number is drawn before anything can be refused.
Drawn(c) ==
  /\ MayOpen(c)
  /\ next' = [next EXCEPT ![c] = @ + 1]

\* Fault: the lowest number that is free is handed out, a closed one included.
HandedFree(c, handle) ==
  LET free == CHOOSE h \in Number \ DOMAIN handles[c] :
                \A g \in Number \ DOMAIN handles[c] : h <= g
  IN  handles' = [handles EXCEPT ![c] = Insert(@, free, handle)]

Handed(c, handle) == handles' = [handles EXCEPT ![c] = Insert(@, next[c], handle)]

\* on_open with WRITE among its flags.
OnOpenWrite(c, n, flags, now) ==
  /\ ~ ExclRefused(n, flags)
  /\ Drawn(c)
  /\ OpenForWriting(n, flags, now)
  /\ Handed(c, WriteHandle(n))
  /\ UNCHANGED <<seen, closed>>

\* on_open without WRITE.
OnOpenRead(c, n) ==
  /\ n \in DOMAIN files
  /\ Drawn(c)
  /\ Handed(c, ReadHandle(n))
  /\ UNCHANGED <<dirVars, seen, closed>>

\* on_open answered with a status: EXCL of a name that exists, or a read of
\* one that does not.
OnOpenRefused(c, n, flags) ==
  /\ ExclRefused(n, flags) \/ n \notin DOMAIN files
  /\ Drawn(c)
  /\ UNCHANGED <<dirVars, handles, seen, closed>>

\* on_write through a handle open for writing.
OnWrite(c, h, offset, data, now) ==
  /\ h \in DOMAIN handles[c]
  /\ handles[c][h].kind = "write"
  /\ WriteTo(handles[c][h].name, offset, data, now)
  /\ UNCHANGED <<handles, next, seen, closed>>

\* OPENDIR: whatever path it names, there is one directory.
OnOpendir(c) ==
  /\ Drawn(c)
  /\ Handed(c, DirHandle(FALSE))
  /\ UNCHANGED <<dirVars, seen, closed>>

\* on_readdir, the first of a handle: every file with its stamp, `n` the one
\* the client follows.
OnReaddir(c, h, n) ==
  /\ h \in DOMAIN handles[c]
  /\ handles[c][h] = DirHandle(FALSE)
  /\ handles' = [handles EXCEPT ![c] = Insert(@, h, DirHandle(TRUE))]
  /\ seen' = Observed({n})
  /\ UNCHANGED <<dirVars, next, closed>>

\* STAT: the attributes of the file, or that there is none.
OnStat(n) ==
  /\ seen' = Observed({n})
  /\ UNCHANGED <<dirVars, handles, next, closed>>

\* CLOSE.  The owner's callback is told the name of a file whose write
\* handle closes; it is handed nothing of the directory it could change.
OnClose(c, h) ==
  /\ h \in DOMAIN handles[c]
  /\ handles' = [handles EXCEPT ![c] = Without(@, h)]
  /\ closed' = [closed EXCEPT ![c] = @ \cup {h}]
  /\ UNCHANGED <<dirVars, next, seen>>

OnRemove(n) ==
  /\ RemoveFile(n)
  /\ UNCHANGED <<handles, next, seen, closed>>

OnRename(from, to) ==
  /\ RenameFile(from, to)
  /\ UNCHANGED <<handles, next, seen, closed>>

\* The client closes the channel, or goes: serve returns and its handles go
\* with it.  The next channel starts afresh.
ChannelEnds(c) ==
  /\ next[c] > 0
  /\ handles' = [handles EXCEPT ![c] = [h \in {} |-> DirHandle(FALSE)]]
  /\ next' = [next EXCEPT ![c] = 0]
  /\ closed' = [closed EXCEPT ![c] = {}]
  /\ UNCHANGED <<dirVars, seen>>

Request(c) ==
  \/ \E n \in Name, flags \in Flags :
       \/ \E now \in Time : OnOpenWrite(c, n, flags, now)
       \/ OnOpenRefused(c, n, flags)
  \/ \E n \in Name : OnOpenRead(c, n)
  \/ \E h \in Number :
       \/ \E offset \in Offset, data \in Data, now \in Time :
            OnWrite(c, h, offset, data, now)
       \/ \E n \in Name : OnReaddir(c, h, n)
       \/ OnClose(c, h)
  \/ OnOpendir(c)
  \/ ChannelEnds(c)

Next ==
  \/ \E c \in Channel : Request(c)
  \/ \E n \in Name : OnStat(n) \/ OnRemove(n)
  \/ \E from, to \in Name : OnRename(from, to)

Spec == Init /\ [][Next]_vars
-----------------------------------------------------------------------------
(***************************************************************************)
(* Properties.                                                             *)
(***************************************************************************)
\* The far end holds no more than MAX_BODY of one file, whatever offsets its
\* clients write at (on_write's ceiling, asked of the end of the write).
FilesBounded == \A n \in DOMAIN files : Len(files[n]) <= MaxBody

\* Every recorded time belongs to a file that is there.  REMOVE and RENAME
\* keep the two maps in step, so a name that is free has no time left behind
\* for the next file renamed onto it to wear.
TimesHaveFiles == DOMAIN written \subseteq DOMAIN files

\* No two files were last written at one time: touch hands out each time
\* once, and RENAME moves it rather than copying it.  Short of the end of a
\* u32, where it saturates.
TimesDistinct ==
  \A m, n \in DOMAIN written :
    m # n /\ written[m] < TimeMax => written[m] # written[n]

\* A file that was written by a client and lists with the stamp it listed
\* with before holds the bytes it held before, whatever was opened, written,
\* removed or renamed in between: what the claim's stability check and the
\* memory of refused files take a stamp to mean.  Short of the end of a u32.
StampSound ==
  \A n \in DOMAIN seen \cap DOMAIN files :
    /\ seen[n].stamp = Stamp(n)
    /\ seen[n].stamp.modified \in 1 .. TimeMax - 1
    => files[n] = seen[n].bytes

\* What StampSound rests on: a time once shown to a client is never given
\* to other bytes, whatever name they are under by now, since times shown
\* lie at or before `newest` and touch hands out later ones.
TimesTraced ==
  /\ \A n \in DOMAIN written : written[n] \in 1 .. newest
  /\ \A n \in DOMAIN seen :
       /\ seen[n].stamp.modified <= newest
       /\ \A m \in DOMAIN written :
            /\ written[m] = seen[n].stamp.modified
            /\ written[m] < TimeMax
            => files[m] = seen[n].bytes

\* A handle keeps its meaning: in a channel's life a number it was handed
\* names the same file, opened the same way, until it is closed, and never
\* names anything again after that, however opens, refused opens and closes
\* follow one another (serve's `next`).
HandleKept ==
  [][\A c \in Channel : next'[c] >= next[c] =>
       \A h \in DOMAIN handles'[c] :
         /\ h \notin closed[c]
         /\ h \in DOMAIN handles[c] =>
              \/ handles'[c][h] = handles[c][h]
              \/ handles[c][h] = DirHandle(FALSE) /\ handles'[c][h] = DirHandle(TRUE)]_vars
=============================================================================
