------------------------------- MODULE Listing -------------------------------
(***************************************************************************)
(* What a server says of its files, and what is read of it: the NAME and   *)
(* ATTRS replies the far end writes (src/src/directory.rs), or another     *)
(* server does, and Sftp::list, entries, stamp and stat reading them       *)
(* (subsystem.rs, site.rs).                                                *)
(*                                                                         *)
(* A body is a sequence of words: a u32 is one, a u64 two, a string its    *)
(* length and then its characters.  A reply may be cut short anywhere.     *)
(* The rounds of the loops that write and read it, over entries and over   *)
(* extended pairs, are steps.                                              *)
(***************************************************************************)
EXTENDS Naturals, Sequences

CONSTANTS
  Word,        \* the number of words: 2^32 in the code
  Name,        \* names, sequences of words
  Text,        \* those that are UTF-8
  Dots,        \* "." and ".."
  Length,      \* lengths files have
  Time,        \* modification times
  OtherFlags,  \* attributes another server may send
  Extension,   \* the strings of its extended pairs
  MaxEntries,  \* bound: the entries of a listing
  MaxPairs,    \* bound: the extended pairs of an entry
  MaxReplies   \* bound: the replies to a listing

\* The flags of attributes; the code's EXTENDED is the highest bit.
SIZE == 1
UIDGID == 2
PERMISSIONS == 4
ACMODTIME == 8
EXTENDED == 16

Has(f, attribute) == (f \div attribute) % 2 = 1

ASSUME ListingAssumption ==
  /\ Word \in Nat /\ Word >= 32
  /\ Name \subseteq Seq(0 .. Word - 1) /\ Extension \subseteq Seq(0 .. Word - 1)
  /\ Dots \subseteq Text /\ Text \subseteq Name
  /\ \A s \in Name \cup Extension : Len(s) < Word
  /\ Length \subseteq 0 .. Word * Word - 1 /\ Time \subseteq 0 .. Word - 1
  /\ OtherFlags \subseteq 0 .. 31
  /\ MaxEntries \in 0 .. Word - 1 /\ MaxPairs \in 0 .. Word - 1 /\ MaxReplies \in Nat

VARIABLES
  asked,    \* list or stat
  flags,    \* the attributes the server sends
  replies,  \* how many replies it began
  sent,     \* the words of the reply being written
  due,      \* its entries still to be written
  owed,     \* the extended pairs of the last one still to be written
  said,     \* all the server said, in its order
  whole,    \* no reply was cut
  body,     \* the reply being read
  at,       \* the reader's place in it
  left,     \* the entries still to be read
  found,    \* the entry whose extended pairs are being read
  pairs,    \* how many of them are still to be read
  names,    \* what was read
  pc

written == <<replies, sent, due, owed, said>>
reading == <<at, left, found, pairs>>
vars == <<asked, flags, written, whole, body, reading, names, pc>>
-----------------------------------------------------------------------------
(***************************************************************************)
(* Writing.                                                                *)
(***************************************************************************)
Entry == [name : Name, length : Length, modified : Time]

NoStamp == [length |-> 0, modified |-> 0, known |-> FALSE]

String(s) == <<Len(s)>> \o s

U64(n) == <<n \div Word, n % Word>>

\* The far end sends the length and the times.
OwnFlags == SIZE + ACMODTIME

\* The attributes of one file, in the protocol's order; of the two times the
\* second is the modification.  The number of extended pairs, where there
\* are any.
Attributes(f, e, n) ==
  <<f>>
  \o (IF Has(f, SIZE) THEN U64(e.length) ELSE <<>>)
  \o (IF Has(f, UIDGID) THEN <<1, 1>> ELSE <<>>)
  \o (IF Has(f, PERMISSIONS) THEN <<1>> ELSE <<>>)
  \o (IF Has(f, ACMODTIME) THEN <<IF f = OwnFlags THEN e.modified ELSE 0, e.modified>> ELSE <<>>)
  \o (IF Has(f, EXTENDED) THEN <<n>> ELSE <<>>)

PairCounts(f) == IF Has(f, EXTENDED) THEN 0 .. MaxPairs ELSE {0}

\* What the attributes say of a file.
StampOf(f, e) ==
  IF Has(f, SIZE) /\ Has(f, ACMODTIME)
    THEN [length |-> e.length, modified |-> e.modified, known |-> TRUE]
    ELSE NoStamp

\* name_reply: the id and the count ...
NameReply(n) ==
  /\ pc = "ask" /\ asked = "list" /\ replies < MaxReplies /\ Len(said) + n <= MaxEntries
  /\ replies' = replies + 1 /\ sent' = <<0, n>> /\ due' = n /\ owed' = 0
  /\ pc' = "write"
  /\ UNCHANGED <<asked, flags, said, whole, body, reading, names>>

\* ... and each file under its name twice.
NameEntry(e, n) ==
  /\ pc = "write" /\ due > 0 /\ owed = 0
  /\ sent' = sent \o String(e.name) \o String(e.name) \o Attributes(flags, e, n)
  /\ said' = Append(said, [name |-> e.name, stamp |-> StampOf(flags, e)])
  /\ due' = due - 1 /\ owed' = n
  /\ UNCHANGED <<asked, flags, replies, whole, body, reading, names, pc>>

\* One of another server's extended pairs.
Pair(x, y) ==
  /\ pc = "write" /\ owed > 0
  /\ sent' = sent \o String(x) \o String(y)
  /\ owed' = owed - 1
  /\ UNCHANGED <<asked, flags, replies, due, said, whole, body, reading, names, pc>>

\* The ATTRS answer to a STAT of a file that is there; it has no name.
AttrsReply(e, n) ==
  /\ pc = "ask" /\ asked = "stat"
  /\ replies' = replies + 1 /\ sent' = <<0>> \o Attributes(flags, e, n) /\ due' = 0 /\ owed' = n
  /\ said' = <<[name |-> <<>>, stamp |-> StampOf(flags, e)]>>
  /\ pc' = "write"
  /\ UNCHANGED <<asked, flags, whole, body, reading, names>>
-----------------------------------------------------------------------------
(***************************************************************************)
(* Reading.  A read gives the place after it, past the body's end where it *)
(* ran out; no read comes back from there, so one look at the last place   *)
(* is every `?` on the way.                                                *)
(***************************************************************************)
Peek(p) == IF p < Len(body) THEN body[p + 1] ELSE 0

AfterString(p) == p + 1 + Peek(p)

Within(p) == p <= Len(body)

\* Where each attribute begins, after flags at p.
Owner(p) == IF Has(Peek(p), SIZE) THEN p + 3 ELSE p + 1
Permissions(p) == IF Has(Peek(p), UIDGID) THEN Owner(p) + 2 ELSE Owner(p)
Times(p) == IF Has(Peek(p), PERMISSIONS) THEN Permissions(p) + 1 ELSE Permissions(p)
Extended(p) == IF Has(Peek(p), ACMODTIME) THEN Times(p) + 2 ELSE Times(p)

\* The number of extended pairs, and the place of the first.
PairsAt(p) == IF Has(Peek(p), EXTENDED) THEN Peek(Extended(p)) ELSE 0
AfterFlags(p) == IF Has(Peek(p), EXTENDED) THEN Extended(p) + 1 ELSE Extended(p)

\* Fault: of an extended pair one string is read past.
AfterPairShort(p) == AfterString(p)

AfterPair(p) == AfterString(AfterString(p))

\* Fault: the time of the last access.
StampAtAccessed(p) ==
  IF Has(Peek(p), SIZE) /\ Has(Peek(p), ACMODTIME)
    THEN [length |-> Peek(p + 1) * Word + Peek(p + 2), modified |-> Peek(Times(p)), known |-> TRUE]
    ELSE NoStamp

\* stamp: the length and the time, where both are there.
StampAt(p) ==
  IF Has(Peek(p), SIZE) /\ Has(Peek(p), ACMODTIME)
    THEN [length |-> Peek(p + 1) * Word + Peek(p + 2), modified |-> Peek(Times(p) + 1), known |-> TRUE]
    ELSE NoStamp

\* stamp, up to the extended pairs, for the file of a name.
StampRead(name, p) ==
  IF Within(AfterFlags(p))
    THEN /\ found' = [name |-> name, stamp |-> StampAt(p)]
         /\ pairs' = PairsAt(p) /\ at' = AfterFlags(p) /\ pc' = "pair"
    ELSE pc' = "error" /\ UNCHANGED <<found, pairs, at>>

\* Fault: a reply cut before its count has no entries.
CountedAnyway(reply) ==
  IF Len(reply) >= 2 THEN pc' = "entry" /\ left' = reply[2] /\ at' = 2
                     ELSE pc' = "entry" /\ left' = 0 /\ at' = 0

\* entries: the id and the count, then the entries.
Counted(reply) ==
  IF Len(reply) >= 2 THEN pc' = "entry" /\ left' = reply[2] /\ at' = 2
                     ELSE pc' = "error" /\ left' = 0 /\ at' = 0

\* stat: the id, then the attributes.
Identified(reply) ==
  /\ IF Len(reply) >= 1 THEN pc' = "stamp" /\ at' = 1 ELSE pc' = "error" /\ at' = 0
  /\ UNCHANGED left

\* recv: the reply comes, as it was sent or cut short.
Comes(n) ==
  /\ pc = "write" /\ due = 0 /\ owed = 0
  /\ body' = SubSeq(sent, 1, n) /\ whole' = (whole /\ n = Len(sent))
  /\ \/ asked = "list" /\ Counted(body')
     \/ asked = "stat" /\ Identified(body')
  /\ UNCHANGED <<asked, flags, written, found, pairs, names>>

\* One round of entries: the name, the long name, the stamp ...
EntryRead ==
  /\ pc = "entry" /\ left > 0
  /\ LET long == AfterString(at)
         name == SubSeq(body, at + 2, long)
     IN  IF Within(long) /\ name \in Text
           THEN StampRead(name, AfterString(long))
           ELSE pc' = "error" /\ UNCHANGED <<found, pairs, at>>
  /\ UNCHANGED <<asked, flags, written, whole, body, left, names>>

\* ... stamp read for stat.  What it read is kept as such: stat's caller has
\* None of attributes without length or times, as of a file that is not there ...
StatRead ==
  /\ pc = "stamp"
  /\ StampRead(<<>>, at)
  /\ UNCHANGED <<asked, flags, written, whole, body, left, names>>

\* ... one round of stamp: an extended pair ...
PairRead ==
  /\ pc = "pair" /\ pairs > 0
  /\ IF Within(AfterPair(at)) THEN pairs' = pairs - 1 /\ at' = AfterPair(at) /\ UNCHANGED pc
                              ELSE pc' = "error" /\ UNCHANGED <<pairs, at>>
  /\ UNCHANGED <<asked, flags, written, whole, body, left, found, names>>

\* ... and when all are read the entry, or the answer of stat, is had.
StampDone ==
  /\ pc = "pair" /\ pairs = 0
  /\ names' = Append(names, found)
  /\ \/ asked = "list" /\ pc' = "entry" /\ left' = left - 1
     \/ asked = "stat" /\ pc' = "done" /\ UNCHANGED left
  /\ UNCHANGED <<asked, flags, written, whole, body, at, found, pairs>>

\* The reply is read: the next READDIR.
Read ==
  /\ pc = "entry" /\ left = 0
  /\ pc' = "ask"
  /\ UNCHANGED <<asked, flags, written, whole, body, reading, names>>

\* Names of files.
Kept(n) == n \notin Dots

\* STATUS with EOF: the handle is closed, "." and ".." are left out.
EndOfDirectory ==
  /\ pc = "ask" /\ asked = "list"
  /\ names' = SelectSeq(names, LAMBDA l : Kept(l.name))
  /\ pc' = "done"
  /\ UNCHANGED <<asked, flags, written, whole, body, reading>>

\* stat, where the status is that there is no such file.
StatNone ==
  /\ pc = "ask" /\ asked = "stat"
  /\ pc' = "done"
  /\ UNCHANGED <<asked, flags, written, whole, body, reading, names>>

\* Any other status, a reply of another kind, or no reply: the channel broke.
Refused ==
  /\ pc \in {"ask", "write"}
  /\ pc' = "error"
  /\ UNCHANGED <<asked, flags, written, whole, body, reading, names>>
-----------------------------------------------------------------------------
Init ==
  /\ asked \in {"list", "stat"} /\ flags \in {OwnFlags} \cup OtherFlags
  /\ replies = 0 /\ sent = <<>> /\ due = 0 /\ owed = 0 /\ said = <<>>
  /\ whole = TRUE /\ body = <<>> /\ at = 0 /\ left = 0
  /\ found = [name |-> <<>>, stamp |-> NoStamp] /\ pairs = 0 /\ names = <<>> /\ pc = "ask"

Writing ==
  \/ \E n \in 0 .. MaxEntries : NameReply(n)
  \/ \E e \in Entry, n \in PairCounts(flags) : NameEntry(e, n) \/ AttrsReply(e, n)
  \/ \E x, y \in Extension : Pair(x, y)

Reading ==
  \/ \E n \in 0 .. Len(sent) : Comes(n)
  \/ EntryRead \/ StatRead \/ PairRead \/ StampDone \/ Read \/ EndOfDirectory \/ StatNone
  \/ Refused

Next == Writing \/ Reading

Spec == Init /\ [][Next]_vars
-----------------------------------------------------------------------------
(***************************************************************************)
(* Properties.                                                             *)
(***************************************************************************)
Files(s) == SelectSeq(s, LAMBDA l : l.name \notin Dots)

\* A listing that is had is the server's (list): every file once, in its
\* order, with its stamp, whatever attributes came along and however many
\* replies it took; one that was cut anywhere is none.
ListedIsSent ==
  pc = "done" /\ asked = "list" => whole /\ names = Files(said)

\* The reader is never astray (entries, stamp): what it has read, in the
\* middle of a reply too, is what was written first.
ReadIsPrefix ==
  pc # "done" => Len(names) <= Len(said) /\ \A i \in DOMAIN names : names[i] = said[i]

\* A stat that is had is the file's (stat): cut, it is none.
StatIsSent == pc = "done" /\ asked = "stat" => whole /\ names = said
=============================================================================
