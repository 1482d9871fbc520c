------------------------------ MODULE Transfer -------------------------------
(***************************************************************************)
(* One file's way from a send to a receive, request by request: Sftp::put  *)
(* and Sftp::read_at (src/src/subsystem.rs) against the requests' far side *)
(* (Directory), with the pool's second attempt on a fresh connection after *)
(* the first one failed (SftpTransport::send_from).                        *)
(*                                                                         *)
(* A request is asked, answered under the directory's lock and heard, each *)
(* a step of its own.  A client that gives up, on a timeout or a broken    *)
(* socket, does so before the request is answered or after; what it asked  *)
(* may still be read and answered by the far end's thread.                 *)
(* The receiver is what a claim comes to: a RENAME, READs to the end,      *)
(* REMOVE.  The far end renames a file whoever has it open, and a listing  *)
(* that finds it as the one before did says only that its sender paused    *)
(* between two requests, so a claim may fall between any two requests of a *)
(* put.  Times play no part: the clock stands.                             *)
(***************************************************************************)
EXTENDS Directory, FiniteSets

CONSTANTS
  Message,       \* the messages to send, each once
  Target,        \* the name each is put under (transport::file_name)
  Body,          \* the bytes of each
  Chunk,         \* subsystem::CHUNK
  Claimed,       \* the name a file is claimed under
  MaxTakes,      \* bound: the files taken
  MaxLate        \* bound: the requests given up and on their way at once

ASSUME TransferAssumption ==
  /\ Target \in [Message -> Name \ {Claimed}] /\ Claimed \in Name
  /\ Body \in [Message -> Bytes]
  /\ Chunk \in Nat \ {0}
  /\ MaxTakes \in Nat /\ MaxLate \in Nat

VARIABLES
  put,        \* each message's send
  late,       \* requests given up that are still on their way
  take,       \* the receive under way
  standing,   \* history: the messages put, not taken and not put over since
  broken,     \* history: the messages an attempt to send failed
  belated,    \* history: whether a request given up was answered after all
  cut,        \* history: the attempts whose file was claimed as they wrote it,
              \* and how many bytes of the message were in it or claimed before
  delivered   \* history: the bodies received, in order

vars == <<dirVars, put, late, take, standing, broken, belated, cut, delivered>>
-----------------------------------------------------------------------------
Kind == {"open", "write", "close"}
Request == [kind : Kind, of : Message, at : Nat]

\* `fresh`: on a connection opened for it, so the last attempt.  `sent`:
\* put's offset.
Puts == [pc : Kind \cup {"idle", "done", "failed"}, sent : Nat, fresh : BOOLEAN,
         reply : {"none", "asked", "ok", "refused"}]

NotTaking == [pc |-> "none", got |-> <<>>]

TypeOK ==
  /\ DirTypeOK
  /\ put \in [Message -> Puts]
  /\ late \subseteq Request
  /\ take \in [pc : {"none", "claimed", "reading", "ended"}, got : Bytes]
  /\ standing \subseteq Message
  /\ broken \subseteq Message /\ belated \in BOOLEAN
  /\ IsMap(cut, Message \X BOOLEAN, Nat)
  /\ delivered \in Seq(Bytes)

Init ==
  /\ files = [n \in {} |-> <<>>] /\ written = [n \in {} |-> 0] /\ newest = 0
  /\ put = [m \in Message |-> [pc |-> "idle", sent |-> 0, fresh |-> FALSE, reply |-> "none"]]
  /\ late = {}
  /\ take = NotTaking
  /\ standing = {} /\ broken = {} /\ belated = FALSE /\ delivered = <<>>
  /\ cut = [a \in {} |-> 0]
-----------------------------------------------------------------------------
(***************************************************************************)
(* The far side of a request.                                              *)
(***************************************************************************)
\* The piece of a body from an offset (Outgoing::pieces).
Piece(m, at) == SubSeq(Body[m], at + 1, MinOf(at + Chunk, Len(Body[m])))

\* on_write's ceiling.
Refused(r) == r.kind = "write" /\ WriteEnd(r.at, Piece(r.of, r.at)) > MaxBody

\* Fault: put writes every piece at the start.
DoesAtStart(r) ==
  \/ r.kind = "open" /\ OpenForWriting(Target[r.of], {"TRUNC"}, 0)
  \/ r.kind = "write" /\ WriteTo(Target[r.of], 0, Piece(r.of, r.at), 0)
  \/ (r.kind = "close" \/ Refused(r)) /\ UNCHANGED dirVars

\* answer: OPEN with CREAT and TRUNC, WRITE, CLOSE (telling the owner).
Does(r) ==
  \/ r.kind = "open" /\ OpenForWriting(Target[r.of], {"TRUNC"}, 0)
  \/ r.kind = "write" /\ WriteTo(Target[r.of], r.at, Piece(r.of, r.at), 0)
  \/ (r.kind = "close" \/ Refused(r)) /\ UNCHANGED dirVars

\* The request a message's send has asked.
Asked(m) == [kind |-> put[m].pc, of |-> m, at |-> put[m].sent]

\* With the answer to its CLOSE a message is put.
Answer(m) ==
  /\ put[m].reply = "asked"
  /\ Does(Asked(m))
  /\ put' = [put EXCEPT ![m].reply = IF Refused(Asked(m)) THEN "refused" ELSE "ok"]
  /\ standing' = IF put[m].pc = "close" THEN standing \cup {m} ELSE standing
  /\ UNCHANGED <<late, take, broken, belated, cut, delivered>>

AnswerLate(r) ==
  /\ r \in late
  /\ late' = late \ {r}
  /\ Does(r)
  /\ belated' = TRUE
  /\ UNCHANGED <<put, take, standing, broken, cut, delivered>>
-----------------------------------------------------------------------------
(***************************************************************************)
(* SftpTransport::send_from: the pool's exchange of Sftp::put.             *)
(***************************************************************************)
Idle == {"idle", "done", "failed"}

Asks(m, kind, sent, fresh) ==
  put' = [put EXCEPT ![m] = [pc |-> kind, sent |-> sent, fresh |-> fresh, reply |-> "asked"]]

Ends(m, pc) ==
  put' = [put EXCEPT ![m] = [pc |-> pc, sent |-> 0, fresh |-> @.fresh, reply |-> "none"]]

\* What stands under other names.
Elsewhere(n) == {o \in standing : Target[o] # n}

\* Two sends under one name at once would write into one file: here they
\* come one after the other.
Send(m) ==
  /\ put[m].pc = "idle"
  /\ \A o \in Message : Target[o] = Target[m] => put[o].pc \in Idle
  /\ \E fresh \in BOOLEAN : Asks(m, "open", 0, fresh)
  /\ standing' = Elsewhere(Target[m])
  /\ UNCHANGED <<dirVars, late, take, broken, belated, cut, delivered>>

\* Whether a body goes on past an offset; an empty one has one empty piece.
More(m, at) == at < Len(Body[m])

\* put: the answer is heard, and the next request asked; or put returns.
Hear(m) ==
  /\ put[m].reply = "ok"
  /\ LET sent == put[m].sent + Len(Piece(m, put[m].sent))
     IN  \/ put[m].pc = "open" /\ Asks(m, "write", 0, put[m].fresh)
         \/ /\ put[m].pc = "write"
            /\ Asks(m, IF More(m, sent) THEN "write" ELSE "close", sent, put[m].fresh)
         \/ put[m].pc = "close" /\ Ends(m, "done")
  /\ UNCHANGED <<dirVars, late, take, standing, broken, belated, cut, delivered>>

\* put fails: the exchange is run once more on a fresh connection, where it
\* was not on one.  Connecting may fail too.
Fail(m) ==
  /\ broken' = broken \cup {m}
  /\ \/ /\ ~ put[m].fresh /\ Asks(m, "open", 0, TRUE)
        /\ standing' = Elsewhere(Target[m])
     \/ Ends(m, "failed") /\ UNCHANGED standing
  /\ UNCHANGED <<dirVars, take, belated, cut, delivered>>

\* The request is refused, or the body cannot be read on.
PutFails(m) ==
  /\ put[m].reply = "refused" \/ (put[m].reply = "ok" /\ put[m].pc \in {"open", "write"})
  /\ Fail(m)
  /\ UNCHANGED late

\* The answer does not come in time, or at all.
GiveUp(m) ==
  /\ put[m].reply \in {"asked", "ok"}
  /\ Fail(m)
  /\ late' \in {late} \cup
       (IF put[m].reply = "asked" /\ Cardinality(late) < MaxLate
          THEN {late \cup {Asked(m)}} ELSE {})
-----------------------------------------------------------------------------
(***************************************************************************)
(* A receive of one file.                                                  *)
(***************************************************************************)
\* History: the attempt of a message's send that is under way, or was last; and
\* whether it has the file open at the far end.
Attempt(m) == <<m, put[m].fresh>>
Unclosed(p) ==
  \/ p.pc = "open" /\ p.reply = "ok"
  \/ p.pc = "write"
  \/ p.pc = "close" /\ p.reply = "asked"

\* History: the attempts that are writing to a name.
Writers(n) == {Attempt(m) : m \in {o \in Message : Target[o] = n /\ Unclosed(put[o])}}

\* The claim of a file, finished or not.
Take(n) ==
  /\ take.pc = "none" /\ Len(delivered) < MaxTakes
  /\ RenameFile(n, Claimed)
  /\ take' = [take EXCEPT !.pc = "claimed"]
  /\ standing' = Elsewhere(n)
  /\ cut' = [a \in DOMAIN cut \cup Writers(n) |->
              IF a \in Writers(n) THEN Len(files[n]) ELSE cut[a]]
  /\ UNCHANGED <<put, late, broken, belated, delivered>>

\* open_for_reading.
OpenRead ==
  /\ take.pc = "claimed" /\ Claimed \in DOMAIN files
  /\ take' = [take EXCEPT !.pc = "reading"]
  /\ UNCHANGED <<dirVars, put, late, standing, broken, belated, cut, delivered>>

\* Fault: the end is said one byte early.
DataEarly(bytes, offset) ==
  IF offset + 1 >= Len(bytes) THEN <<>>
  ELSE SubSeq(bytes, offset + 1, MinOf(Len(bytes), offset + Chunk))

\* on_read: the bytes from an offset; none, its EOF, at the end.
Data(bytes, offset) ==
  IF offset >= Len(bytes) THEN <<>>
  ELSE SubSeq(bytes, offset + 1, MinOf(Len(bytes), offset + Chunk))

\* read_at; a file that is gone has its end wherever it is read.
ReadAt ==
  /\ take.pc = "reading"
  /\ LET bytes == IF Claimed \in DOMAIN files THEN files[Claimed] ELSE <<>>
         data == Data(bytes, Len(take.got))
     IN  IF data = <<>>
           THEN /\ take' = [take EXCEPT !.pc = "ended"]
                /\ delivered' = Append(delivered, take.got)
           ELSE /\ take' = [take EXCEPT !.got = @ \o data]
                /\ UNCHANGED delivered
  /\ UNCHANGED <<dirVars, put, late, standing, broken, belated, cut>>

\* Fault: the file accepted is not removed, and received once more.
AcceptForgotten ==
  /\ take.pc = "ended"
  /\ take' = [NotTaking EXCEPT !.pc = "claimed"]
  /\ UNCHANGED <<dirVars, put, late, standing, broken, belated, cut, delivered>>

\* Accepted: SftpSite::delete.
Accept ==
  /\ take.pc = "ended"
  /\ RemoveFile(Claimed)
  /\ take' = NotTaking
  /\ UNCHANGED <<put, late, standing, broken, belated, cut, delivered>>
-----------------------------------------------------------------------------
Putting(m) == Answer(m) \/ Hear(m) \/ PutFails(m) \/ GiveUp(m)

Taking == OpenRead \/ ReadAt \/ Accept

Next ==
  \/ \E m \in Message : Send(m) \/ Putting(m)
  \/ \E r \in late : AnswerLate(r)
  \/ \E n \in Name \ {Claimed} : Take(n)
  \/ Taking

Spec == Init /\ [][Next]_vars
-----------------------------------------------------------------------------
(***************************************************************************)
(* Properties.                                                             *)
(***************************************************************************)
\* "Put `outgoing`'s body into the directory as `name`" (Client::put): a put
\* whose CLOSE is answered, as the owner is told, has left the whole body
\* under its name, until it is taken or put over.
PutIsThere ==
  \A m \in standing : Target[m] \in DOMAIN files /\ files[Target[m]] = Body[m]

\* The first bytes of a message, with a hole in place of some of them.
IsPart(bytes, m, hole, length) ==
  /\ Len(bytes) = length
  /\ \A k \in 1 .. length : bytes[k] = IF k <= hole THEN 0 ELSE Body[m][k]

\* What was claimed of the attempt as it was written.
Taken(m) == IF Attempt(m) \in DOMAIN cut THEN cut[Attempt(m)] ELSE 0

\* That is so whatever an attempt before it did before it failed, but for two
\* things.  The far end may answer a request of an attempt that was given up;
\* and the file may have been claimed as it was written.  Then the rest of
\* the body is there after a hole of what was claimed, or nothing is there
\* and all of it was claimed: no byte of it is lost.
SentIsThere ==
  ~ belated => \A m \in standing :
    IF Target[m] \in DOMAIN files
      THEN IsPart(files[Target[m]], m, Taken(m), Len(Body[m]))
      ELSE Attempt(m) \in DOMAIN cut /\ Taken(m) = Len(Body[m])

\* The messages whose file was claimed as an attempt wrote it.
Cut == {a[1] : a \in DOMAIN cut}

\* What a receiver may be given of a message: its body whole; the start of it
\* where an attempt to send it failed or it was cut; and a part after a hole
\* only where it was cut.
Of(bytes, m, hole) ==
  /\ Len(bytes) <= Len(Body[m]) /\ IsPart(bytes, m, hole, Len(bytes))
  /\ m \notin broken \cup Cut => Len(bytes) = Len(Body[m])
  /\ m \notin Cut => hole = 0

\* Unless a request given up is answered late, what a receiver reads to its
\* end is of one message: whole, but for one of which an attempt to send
\* failed or that was claimed as it was written.  READs neither skip nor
\* repeat, and no file is of two messages.
DeliveredWhole ==
  ~ belated => \A i \in DOMAIN delivered :
    \E m \in Message, hole \in 0 .. Len(delivered[i]) : Of(delivered[i], m, hole)

\* With the same exception, files received are of different messages, but for
\* messages of which an attempt to send failed, the put whose answer was lost
\* being run again (send_from).  A message claimed as it was written comes in
\* several files, and no byte of it in two: each begins where one before ended.
OnceUnlessBroken ==
  ~ belated => \E from \in [DOMAIN delivered -> Message],
                  hole \in [DOMAIN delivered -> UNION {0 .. Len(delivered[i]) : i \in DOMAIN delivered}] :
    /\ \A i \in DOMAIN delivered :
         hole[i] <= Len(delivered[i]) /\ Of(delivered[i], from[i], hole[i])
    /\ \A i, j \in DOMAIN delivered : i < j /\ from[i] = from[j] =>
         from[i] \in broken \/ (from[i] \in Cut /\ Len(delivered[i]) <= hole[j])

\* However late a request is answered, a byte of a file is the one a message
\* has in that place, or the zero of a hole before it: requests of attempts
\* given up can empty a file or make it anew, and never shift what is in it.
InPlace ==
  \A n \in DOMAIN files : \A k \in DOMAIN files[n] :
    files[n][k] = 0 \/ \E m \in Message : k <= Len(Body[m]) /\ files[n][k] = Body[m][k]
=============================================================================
