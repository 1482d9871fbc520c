------------------------------- MODULE Harvest -------------------------------
(***************************************************************************)
(* One harvest after its files are claimed (src/src/connection.rs): the    *)
(* thread that has the channel, the requests its arrivals queue, the       *)
(* one-place channel each body is read through, the verdicts told, and the *)
(* finish that the last of them asks for.  Arrivals are read, told and let *)
(* go concurrently and in any order.                                       *)
(*                                                                         *)
(* `transport::together` is external and modelled from its use: it tells   *)
(* each verdict as it is given, and runs its closing once, when the last   *)
(* arrival has been told or let go, in the thread that did so.             *)
(*                                                                         *)
(* The runtime's side of the contract is a guard: a verdict is told once   *)
(* the file's own body has ended, failed, was let go or was never begun.   *)
(***************************************************************************)
EXTENDS Naturals, Sequences

CONSTANTS
  Arrival,   \* the claimed files
  Chunks     \* how many READs each file takes

ASSUME HarvestAssumption == Chunks \in [Arrival -> Nat]

VARIABLES
  file,      \* each claimed file at the far end
  body,      \* each arrival's body: Fetch
  got,       \* the chunks its reader was given
  chunk,     \* what lies in its one-place channel
  verdict,   \* each arrival's acknowledgement
  settled,   \* how the telling of it went, each arrival
  requests,  \* the queue to the harvest's thread
  closing,   \* together's closing: whom it tells, and the finish
  thread     \* the harvest's thread

vars == <<file, body, got, chunk, verdict, settled, requests, closing, thread>>
-----------------------------------------------------------------------------
Verdict == {"Accepted", "Failed"}

\* How a telling may end: done; the file kept, with why; an error.
Settled == {"told", "kept", "error"}

\* Request.  A verdict of "none" is of a file let go without one.
ReadRequest(a) == [ask |-> "read", of |-> a]
\* (Fault: the verdict sent is the one recorded, not yet this one.)
ToldRequestRecorded(a, v) == [ask |-> "told", of |-> a, verdict |-> verdict[a]]
ToldRequest(a, v) == [ask |-> "told", of |-> a, verdict |-> v]
FinishRequest == [ask |-> "finish"]

Request ==
  [ask : {"read"}, of : Arrival]
    \cup [ask : {"told"}, of : Arrival, verdict : Verdict \cup {"none"}]
    \cup {FinishRequest}

\* unread; in recv (asking) or between two reads (open) of next_chunk; read to
\* its end; failed; or let go.
Body == {"unread", "asking", "open", "ended", "failed", "dropped"}

\* In `reading`, one body after the other; otherwise awaiting a request, in
\* with_subsystem's close, or ended.
ReadingState == {"read", "send", "close", "last"}
Threads ==
  [pc : ReadingState, of : Arrival, offset : Nat, ended : {"none", "end", "error"}]
    \cup [pc : {"recv", "hangup", "done", "broken"}]

TypeOK ==
  /\ file \in [Arrival -> {"claimed", "removed", "back"}]
  /\ body \in [Arrival -> Body]
  /\ got \in [Arrival -> Nat]
  /\ chunk \in [Arrival -> {"none", "data", "end", "error"}]
  /\ verdict \in [Arrival -> Verdict \cup {"pending", "none"}]
  /\ settled \in [Arrival -> {"no", "telling", "told", "kept", "error"}]
  /\ requests \in Seq(Request)
  /\ closing \in {"not", "letting", "finishing", "finished"}
  /\ thread \in Threads

Idle == [pc |-> "recv"]

Init ==
  /\ file = [a \in Arrival |-> "claimed"]
  /\ body = [a \in Arrival |-> "unread"]
  /\ got = [a \in Arrival |-> 0]
  /\ chunk = [a \in Arrival |-> "none"]
  /\ verdict = [a \in Arrival |-> "pending"]
  /\ settled = [a \in Arrival |-> "no"]
  /\ requests = <<>>
  /\ closing = "not"
  /\ thread = Idle

Ended == thread.pc \in {"done", "broken"}
Reading(a) == thread.pc \in ReadingState /\ thread.of = a
ReaderGone(a) == body[a] \in {"dropped", "failed", "ended"}
-----------------------------------------------------------------------------
(***************************************************************************)
(* A body: Fetch::next_chunk.                                              *)
(***************************************************************************)
\* The first read asks the harvest; a harvest that has ended fails it.
AskBody(a) ==
  /\ body[a] = "unread"
  /\ IF Ended
       THEN body' = [body EXCEPT ![a] = "failed"] /\ UNCHANGED requests
       ELSE /\ body' = [body EXCEPT ![a] = "asking"]
            /\ requests' = Append(requests, ReadRequest(a))
  /\ UNCHANGED <<file, got, chunk, verdict, settled, closing, thread>>

ReadOn(a) ==
  /\ body[a] = "open"
  /\ body' = [body EXCEPT ![a] = "asking"]
  /\ UNCHANGED <<file, got, chunk, verdict, settled, requests, closing, thread>>

\* The harvest's end of the body's channel is gone: the request was dropped
\* with the queue, or `reading` returned.
SenderGone(a) ==
  /\ Ended \/ ReadRequest(a) \notin {requests[i] : i \in DOMAIN requests}
  /\ ~ Reading(a)

Receive(a) ==
  /\ body[a] = "asking"
  /\ \/ /\ chunk[a] # "none"
        /\ chunk' = [chunk EXCEPT ![a] = "none"]
        /\ got' = [got EXCEPT ![a] = IF chunk[a] = "data" THEN @ + 1 ELSE @]
        /\ body' = [body EXCEPT ![a] = CASE chunk[a] = "data" -> "open"
                                         [] chunk[a] = "end" -> "ended"
                                         [] chunk[a] = "error" -> "failed"]
     \/ /\ chunk[a] = "none" /\ SenderGone(a)
        /\ body' = [body EXCEPT ![a] = "failed"]
        /\ UNCHANGED <<chunk, got>>
  /\ UNCHANGED <<file, verdict, settled, requests, closing, thread>>

DropBody(a) ==
  /\ body[a] \in {"unread", "open"}
  /\ body' = [body EXCEPT ![a] = "dropped"]
  /\ chunk' = [chunk EXCEPT ![a] = "none"]
  /\ UNCHANGED <<file, got, verdict, settled, requests, closing, thread>>
-----------------------------------------------------------------------------
(***************************************************************************)
(* A verdict: told, and together's closing.                                *)
(***************************************************************************)
\* told's send, and its failure where the harvest has ended.
Tell(a, v) ==
  IF Ended
    THEN settled' = [settled EXCEPT ![a] = "error"] /\ UNCHANGED requests
    ELSE /\ settled' = [settled EXCEPT ![a] = "telling"]
         /\ requests' = Append(requests, ToldRequest(a, v))

\* told's wait, over because the harvest ended during it.
ToldNothing(a) ==
  /\ settled[a] = "telling"
  /\ Ended
  /\ settled' = [settled EXCEPT ![a] = "error"]
  /\ UNCHANGED <<file, body, got, chunk, verdict, requests, closing, thread>>

GiveVerdict(a, v) ==
  /\ verdict[a] = "pending"
  /\ body[a] \notin {"asking", "open"}
  /\ verdict' = [verdict EXCEPT ![a] = v]
  /\ Tell(a, v)
  /\ UNCHANGED <<file, body, got, chunk, closing, thread>>

LetGo(a) ==
  /\ verdict[a] = "pending"
  /\ body[a] \notin {"asking", "open"}
  /\ verdict' = [verdict EXCEPT ![a] = "none"]
  /\ UNCHANGED <<file, body, got, chunk, settled, requests, closing, thread>>

\* Every arrival has been told, its telling over, or was let go.
AllIn ==
  \A a \in Arrival :
    verdict[a] # "pending" /\ (verdict[a] # "none" => settled[a] \in Settled)

\* Fault: the closing runs as soon as each arrival has its verdict or was let
\* go, and leaves those let go to the harvest's end.
CloseEarly ==
  /\ closing = "not"
  /\ \A a \in Arrival : verdict[a] # "pending"
  /\ closing' = "finishing"
  /\ requests' = Append(requests, FinishRequest)
  /\ UNCHANGED <<file, body, got, chunk, verdict, settled, thread>>

Close ==
  /\ closing = "not"
  /\ AllIn
  /\ closing' = "letting"
  /\ UNCHANGED <<file, body, got, chunk, verdict, settled, requests, thread>>

\* The closing tells each file let go, one after the other, whatever becomes
\* of each.
ReturnNext(a) ==
  /\ closing = "letting"
  /\ verdict[a] = "none" /\ settled[a] = "no"
  /\ \A b \in Arrival : settled[b] # "telling"
  /\ Tell(a, "none")
  /\ UNCHANGED <<file, body, got, chunk, verdict, closing, thread>>

\* Fault: no finish where every arrival had a verdict.
FinishReturned ==
  /\ closing = "letting"
  /\ \A a \in Arrival : settled[a] \in Settled
  /\ IF Ended \/ \A a \in Arrival : verdict[a] # "none"
       THEN closing' = "finished" /\ UNCHANGED requests
       ELSE closing' = "finishing" /\ requests' = Append(requests, FinishRequest)
  /\ UNCHANGED <<file, body, got, chunk, verdict, settled, thread>>

\* finish: asks, unless the harvest has ended.
Finish ==
  /\ closing = "letting"
  /\ \A a \in Arrival : settled[a] \in Settled
  /\ IF Ended
       THEN closing' = "finished" /\ UNCHANGED requests
       ELSE closing' = "finishing" /\ requests' = Append(requests, FinishRequest)
  /\ UNCHANGED <<file, body, got, chunk, verdict, settled, thread>>

\* finish returns: the client is back, or the harvest is gone.
Finished ==
  /\ closing = "finishing"
  /\ Ended
  /\ closing' = "finished"
  /\ UNCHANGED <<file, body, got, chunk, verdict, settled, requests, thread>>
-----------------------------------------------------------------------------
(***************************************************************************)
(* The harvest's thread: answering and reading.                            *)
(***************************************************************************)
\* `reading` goes on: the same body, at an offset, ended or not.
ReadsOn(pc, offset, ended) ==
  thread' = [pc |-> pc, of |-> thread.of, offset |-> offset, ended |-> ended]

Asked(ask) == thread.pc = "recv" /\ requests # <<>> /\ Head(requests).ask = ask

\* open_for_reading: a refusal is the body's.
AnswerRead ==
  /\ Asked("read")
  /\ requests' = Tail(requests)
  /\ LET a == Head(requests).of
     IN  \/ /\ file[a] = "claimed"
            /\ thread' = [pc |-> "read", of |-> a, offset |-> 0, ended |-> "none"]
            /\ UNCHANGED chunk
         \/ /\ chunk' = [chunk EXCEPT ![a] = IF ReaderGone(a) THEN @ ELSE "error"]
            /\ UNCHANGED thread
  /\ UNCHANGED <<file, body, got, verdict, settled, closing>>

\* Fault: a read that failed ends the body as its end does.
ReadAtSilent ==
  /\ thread.pc = "read"
  /\ \/ thread.offset < Chunks[thread.of] /\ ReadsOn("send", thread.offset, "none")
     \/ ReadsOn("close", thread.offset, "end")
  /\ UNCHANGED <<file, body, got, chunk, verdict, settled, requests, closing>>

\* read_at: the next chunk, the end, or an error.  The far end answers EOF
\* for a file that is no longer there.
ReadAt ==
  /\ thread.pc = "read"
  /\ LET more == file[thread.of] = "claimed" /\ thread.offset < Chunks[thread.of]
     IN  \/ more /\ ReadsOn("send", thread.offset, "none")
         \/ ~ more /\ ReadsOn("close", thread.offset, "end")
         \/ ReadsOn("close", thread.offset, "error")
  /\ UNCHANGED <<file, body, got, chunk, verdict, settled, requests, closing>>

\* Fault: a body let go goes unnoticed.
SendChunkBlind ==
  /\ thread.pc = "send"
  /\ chunk[thread.of] = "none"
  /\ chunk' = [chunk EXCEPT ![thread.of] = "data"]
  /\ ReadsOn("read", thread.offset + 1, "none")
  /\ UNCHANGED <<file, body, got, verdict, settled, requests, closing>>

\* The send to the body waits for its place; it fails where the body is gone.
SendChunk ==
  /\ thread.pc = "send"
  /\ \/ /\ ReaderGone(thread.of)
        /\ ReadsOn("close", thread.offset, "none")
        /\ UNCHANGED chunk
     \/ /\ ~ ReaderGone(thread.of) /\ chunk[thread.of] = "none"
        /\ chunk' = [chunk EXCEPT ![thread.of] = "data"]
        /\ ReadsOn("read", thread.offset + 1, "none")
  /\ UNCHANGED <<file, body, got, verdict, settled, requests, closing>>

\* The handle is closed; a close that fails ends the harvest.
CloseHandle ==
  /\ thread.pc = "close"
  /\ \/ thread.ended = "none" /\ thread' = Idle
     \/ thread.ended # "none" /\ ReadsOn("last", thread.offset, thread.ended)
     \/ thread' = [pc |-> "broken"]
  /\ UNCHANGED <<file, body, got, chunk, verdict, settled, requests, closing>>

SendLast ==
  /\ thread.pc = "last"
  /\ \/ ReaderGone(thread.of) /\ UNCHANGED chunk
     \/ /\ ~ ReaderGone(thread.of) /\ chunk[thread.of] = "none"
        /\ chunk' = [chunk EXCEPT ![thread.of] = thread.ended]
  /\ thread' = Idle
  /\ UNCHANGED <<file, body, got, verdict, settled, requests, closing>>

\* What a verdict makes of the file: `remove`, or `restore` finding it Back.
Done(a, v) == [file EXCEPT ![a] = IF v = "Accepted" THEN "removed" ELSE "back"]

\* Fault: a failed removal or return is answered as done.
AnswerToldUnchecked ==
  /\ Asked("told")
  /\ requests' = Tail(requests)
  /\ LET a == Head(requests).of
     IN  /\ file' \in {file, Done(a, Head(requests).verdict)}
         /\ settled' = [settled EXCEPT ![a] = "told"]
  /\ UNCHANGED <<body, got, chunk, verdict, closing, thread>>

\* Claiming::told (external): Accepted removes the file, anything else returns
\* it under its dropped name.  A return the far end refuses keeps the file
\* claimed and held, with why (Restore::Kept).  A request that fails is an
\* error, whether or not the far end did it before its answer was lost.
AnswerTold ==
  /\ Asked("told")
  /\ requests' = Tail(requests)
  /\ LET a == Head(requests).of
         v == Head(requests).verdict
     IN  \/ file' = Done(a, v) /\ settled' = [settled EXCEPT ![a] = "told"]
         \/ /\ v # "Accepted"
            /\ settled' = [settled EXCEPT ![a] = "kept"] /\ UNCHANGED file
         \/ file' \in {file, Done(a, v)} /\ settled' = [settled EXCEPT ![a] = "error"]
  /\ UNCHANGED <<body, got, chunk, verdict, closing, thread>>

AnswerFinish ==
  /\ Asked("finish")
  /\ requests' = Tail(requests)
  /\ thread' = [pc |-> "hangup"]
  /\ UNCHANGED <<file, body, got, chunk, verdict, settled, closing>>

\* The channel is closed, and the client given back or lost with it.
HangUp ==
  /\ thread.pc = "hangup"
  /\ thread' \in {[pc |-> "done"], [pc |-> "broken"]}
  /\ UNCHANGED <<file, body, got, chunk, verdict, settled, requests, closing>>
-----------------------------------------------------------------------------
Reader(a) == AskBody(a) \/ ReadOn(a) \/ DropBody(a)
Teller(a) == (\E v \in Verdict : GiveVerdict(a, v)) \/ LetGo(a)
Closer == Close \/ Finish \/ Finished \/ \E a \in Arrival : ReturnNext(a)
Thread ==
  AnswerRead \/ ReadAt \/ SendChunk \/ CloseHandle \/ SendLast
    \/ AnswerTold \/ AnswerFinish \/ HangUp

\* Everything is over: the files have their verdicts, the bodies are gone.
Over == closing = "finished" /\ \A a \in Arrival : ReaderGone(a)

Next ==
  \/ \E a \in Arrival : Reader(a) \/ Receive(a) \/ Teller(a) \/ ToldNothing(a)
  \/ Closer
  \/ Thread
  \/ Over /\ UNCHANGED vars

Spec == Init /\ [][Next]_vars

\* Threads run: the harvest's, and whoever waits for its answer.  A runtime
\* that has begun a body reads on or lets it go.
Running ==
  /\ WF_vars(Thread)
  /\ WF_vars(Closer)
  /\ \A a \in Arrival :
       /\ WF_vars(Receive(a))
       /\ WF_vars(ToldNothing(a))
       /\ WF_vars(ReadOn(a) \/ (body[a] = "open" /\ DropBody(a)))

\* And one that was handed an arrival tells it or lets it go.
Telling == \A a \in Arrival : WF_vars(Teller(a))

FairSpec == Spec /\ Running /\ Telling
-----------------------------------------------------------------------------
(***************************************************************************)
(* Properties.                                                             *)
(***************************************************************************)
\* A body that ended was given the whole file: neither an error, a broken
\* harvest nor what is read and told beside it ends it short (`reading`).
EndedIsWhole ==
  \A a \in Arrival : body[a] = "ended" => got[a] = Chunks[a]

\* A file is removed only on the verdict Accepted and goes back only on
\* another, also where the answer to it was lost.  A telling that came back
\* without an error left the file where its verdict puts it, or held it:
\* still claimed, and never one that was accepted (`told`, Restore::Kept).
ToldIsDone ==
  \A a \in Arrival :
    /\ file[a] = "removed" => verdict[a] = "Accepted"
    /\ file[a] = "back" => verdict[a] # "Accepted"
    /\ settled[a] = "told" => file[a] # "claimed"
    /\ settled[a] = "kept" => file[a] = "claimed" /\ verdict[a] # "Accepted"

\* A harvest that ended on the last verdict leaves no claimed file untold:
\* those let go were told before the finish was asked for, and what is still
\* claimed is held with why, or its telling failed.
NoneLeftClaimed ==
  thread.pc \in {"hangup", "done"} =>
    \A a \in Arrival : file[a] = "claimed" => settled[a] \in {"kept", "error"}

\* Nobody waits for a harvest for ever: each read of a body and each telling
\* comes back, though bodies beside it are let go half read or the harvest
\* breaks.
AnswersCome ==
  \A a \in Arrival :
    /\ body[a] = "asking" ~> body[a] # "asking"
    /\ settled[a] = "telling" ~> settled[a] # "telling"

\* The harvest ends and the last arrival's finish returns, so the connection
\* goes back to the pool.
HarvestEnds == <>(closing = "finished" /\ Ended)
=============================================================================
