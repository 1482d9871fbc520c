---------------------------- MODULE HarvestProofs ----------------------------
(***************************************************************************)
(* What TLAPS proves of a harvest, for any arrivals and any lengths.  Each *)
(* invariant is about one actor's share:                                   *)
(*   - BodyInv: between the thread and a body nothing is lost: what the    *)
(*     reader was given and what lies in its place are what was read;      *)
(*   - VerdictInv: a file is where its telling left it;                    *)
(*   - QueueInv: a request queued is the only one of its kind for its      *)
(*     arrival, and what it asks is still to be done;                      *)
(*   - EndInv: the finish comes after every telling.                       *)
(***************************************************************************)
EXTENDS Harvest, TLAPS

AllSettled == \A a \in Arrival : settled[a] \in Settled

InPlace(a) == IF chunk[a] = "data" THEN 1 ELSE 0

BodyInv(a) ==
  /\ body[a] = "unread" => got[a] = 0 /\ chunk[a] = "none" /\ ~ Reading(a)
  /\ chunk[a] = "end" \/ body[a] = "ended" => got[a] = Chunks[a]
  /\ Reading(a) =>
       /\ thread.offset <= Chunks[a]
       /\ ~ ReaderGone(a) => /\ chunk[a] \in {"none", "data"}
                             /\ got[a] + InPlace(a) = thread.offset
       /\ thread.ended = "end" => thread.offset = Chunks[a]
       /\ thread.pc \in {"read", "send"} => file[a] = "claimed" /\ thread.ended = "none"
       /\ thread.pc = "send" => thread.offset < Chunks[a]

VerdictInv(a) ==
  /\ verdict[a] = "pending" => settled[a] = "no"
  /\ settled[a] \in {"no", "telling", "kept"} => file[a] = "claimed"
  /\ settled[a] = "told" => file[a] # "claimed"
  /\ settled[a] = "kept" => verdict[a] # "Accepted"
  /\ file[a] = "removed" => verdict[a] = "Accepted"
  /\ file[a] = "back" => verdict[a] # "Accepted"

Waits(a) == body[a] = "asking" /\ chunk[a] = "none" /\ got[a] = 0 /\ ~ Reading(a)

\* What a request in the queue is about.
Asks(r) ==
  /\ r.ask = "read" => Waits(r.of)
  /\ r.ask = "told" => settled[r.of] = "telling" /\ verdict[r.of] = r.verdict
  /\ r.ask = "finish" => AllSettled

Alike(r, q) == r.ask = q.ask /\ r.ask \in {"read", "told"} /\ r.of = q.of

QueueInv ==
  /\ \A i \in 1 .. Len(requests) : Asks(requests[i])
  /\ \A i, j \in 1 .. Len(requests) : i # j => ~ Alike(requests[i], requests[j])

EndInv == closing \in {"finishing", "finished"} \/ thread.pc \in {"hangup", "done"} => AllSettled

Inv ==
  /\ TypeOK
  /\ \A a \in Arrival : BodyInv(a) /\ VerdictInv(a)
  /\ Ended \/ QueueInv
  /\ EndInv

\* What a request is, by its kind.
LEMMA Kinds ==
  ASSUME NEW r \in Request
  PROVE  \/ r.ask = "read" /\ r.of \in Arrival
         \/ r.ask = "told" /\ r.of \in Arrival /\ r.verdict \in Verdict \cup {"none"}
         \/ r.ask = "finish"
BY DEF Request, FinishRequest

\* The queue with one more request, and with its first taken.
LEMMA Queued ==
  ASSUME requests \in Seq(Request), NEW r \in Request, requests' = Append(requests, r)
  PROVE  /\ requests' \in Seq(Request) /\ Len(requests') = Len(requests) + 1
         /\ \A i \in 1 .. Len(requests) : requests'[i] = requests[i]
         /\ requests'[Len(requests) + 1] = r
OBVIOUS

LEMMA Unqueued ==
  ASSUME requests \in Seq(Request), requests # <<>>, requests' = Tail(requests)
  PROVE  /\ requests' \in Seq(Request) /\ Len(requests) \in Nat \ {0}
         /\ Len(requests') = Len(requests) - 1
         /\ \A i \in 1 .. Len(requests') : requests'[i] = requests[i + 1]
         /\ Head(requests) = requests[1] /\ requests[1] \in Request
OBVIOUS

LEMMA Requested ==
  ASSUME NEW a \in Arrival, NEW v \in Verdict \cup {"none"}
  PROVE  /\ ReadRequest(a) \in Request /\ ToldRequest(a, v) \in Request
         /\ FinishRequest \in Request
BY DEF ReadRequest, ToldRequest, FinishRequest, Request
-----------------------------------------------------------------------------
(***************************************************************************)
(* Types.                                                                  *)
(***************************************************************************)
LEMMA TellTyped ==
  ASSUME TypeOK, NEW a \in Arrival, NEW v \in Verdict \cup {"none"}, Tell(a, v)
  PROVE  settled' \in [Arrival -> {"no", "telling", "told", "kept", "error"}] /\ requests' \in Seq(Request)
BY Requested, Queued DEF TypeOK, Tell

\* What a read of a body comes to.
LEMMA Received ==
  ASSUME TypeOK, NEW a \in Arrival, Receive(a)
  PROVE  \/ /\ chunk[a] = "data" /\ body' = [body EXCEPT ![a] = "open"]
            /\ got' = [got EXCEPT ![a] = @ + 1]
         \/ /\ chunk[a] = "end" /\ body' = [body EXCEPT ![a] = "ended"]
            /\ got' = got
         \/ /\ chunk[a] \in {"error", "none"} /\ body' = [body EXCEPT ![a] = "failed"]
            /\ got' = got
<1>1. chunk[a] \in {"none", "data", "end", "error"} /\ got = [got EXCEPT ![a] = got[a]]
  BY DEF TypeOK
<1>2. CASE chunk[a] = "data"
  BY <1>2 DEF Receive
<1>3. CASE chunk[a] = "end"
  BY <1>1, <1>3 DEF Receive
<1>4. CASE chunk[a] = "error"
  BY <1>1, <1>4 DEF Receive
<1>5. CASE chunk[a] = "none"
  BY <1>5 DEF Receive
<1> QED BY <1>1, <1>2, <1>3, <1>4, <1>5

LEMMA ArrivalTyped ==
  ASSUME TypeOK, NEW a \in Arrival, Reader(a) \/ Receive(a) \/ Teller(a) \/ ToldNothing(a)
  PROVE  TypeOK'
<1>1. CASE AskBody(a)
  <2>1. requests' \in Seq(Request)
    BY <1>1, Requested, Queued DEF AskBody, TypeOK
  <2> QED BY <1>1, <2>1 DEF AskBody, TypeOK, Body
<1>2. CASE ReadOn(a) \/ DropBody(a)
  BY <1>2 DEF ReadOn, DropBody, TypeOK, Body
<1>3. CASE Receive(a)
  <2>1. chunk[a] \in {"none", "data", "end", "error"}
    BY DEF TypeOK
  <2>2. body' \in [Arrival -> Body] /\ got' \in [Arrival -> Nat]
    <3>1. \/ body' = [body EXCEPT ![a] = "open"] /\ got' = [got EXCEPT ![a] = @ + 1]
          \/ body' = [body EXCEPT ![a] = "ended"] /\ got' = got
          \/ body' = [body EXCEPT ![a] = "failed"] /\ got' = got
      BY <1>3, Received
    <3>2. body \in [Arrival -> Body] /\ got \in [Arrival -> Nat]
      BY DEF TypeOK
    <3>3. body' \in [Arrival -> Body]
      BY <3>1, <3>2 DEF Body
    <3>4. got' \in [Arrival -> Nat]
      BY <3>1, <3>2
    <3> QED BY <3>3, <3>4
  <2>3. chunk' \in [Arrival -> {"none", "data", "end", "error"}]
    BY <1>3 DEF Receive, TypeOK
  <2> QED BY <1>3, <2>2, <2>3 DEF Receive, TypeOK
<1>4. ASSUME NEW v \in Verdict, GiveVerdict(a, v)
      PROVE  TypeOK'
  BY <1>4, TellTyped DEF GiveVerdict, TypeOK
<1>5. CASE LetGo(a) \/ ToldNothing(a)
  BY <1>5 DEF LetGo, ToldNothing, TypeOK
<1> QED BY <1>1, <1>2, <1>3, <1>4, <1>5 DEF Reader, Teller

LEMMA CloserTyped ==
  ASSUME TypeOK, Closer
  PROVE  TypeOK'
<1>1. CASE Close \/ Finished
  BY <1>1 DEF Close, Finished, TypeOK
<1>2. CASE Finish
  <2>1. FinishRequest \in Request
    BY DEF Request
  <2> QED BY <1>2, <2>1, Queued DEF Finish, TypeOK
<1>3. ASSUME NEW a \in Arrival, ReturnNext(a)
      PROVE  TypeOK'
  BY <1>3, TellTyped DEF ReturnNext, TypeOK
<1> QED BY <1>1, <1>2, <1>3 DEF Closer

\* What the thread reads is of an arrival.
LEMMA ThreadReads ==
  ASSUME TypeOK, thread.pc \in ReadingState
  PROVE  thread.of \in Arrival /\ thread.offset \in Nat /\ thread.ended \in {"none", "end", "error"}
BY DEF TypeOK, Threads, ReadingState

\* The request the thread has is the queue's first.
LEMMA Asking ==
  ASSUME TypeOK, NEW ask \in {"read", "told"}, Asked(ask)
  PROVE  /\ Head(requests) = requests[1] /\ Len(requests) \in Nat \ {0}
         /\ Head(requests).ask = ask /\ Head(requests).of \in Arrival
         /\ thread.pc = "recv"
<1>1. Head(requests) = requests[1] /\ Len(requests) \in Nat \ {0} /\ Head(requests) \in Request
  BY DEF TypeOK, Asked
<1> QED BY <1>1, Kinds DEF Asked

LEMMA ThreadTyped ==
  ASSUME TypeOK, Thread
  PROVE  TypeOK'
<1> USE DEF Asked
<1>1. CASE AnswerRead
  <2>1. Head(requests).of \in Arrival
    BY <1>1, Asking DEF AnswerRead
  <2>2. requests' \in Seq(Request)
    BY <1>1, Unqueued DEF AnswerRead, TypeOK
  <2>3. thread' \in Threads
    BY <1>1, <2>1 DEF AnswerRead, TypeOK, Threads, ReadingState
  <2>4. chunk' \in [Arrival -> {"none", "data", "end", "error"}]
    <3>1. CASE ReaderGone(Head(requests).of)
      BY <1>1, <2>1, <3>1 DEF AnswerRead, TypeOK
    <3>2. CASE ~ ReaderGone(Head(requests).of)
      BY <1>1, <2>1, <3>2 DEF AnswerRead, TypeOK
    <3> QED BY <3>1, <3>2
  <2> QED BY <1>1, <2>2, <2>3, <2>4 DEF AnswerRead, TypeOK
<1>2. CASE ReadAt
  <2>1. thread' \in Threads
    BY <1>2, ThreadReads DEF ReadAt, ReadsOn, Threads, ReadingState
  <2> QED BY <1>2, <2>1 DEF ReadAt, TypeOK
<1>3. CASE SendChunk
  <2>1. thread' \in Threads
    BY <1>3, ThreadReads DEF SendChunk, ReadsOn, Threads, ReadingState
  <2>2. chunk' \in [Arrival -> {"none", "data", "end", "error"}]
    BY <1>3, ThreadReads DEF SendChunk, TypeOK, ReadingState
  <2> QED BY <1>3, <2>1, <2>2 DEF SendChunk, TypeOK
<1>4. CASE CloseHandle
  <2>1. thread' \in Threads
    BY <1>4, ThreadReads DEF CloseHandle, ReadsOn, Threads, ReadingState, Idle
  <2> QED BY <1>4, <2>1 DEF CloseHandle, TypeOK
<1>5. CASE SendLast
  <2>1. thread' \in Threads
    BY <1>5 DEF SendLast, Threads, Idle
  <2>2. chunk' \in [Arrival -> {"none", "data", "end", "error"}]
    BY <1>5, ThreadReads DEF SendLast, TypeOK, ReadingState
  <2> QED BY <1>5, <2>1, <2>2 DEF SendLast, TypeOK
<1>6. CASE AnswerTold
  <2>1. Head(requests).of \in Arrival
    BY <1>6, Asking DEF AnswerTold
  <2>2. requests' \in Seq(Request)
    BY <1>6, Unqueued DEF AnswerTold, TypeOK
  <2>3. /\ file' \in [Arrival -> {"claimed", "removed", "back"}]
        /\ settled' \in [Arrival -> {"no", "telling", "told", "kept", "error"}]
    BY <1>6, <2>1 DEF AnswerTold, Done, TypeOK
  <2> QED BY <1>6, <2>2, <2>3 DEF AnswerTold, TypeOK
<1>7. CASE AnswerFinish
  BY <1>7, Unqueued DEF AnswerFinish, TypeOK, Threads
<1>8. CASE HangUp
  BY <1>8 DEF HangUp, TypeOK, Threads
<1> QED BY <1>1, <1>2, <1>3, <1>4, <1>5, <1>6, <1>7, <1>8 DEF Thread

LEMMA NextTyped == TypeOK /\ [Next]_vars => TypeOK'
<1>1. TypeOK /\ UNCHANGED vars => TypeOK'
  BY DEF TypeOK, vars
<1> QED BY <1>1, ArrivalTyped, CloserTyped, ThreadTyped DEF Next
-----------------------------------------------------------------------------
(***************************************************************************)
(* What leaves an invariant alone.                                         *)
(***************************************************************************)
LEMMA BodyKept ==
  ASSUME NEW b \in Arrival, BodyInv(b), body'[b] = body[b], got'[b] = got[b],
         chunk'[b] = chunk[b],
         Reading(b)' => Reading(b) /\ thread' = thread /\ file'[b] = file[b]
  PROVE  BodyInv(b)'
BY DEF BodyInv, Reading, ReaderGone, InPlace

LEMMA VerdictKept ==
  ASSUME NEW b \in Arrival, VerdictInv(b), verdict'[b] = verdict[b],
         settled'[b] = settled[b], file'[b] = file[b]
  PROVE  VerdictInv(b)'
BY DEF VerdictInv

LEMMA WaitsKept ==
  ASSUME NEW b \in Arrival, Waits(b), body'[b] = body[b], got'[b] = got[b],
         chunk'[b] = chunk[b], Reading(b)' => Reading(b)
  PROVE  Waits(b)'
BY DEF Waits

\* A request still asks for what it asked.
LEMMA AsksKept ==
  ASSUME NEW q \in Request, Asks(q),
         q.ask = "read" => (Waits(q.of) => Waits(q.of)'),
         q.ask = "told" => settled'[q.of] = settled[q.of] /\ verdict'[q.of] = verdict[q.of],
         q.ask = "finish" => (AllSettled => AllSettled')
  PROVE  Asks(q)'
BY DEF Asks

LEMMA QueueStays ==
  ASSUME TypeOK, QueueInv, requests' = requests,
         \A i \in 1 .. Len(requests) : \A q \in Request :
           q = requests[i] /\ Asks(q) => Asks(q)'
  PROVE  QueueInv'
<1>1. \A i \in 1 .. Len(requests) : requests[i] \in Request
  BY DEF TypeOK
<1>2. ASSUME NEW i \in 1 .. Len(requests)
      PROVE  Asks(requests[i])'
  <2>1. PICK q \in Request : q = requests[i]
    BY <1>1
  <2>2. Asks(q)
    BY <2>1 DEF QueueInv
  <2>3. Asks(q)' /\ requests'[i] = q
    BY <2>1, <2>2
  <2> QED BY <2>3 DEF Asks
<1> QED BY <1>2 DEF QueueInv, Alike

LEMMA QueueGrows ==
  ASSUME TypeOK, QueueInv, NEW r \in Request, requests' = Append(requests, r), Asks(r)',
         \A q \in Request : Asks(q) => Asks(q)' /\ ~ Alike(q, r)
  PROVE  QueueInv'
<1>1. \A i \in 1 .. Len(requests) : requests[i] \in Request
  BY DEF TypeOK
<1>2. /\ Len(requests) \in Nat /\ Len(requests') = Len(requests) + 1
      /\ \A i \in 1 .. Len(requests) : requests'[i] = requests[i]
      /\ requests'[Len(requests) + 1] = r
  BY Queued DEF TypeOK
<1>3. ASSUME NEW i \in 1 .. Len(requests')
      PROVE  Asks(requests[i])' /\ (i # Len(requests) + 1 => ~ Alike(requests[i], r)')
  <2>1. CASE i = Len(requests) + 1
    <3>1. requests'[i] = r
      BY <1>2, <2>1
    <3> QED BY <2>1, <3>1 DEF Asks
  <2>2. CASE i \in 1 .. Len(requests)
    <3>1. PICK q \in Request : q = requests[i]
      BY <1>1, <2>2
    <3>2. Asks(q)
      BY <2>2, <3>1 DEF QueueInv
    <3>3. Asks(q)' /\ ~ Alike(q, r) /\ requests'[i] = q
      BY <1>2, <2>2, <3>1, <3>2
    <3> QED BY <3>3 DEF Asks, Alike
  <2> QED BY <1>2, <2>1, <2>2
<1>4. ASSUME NEW i \in 1 .. Len(requests'), NEW j \in 1 .. Len(requests'), i # j
      PROVE  ~ Alike(requests[i], requests[j])'
  <2>1. CASE i # Len(requests) + 1 /\ j # Len(requests) + 1
    <3>1. i \in 1 .. Len(requests) /\ j \in 1 .. Len(requests)
      BY <1>2, <2>1
    <3>2. ~ Alike(requests[i], requests[j])
      BY <1>4, <3>1 DEF QueueInv
    <3> QED BY <1>2, <3>1, <3>2 DEF Alike
  <2>2. CASE j = Len(requests) + 1
    <3>1. requests'[j] = r /\ ~ Alike(requests[i], r)'
      BY <1>2, <1>3, <1>4, <2>2
    <3> QED BY <3>1 DEF Alike
  <2>3. CASE i = Len(requests) + 1
    <3>1. requests'[i] = r /\ ~ Alike(requests[j], r)'
      BY <1>2, <1>3, <1>4, <2>3
    <3> QED BY <3>1 DEF Alike
  <2> QED BY <2>1, <2>2, <2>3
<1> QED BY <1>3, <1>4 DEF QueueInv

LEMMA QueueShrinks ==
  ASSUME TypeOK, QueueInv, requests # <<>>, requests' = Tail(requests),
         NEW h \in Request, h = Head(requests),
         \A q \in Request : Asks(q) /\ ~ Alike(h, q) => Asks(q)'
  PROVE  QueueInv'
<1>1. \A i \in 1 .. Len(requests) : requests[i] \in Request
  BY DEF TypeOK
<1>2. /\ Len(requests) \in Nat \ {0} /\ Len(requests') = Len(requests) - 1
      /\ \A i \in 1 .. Len(requests') : requests'[i] = requests[i + 1]
      /\ h = requests[1]
  BY Unqueued DEF TypeOK
<1>3. ASSUME NEW i \in 1 .. Len(requests')
      PROVE  Asks(requests[i])'
  <2>1. i + 1 \in 1 .. Len(requests) /\ 1 \in 1 .. Len(requests) /\ i + 1 # 1
    BY <1>2
  <2>2. PICK q \in Request : q = requests[i + 1]
    BY <1>1, <2>1
  <2>3. Asks(q) /\ ~ Alike(h, q)
    BY <1>2, <2>1, <2>2 DEF QueueInv
  <2>4. Asks(q)' /\ requests'[i] = q
    BY <1>2, <2>2, <2>3
  <2> QED BY <2>4 DEF Asks
<1>4. ASSUME NEW i \in 1 .. Len(requests'), NEW j \in 1 .. Len(requests'), i # j
      PROVE  ~ Alike(requests[i], requests[j])'
  <2>1. i + 1 \in 1 .. Len(requests) /\ j + 1 \in 1 .. Len(requests) /\ i + 1 # j + 1
    BY <1>2, <1>4
  <2>2. ~ Alike(requests[i + 1], requests[j + 1])
    BY <2>1 DEF QueueInv
  <2> QED BY <1>2, <2>2 DEF Alike
<1> QED BY <1>3, <1>4 DEF QueueInv
-----------------------------------------------------------------------------
(***************************************************************************)
(* The bodies.                                                             *)
(***************************************************************************)
LEMMA ReaderBodies ==
  ASSUME Inv, NEW a \in Arrival, Reader(a) \/ Receive(a), NEW b \in Arrival
  PROVE  BodyInv(b)'
<1>1. TypeOK /\ BodyInv(a) /\ BodyInv(b)
  BY DEF Inv
<1>2. UNCHANGED <<thread, file>>
  BY DEF Reader, AskBody, ReadOn, DropBody, Receive
<1>3. CASE b # a
  <2>1. body'[b] = body[b] /\ got'[b] = got[b] /\ chunk'[b] = chunk[b]
    BY <1>1, <1>3 DEF Reader, AskBody, ReadOn, DropBody, Receive, TypeOK
  <2> QED BY <1>1, <1>2, <2>1, BodyKept DEF Reading
<1>4. CASE b = a /\ (AskBody(a) \/ ReadOn(a))
  <2>1. UNCHANGED <<got, chunk>> /\ body[a] \in {"unread", "open"}
    BY <1>4 DEF AskBody, ReadOn
  <2>2. body'[a] \in {"failed", "asking"}
    BY <1>1, <1>4 DEF AskBody, ReadOn, TypeOK
  <2> QED BY <1>1, <1>2, <1>4, <2>1, <2>2 DEF BodyInv, Reading, ReaderGone, InPlace
<1>5. CASE b = a /\ DropBody(a)
  <2>1. got' = got /\ chunk'[a] = "none" /\ body'[a] = "dropped"
    BY <1>1, <1>5 DEF DropBody, TypeOK
  <2> QED BY <1>1, <1>2, <1>5, <2>1 DEF BodyInv, Reading, ReaderGone, InPlace
<1>6. CASE b = a /\ Receive(a)
  <2>1. body[a] = "asking" /\ chunk'[a] = "none" /\ got[a] \in Nat
    BY <1>1, <1>6 DEF Receive, TypeOK
  <2>2. \/ chunk[a] = "data" /\ body'[a] = "open" /\ got'[a] = got[a] + 1
        \/ chunk[a] = "end" /\ body'[a] = "ended" /\ got'[a] = got[a]
        \/ chunk[a] \in {"error", "none"} /\ body'[a] = "failed" /\ got'[a] = got[a]
    BY <1>1, <1>6, Received DEF TypeOK
  <2>3. (Reading(a)' = Reading(a)) /\ thread' = thread /\ file' = file
    BY <1>2 DEF Reading
  <2>4. CASE chunk[a] = "data" /\ body'[a] = "open" /\ got'[a] = got[a] + 1
    BY <1>1, <1>6, <2>1, <2>3, <2>4 DEF BodyInv, ReaderGone, InPlace
  <2>5. CASE chunk[a] # "data" /\ body'[a] \in {"ended", "failed"} /\ got'[a] = got[a]
    BY <1>1, <1>6, <2>1, <2>2, <2>3, <2>5 DEF BodyInv, ReaderGone
  <2> QED BY <2>2, <2>4, <2>5
<1> QED BY <1>3, <1>4, <1>5, <1>6 DEF Reader

LEMMA OtherBodies ==
  ASSUME Inv, NEW a \in Arrival, Teller(a) \/ ToldNothing(a) \/ Closer, NEW b \in Arrival
  PROVE  BodyInv(b)'
<1>1. UNCHANGED <<file, body, got, chunk, thread>>
  BY DEF Teller, GiveVerdict, LetGo, ToldNothing, Closer, Close, Finish, Finished, ReturnNext
<1>2. BodyInv(b) /\ (Reading(b)' => Reading(b))
  BY <1>1 DEF Inv, Reading
<1> QED BY <1>1, <1>2, BodyKept

\* The request the thread is about to answer asks what it says.
LEMMA HeadAsks ==
  ASSUME Inv, thread.pc = "recv", requests # <<>>
  PROVE  Asks(Head(requests)) /\ QueueInv /\ Head(requests) \in Request
<1>1. QueueInv /\ TypeOK
  BY DEF Inv, Ended
<1>2. 1 \in 1 .. Len(requests) /\ Head(requests) = requests[1] /\ requests[1] \in Request
  BY <1>1 DEF TypeOK
<1> QED BY <1>1, <1>2 DEF QueueInv

LEMMA ThreadBodies ==
  ASSUME Inv, Thread, NEW b \in Arrival
  PROVE  BodyInv(b)'
<1>1. TypeOK /\ BodyInv(b)
  BY DEF Inv
<1>2. UNCHANGED <<body, got>>
  BY DEF Thread, AnswerRead, ReadAt, SendChunk, CloseHandle, SendLast, AnswerTold, AnswerFinish, HangUp
<1>3. CASE AnswerRead
  <2>1. PICK a \in Arrival : a = Head(requests).of
    BY <1>1, <1>3, Asking DEF AnswerRead
  <2>2. Waits(a) /\ thread.pc = "recv"
    BY <1>3, <2>1, HeadAsks DEF AnswerRead, Asked, Asks
  <2>3. ~ ReaderGone(a) /\ file' = file
    BY <1>3, <2>2 DEF Waits, ReaderGone, AnswerRead
  <2>4. CASE b = a
    <3>1. \/ /\ thread' = [pc |-> "read", of |-> a, offset |-> 0, ended |-> "none"]
             /\ file[a] = "claimed" /\ chunk' = chunk
          \/ chunk'[a] = "error" /\ thread' = thread
      BY <1>1, <1>3, <2>1, <2>3 DEF AnswerRead, TypeOK
    <3>2. Chunks[a] \in Nat
      BY HarvestAssumption
    <3> QED BY <1>2, <2>2, <2>3, <2>4, <3>1, <3>2
            DEF BodyInv, Waits, Reading, ReadingState, ReaderGone, InPlace
  <2>5. CASE b # a
    <3>1. chunk'[b] = chunk[b] /\ ~ Reading(b)'
      BY <1>1, <1>3, <2>1, <2>2, <2>5 DEF AnswerRead, TypeOK, Reading, ReadingState
    <3> QED BY <1>1, <1>2, <3>1, BodyKept
  <2> QED BY <2>4, <2>5
<1>4. CASE ReadAt \/ SendChunk \/ CloseHandle \/ SendLast
  <2>1. PICK a \in Arrival : a = thread.of
    BY <1>1, <1>4, ThreadReads DEF ReadAt, SendChunk, CloseHandle, SendLast, ReadingState
  <2>2. CASE b # a
    <3>1. ~ Reading(b)'
      BY <1>4, <2>1, <2>2
         DEF ReadAt, SendChunk, CloseHandle, SendLast, ReadsOn, Reading, ReadingState, Idle
    <3>2. chunk'[b] = chunk[b]
      BY <1>1, <1>4, <2>1, <2>2 DEF ReadAt, SendChunk, CloseHandle, SendLast, TypeOK
    <3> QED BY <1>1, <1>2, <3>1, <3>2, BodyKept
  <2>3. CASE b = a
    <3>1. /\ Reading(b) /\ file' = file /\ got[b] \in Nat /\ Chunks[b] \in Nat
          /\ thread.offset \in Nat
      BY <1>1, <1>4, <2>1, <2>3, ThreadReads, HarvestAssumption
         DEF ReadAt, SendChunk, CloseHandle, SendLast, Reading, ReadingState, TypeOK
    <3>2. CASE ReadAt
      <4>1. /\ thread.pc = "read" /\ chunk' = chunk
            /\ \/ thread.offset < Chunks[b] /\ ReadsOn("send", thread.offset, "none")
               \/ ~ (thread.offset < Chunks[b]) /\ ReadsOn("close", thread.offset, "end")
               \/ ReadsOn("close", thread.offset, "error")
        BY <1>1, <2>1, <2>3, <3>1, <3>2 DEF ReadAt, BodyInv
      <4>2. CASE thread.offset < Chunks[b] /\ ReadsOn("send", thread.offset, "none")
        BY <1>1, <1>2, <3>1, <4>1, <4>2 DEF BodyInv, Reading, ReadingState, ReaderGone, InPlace, ReadsOn
      <4>3. CASE ~ (thread.offset < Chunks[b]) /\ ReadsOn("close", thread.offset, "end")
        BY <1>1, <1>2, <3>1, <4>1, <4>3 DEF BodyInv, Reading, ReadingState, ReaderGone, InPlace, ReadsOn
      <4>4. CASE ReadsOn("close", thread.offset, "error")
        BY <1>1, <1>2, <3>1, <4>1, <4>4 DEF BodyInv, Reading, ReadingState, ReaderGone, InPlace, ReadsOn
      <4> QED BY <4>1, <4>2, <4>3, <4>4
    <3>3. CASE SendChunk
      <4>1. CASE ReaderGone(b)
        <5>1. chunk' = chunk /\ ReadsOn("close", thread.offset, "none")
          BY <2>1, <2>3, <3>3, <4>1 DEF SendChunk
        <5> QED BY <1>1, <1>2, <3>1, <4>1, <5>1
                DEF BodyInv, Reading, ReadingState, ReaderGone, InPlace, ReadsOn
      <4>2. CASE ~ ReaderGone(b)
        <5>1. /\ chunk[b] = "none" /\ chunk'[b] = "data" /\ thread.pc = "send"
              /\ ReadsOn("read", thread.offset + 1, "none")
          BY <1>1, <2>1, <2>3, <3>3, <4>2 DEF SendChunk, TypeOK
        <5>2. body[b] # "unread"
          BY <1>1, <3>1 DEF BodyInv
        <5> QED BY <1>1, <1>2, <3>1, <4>2, <5>1, <5>2
                DEF BodyInv, Reading, ReadingState, ReaderGone, InPlace, ReadsOn
      <4> QED BY <4>1, <4>2
    <3>4. CASE CloseHandle
      <4>1. /\ chunk' = chunk /\ thread.pc = "close"
            /\ \/ ReadsOn("last", thread.offset, thread.ended)
               \/ thread' = Idle \/ thread' = [pc |-> "broken"]
        BY <3>4 DEF CloseHandle
      <4> QED BY <1>1, <1>2, <3>1, <4>1
              DEF BodyInv, Reading, ReadingState, ReaderGone, InPlace, ReadsOn, Idle
    <3>5. CASE SendLast
      <4>1. ~ Reading(b)'
        BY <3>5 DEF SendLast, Reading, ReadingState, Idle
      <4>2. CASE ReaderGone(b)
        BY <1>1, <1>2, <2>1, <2>3, <3>5, <4>1, <4>2, BodyKept DEF SendLast
      <4>3. CASE ~ ReaderGone(b)
        <5>1. chunk[b] = "none" /\ chunk'[b] = thread.ended
          BY <1>1, <2>1, <2>3, <3>5, <4>3 DEF SendLast, TypeOK
        <5> QED BY <1>1, <1>2, <3>1, <4>1, <4>3, <5>1 DEF BodyInv, ReaderGone, InPlace
      <4> QED BY <4>2, <4>3
    <3> QED BY <1>4, <3>2, <3>3, <3>4, <3>5
  <2> QED BY <2>2, <2>3
<1>5. CASE AnswerTold \/ AnswerFinish \/ HangUp
  <2>1. chunk' = chunk /\ ~ Reading(b)'
    <3>1. CASE AnswerTold
      BY <3>1 DEF AnswerTold, Asked, Reading, ReadingState
    <3>2. CASE AnswerFinish \/ HangUp
      BY <3>2 DEF AnswerFinish, HangUp, Reading, ReadingState
    <3> QED BY <1>5, <3>1, <3>2
  <2> QED BY <1>1, <1>2, <2>1, BodyKept
<1> QED BY <1>3, <1>4, <1>5 DEF Thread
-----------------------------------------------------------------------------
(***************************************************************************)
(* The verdicts.                                                           *)
(***************************************************************************)
LEMMA VerdictsNext ==
  ASSUME Inv, Next, NEW b \in Arrival
  PROVE  VerdictInv(b)'
<1>1. TypeOK /\ VerdictInv(b)
  BY DEF Inv
<1>2. ASSUME NEW a \in Arrival, Reader(a) \/ Receive(a)
      PROVE  VerdictInv(b)'
  BY <1>1, <1>2, VerdictKept DEF Reader, AskBody, ReadOn, DropBody, Receive
<1>3. ASSUME NEW a \in Arrival, NEW v \in Verdict, GiveVerdict(a, v)
      PROVE  VerdictInv(b)'
  <2>1. CASE a # b
    BY <1>1, <1>3, <2>1, VerdictKept DEF GiveVerdict, Tell, TypeOK
  <2>2. CASE a = b
    <3>1. /\ verdict[b] = "pending" /\ verdict'[b] = v /\ file' = file
          /\ settled'[b] \in {"telling", "error"}
      BY <1>1, <1>3, <2>2 DEF GiveVerdict, Tell, TypeOK
    <3> QED BY <1>1, <3>1 DEF VerdictInv, Verdict
  <2> QED BY <2>1, <2>2
<1>4. ASSUME NEW a \in Arrival, LetGo(a) \/ ToldNothing(a) \/ ReturnNext(a)
      PROVE  VerdictInv(b)'
  <2>1. CASE a # b
    BY <1>1, <1>4, <2>1, VerdictKept DEF LetGo, ToldNothing, ReturnNext, Tell, TypeOK
  <2>2. CASE a = b /\ LetGo(a)
    <3>1. verdict[b] = "pending" /\ verdict'[b] = "none" /\ UNCHANGED <<file, settled>>
      BY <1>1, <2>2 DEF LetGo, TypeOK
    <3> QED BY <1>1, <3>1 DEF VerdictInv
  <2>3. CASE a = b /\ (ToldNothing(a) \/ ReturnNext(a))
    <3>1. /\ UNCHANGED <<file, verdict>> /\ settled[b] \in {"telling", "no"}
          /\ settled'[b] \in {"telling", "error"}
          /\ settled[b] = "no" => verdict[b] = "none"
      BY <1>1, <2>3 DEF ToldNothing, ReturnNext, Tell, TypeOK
    <3> QED BY <1>1, <3>1 DEF VerdictInv
  <2> QED BY <1>4, <2>1, <2>2, <2>3
<1>5. CASE Close \/ Finish \/ Finished \/ UNCHANGED vars
  BY <1>1, <1>5, VerdictKept DEF Close, Finish, Finished, vars
<1>6. CASE AnswerTold
  <2>1. PICK a \in Arrival : a = Head(requests).of
    BY <1>1, <1>6, Asking DEF AnswerTold
  <2>2. settled[a] = "telling" /\ verdict[a] = Head(requests).verdict /\ verdict' = verdict
    BY <1>6, <2>1, HeadAsks DEF AnswerTold, Asked, Asks
  <2>3. CASE a # b
    BY <1>1, <1>6, <2>1, <2>2, <2>3, VerdictKept DEF AnswerTold, Done, TypeOK
  <2>4. CASE a = b
    <3>1. file'[b] = file[b] \/ file'[b] = IF verdict[b] = "Accepted" THEN "removed" ELSE "back"
      BY <1>1, <1>6, <2>1, <2>2, <2>4 DEF AnswerTold, Done, TypeOK
    <3>2. \/ settled'[b] = "told" /\ file'[b] # "claimed"
          \/ settled'[b] = "kept" /\ verdict[b] # "Accepted" /\ file'[b] = file[b]
          \/ settled'[b] = "error"
      BY <1>1, <1>6, <2>1, <2>2, <2>4 DEF AnswerTold, Done, TypeOK
    <3> QED BY <1>1, <2>2, <2>4, <3>1, <3>2 DEF VerdictInv
  <2> QED BY <2>3, <2>4
<1>7. CASE Thread /\ ~ AnswerTold
  BY <1>1, <1>7, VerdictKept
     DEF Thread, AnswerRead, ReadAt, SendChunk, CloseHandle, SendLast, AnswerFinish, HangUp
<1> QED BY <1>2, <1>3, <1>4, <1>5, <1>6, <1>7 DEF Next, Teller, Closer
-----------------------------------------------------------------------------
(***************************************************************************)
(* The queue.                                                              *)
(***************************************************************************)
LEMMA ReaderQueue ==
  ASSUME Inv, NEW a \in Arrival, Reader(a) \/ Receive(a), QueueInv
  PROVE  Ended' \/ QueueInv'
<1>1. TypeOK /\ BodyInv(a) /\ UNCHANGED <<thread, settled, verdict>>
  BY DEF Inv, Reader, AskBody, ReadOn, DropBody, Receive
<1>2. ASSUME NEW q \in Request, Asks(q), q.ask = "read" => q.of # a
      PROVE  Asks(q)'
  <2>1. q.ask = "read" => Waits(q.of)'
    <3>1. SUFFICES ASSUME q.ask = "read" PROVE Waits(q.of)'
      OBVIOUS
    <3>2. PICK b \in Arrival : b = q.of
      BY <3>1, Kinds
    <3>3. Waits(b) /\ b # a
      BY <1>2, <3>1, <3>2 DEF Asks
    <3>4. body'[b] = body[b] /\ got'[b] = got[b] /\ chunk'[b] = chunk[b]
      BY <1>1, <3>3 DEF Reader, AskBody, ReadOn, DropBody, Receive, TypeOK
    <3>5. Waits(b)'
      BY <1>1, <3>3, <3>4, WaitsKept DEF Reading
    <3> QED BY <3>2, <3>5
  <2> QED BY <1>1, <1>2, <2>1, AsksKept DEF AllSettled
<1>3. CASE AskBody(a) /\ ~ Ended
  <2>1. /\ requests' = Append(requests, ReadRequest(a)) /\ body[a] = "unread"
        /\ body'[a] = "asking" /\ UNCHANGED <<got, chunk>> /\ ReadRequest(a) \in Request
    BY <1>1, <1>3, Requested DEF AskBody, TypeOK
  <2>2. Waits(a)'
    BY <1>1, <2>1 DEF BodyInv, Waits, Reading
  <2>3. Asks(ReadRequest(a))'
    BY <2>2 DEF Asks, ReadRequest
  <2>4. ASSUME NEW q \in Request, Asks(q)
        PROVE  Asks(q)' /\ ~ Alike(q, ReadRequest(a))
    <3>1. q.ask = "read" => q.of # a
      BY <2>1, <2>4 DEF Asks, Waits
    <3> QED BY <1>2, <2>4, <3>1 DEF Alike, ReadRequest
  <2> QED BY <1>1, <2>1, <2>3, <2>4, QueueGrows
<1>4. CASE ReadOn(a) \/ DropBody(a)
  <2>1. requests' = requests /\ body[a] # "asking"
    BY <1>4 DEF ReadOn, DropBody
  <2>2. ASSUME NEW q \in Request, Asks(q)
        PROVE  Asks(q)'
    <3>1. q.ask = "read" => q.of # a
      BY <2>1, <2>2 DEF Asks, Waits
    <3> QED BY <1>2, <2>2, <3>1
  <2> QED BY <1>1, <2>1, <2>2, QueueStays
<1>5. CASE Receive(a) /\ ~ Ended
  <2>1. requests' = requests
    BY <1>5 DEF Receive
  <2>2. chunk[a] # "none" \/ \A i \in 1 .. Len(requests) : requests[i] # ReadRequest(a)
    BY <1>1, <1>5 DEF Receive, SenderGone, TypeOK
  <2>3. ASSUME NEW i \in 1 .. Len(requests), NEW q \in Request, q = requests[i], Asks(q)
        PROVE  Asks(q)'
    <3>1. q.ask = "read" /\ q.of = a => q = ReadRequest(a)
      BY DEF Request, ReadRequest, FinishRequest
    <3>2. q.ask = "read" => q.of # a
      BY <2>2, <2>3, <3>1 DEF Asks, Waits
    <3> QED BY <1>2, <2>3, <3>2
  <2> QED BY <1>1, <2>1, <2>3, QueueStays
<1>6. CASE Ended
  BY <1>1, <1>6 DEF Ended
<1> QED BY <1>3, <1>4, <1>5, <1>6 DEF Reader

\* A telling queues a request of an arrival that nobody has told yet.
LEMMA TellQueue ==
  ASSUME TypeOK, QueueInv, NEW a \in Arrival, NEW v \in Verdict \cup {"none"}, Tell(a, v),
         ~ Ended, settled[a] = "no", verdict'[a] = v,
         \A b \in Arrival \ {a} : verdict'[b] = verdict[b],
         UNCHANGED <<body, got, chunk, thread>>
  PROVE  QueueInv'
<1>1. /\ requests' = Append(requests, ToldRequest(a, v)) /\ ToldRequest(a, v) \in Request
      /\ settled'[a] = "telling"
      /\ \A b \in Arrival \ {a} : settled'[b] = settled[b]
  BY Requested DEF Tell, TypeOK
<1>2. Asks(ToldRequest(a, v))'
  BY <1>1 DEF Asks, ToldRequest
<1>3. ASSUME NEW q \in Request, Asks(q)
      PROVE  Asks(q)' /\ ~ Alike(q, ToldRequest(a, v))
  <2>1. q.ask = "told" => q.of \in Arrival /\ q.of # a
    BY <1>3, Kinds DEF Asks
  <2>2. q.ask # "finish"
    BY <1>3 DEF Asks, AllSettled, Settled
  <2>3. \A b \in Arrival : Waits(b) => Waits(b)'
    BY WaitsKept DEF Reading
  <2>4. q.ask = "read" => q.of \in Arrival
    BY Kinds
  <2>5. Asks(q)'
    BY <1>1, <1>3, <2>1, <2>2, <2>3, <2>4, AsksKept
  <2> QED BY <2>1, <2>5 DEF Alike, ToldRequest
<1> QED BY <1>1, <1>2, <1>3, QueueGrows

LEMMA TellerQueue ==
  ASSUME Inv, (\E a \in Arrival : Teller(a) \/ ToldNothing(a)) \/ Closer, QueueInv
  PROVE  Ended' \/ QueueInv'
<1>1. TypeOK /\ UNCHANGED <<body, got, chunk, thread>>
  BY DEF Inv, Teller, GiveVerdict, LetGo, ToldNothing, Closer, Close, Finish, Finished, ReturnNext
<1>2. CASE Ended
  BY <1>1, <1>2 DEF Ended
<1>3. ASSUME ~ Ended, NEW a \in Arrival, NEW v \in Verdict, GiveVerdict(a, v)
      PROVE  QueueInv'
  <2>1. Tell(a, v) /\ verdict[a] = "pending" /\ verdict' = [verdict EXCEPT ![a] = v]
    BY <1>3 DEF GiveVerdict
  <2>2. settled[a] = "no"
    BY <2>1 DEF Inv, VerdictInv
  <2>3. verdict'[a] = v /\ \A b \in Arrival \ {a} : verdict'[b] = verdict[b]
    BY <1>1, <2>1 DEF TypeOK
  <2> QED BY <1>1, <1>3, <2>1, <2>2, <2>3, TellQueue
<1>4. ASSUME ~ Ended, NEW b \in Arrival, ReturnNext(b)
      PROVE  QueueInv'
  <2>1. Tell(b, "none") /\ settled[b] = "no" /\ verdict[b] = "none" /\ verdict' = verdict
    BY <1>4 DEF ReturnNext
  <2> QED BY <1>1, <1>4, <2>1, TellQueue
<1>5. \A b \in Arrival : Waits(b) => Waits(b)'
  BY <1>1, WaitsKept DEF Reading
<1>6. ASSUME NEW a \in Arrival, LetGo(a)
      PROVE  QueueInv'
  <2>1. /\ verdict[a] = "pending" /\ UNCHANGED <<requests, settled>>
        /\ \A b \in Arrival \ {a} : verdict'[b] = verdict[b]
    BY <1>1, <1>6 DEF LetGo, TypeOK
  <2>2. settled[a] = "no"
    BY <2>1 DEF Inv, VerdictInv
  <2>3. ASSUME NEW q \in Request, Asks(q)
        PROVE  Asks(q)'
    <3>1. q.ask = "told" => q.of \in Arrival /\ q.of # a
      BY <2>2, <2>3, Kinds DEF Asks
    <3>2. q.ask = "read" => q.of \in Arrival
      BY Kinds
    <3> QED BY <1>5, <2>1, <2>3, <3>1, <3>2, AsksKept DEF AllSettled
  <2> QED BY <1>1, <2>1, <2>3, QueueStays
<1>7. ASSUME NEW q \in Request, Asks(q), UNCHANGED <<settled, verdict>>
      PROVE  Asks(q)'
  <2>1. q.ask = "read" => q.of \in Arrival
    BY Kinds
  <2> QED BY <1>5, <1>7, <2>1, AsksKept DEF AllSettled
<1>8. CASE Close \/ Finished
  <2>1. UNCHANGED <<settled, verdict, requests>>
    BY <1>8 DEF Close, Finished
  <2> QED BY <1>1, <1>7, <2>1, QueueStays
<1>9. CASE Finish /\ ~ Ended
  <2>1. /\ UNCHANGED <<settled, verdict>> /\ requests' = Append(requests, FinishRequest)
        /\ AllSettled /\ FinishRequest \in Request
    BY <1>9 DEF Finish, AllSettled, Request
  <2>2. Asks(FinishRequest)'
    BY <2>1 DEF Asks, AllSettled, FinishRequest
  <2>3. \A q \in Request : ~ Alike(q, FinishRequest)
    BY DEF Alike, FinishRequest
  <2> QED BY <1>1, <1>7, <2>1, <2>2, <2>3, QueueGrows
<1>10. CASE \E a \in Arrival : ToldNothing(a)
  BY <1>2, <1>10 DEF ToldNothing
<1> QED BY <1>2, <1>3, <1>4, <1>6, <1>8, <1>9, <1>10 DEF Teller, Closer

LEMMA ThreadQueue ==
  ASSUME Inv, Thread, QueueInv
  PROVE  Ended' \/ QueueInv'
<1>1. TypeOK /\ UNCHANGED <<body, got, verdict>>
  BY DEF Inv, Thread, AnswerRead, ReadAt, SendChunk, CloseHandle, SendLast, AnswerTold,
         AnswerFinish, HangUp
<1>2. ASSUME NEW q \in Request, Asks(q), q.ask = "told" => settled'[q.of] = settled[q.of],
             q.ask = "finish" => (AllSettled => AllSettled'),
             q.ask = "read" => chunk'[q.of] = chunk[q.of] /\ (Reading(q.of)' => Reading(q.of))
      PROVE  Asks(q)'
  <2>1. q.ask = "read" => q.of \in Arrival
    BY Kinds
  <2> QED BY <1>1, <1>2, <2>1, WaitsKept, AsksKept
<1>3. CASE Asked("read") \/ Asked("told") \/ Asked("finish")
  <2>1. PICK h \in Request : h = Head(requests)
    BY <1>3, HeadAsks DEF Asked
  <2>2. Asks(h) /\ requests # <<>> /\ thread.pc = "recv"
    BY <1>3, <2>1, HeadAsks DEF Asked
  <2>3. requests' = Tail(requests)
    BY <1>3, <2>2
       DEF Thread, AnswerRead, ReadAt, SendChunk, CloseHandle, SendLast, AnswerTold, AnswerFinish, HangUp
  <2>4. CASE AnswerRead
    <3>1. h.ask = "read" /\ h.of \in Arrival /\ settled' = settled
      BY <2>1, <2>4, Kinds DEF AnswerRead, Asked
    <3>2. ASSUME NEW b \in Arrival \ {h.of}
          PROVE  chunk'[b] = chunk[b] /\ ~ Reading(b)'
      <4>1. chunk'[b] = chunk[b]
        BY <1>1, <2>1, <2>4 DEF AnswerRead, TypeOK
      <4>2. thread'.pc = "recv" \/ thread'.of = h.of
        BY <2>1, <2>2, <2>4 DEF AnswerRead
      <4> QED BY <4>1, <4>2 DEF Reading, ReadingState
    <3>3. ASSUME NEW q \in Request, Asks(q), ~ Alike(h, q)
          PROVE  Asks(q)'
      <4>1. q.ask = "read" => q.of \in Arrival \ {h.of}
        BY <3>1, <3>3, Kinds DEF Alike
      <4> QED BY <1>2, <3>1, <3>2, <3>3, <4>1 DEF AllSettled
    <3> QED BY <1>1, <2>1, <2>2, <2>3, <3>3, QueueShrinks
  <2>5. CASE AnswerTold
    <3>1. /\ h.ask = "told" /\ h.of \in Arrival /\ UNCHANGED <<chunk, thread>>
          /\ settled'[h.of] \in Settled
          /\ \A b \in Arrival \ {h.of} : settled'[b] = settled[b]
      <4>1. h.ask = "told" /\ h.of \in Arrival /\ UNCHANGED <<chunk, thread>>
        BY <2>1, <2>5, Kinds DEF AnswerTold, Asked
      <4>2. \E over \in Settled : settled' = [settled EXCEPT ![h.of] = over]
        BY <2>1, <2>5 DEF AnswerTold, Settled
      <4> QED BY <1>1, <4>1, <4>2 DEF TypeOK
    <3>2. AllSettled => AllSettled'
      BY <3>1 DEF AllSettled
    <3>3. ASSUME NEW q \in Request, Asks(q), ~ Alike(h, q)
          PROVE  Asks(q)'
      <4>1. q.ask = "told" => q.of \in Arrival \ {h.of}
        BY <3>1, <3>3, Kinds DEF Alike
      <4> QED BY <1>2, <3>1, <3>2, <3>3, <4>1 DEF Reading
    <3> QED BY <1>1, <2>1, <2>2, <2>3, <3>3, QueueShrinks
  <2>6. CASE AnswerFinish
    <3>1. UNCHANGED <<chunk, settled>> /\ \A b : ~ Reading(b)'
      BY <2>6 DEF AnswerFinish, Reading, ReadingState
    <3>2. \A q \in Request : Asks(q) => Asks(q)'
      BY <1>2, <3>1 DEF AllSettled
    <3> QED BY <1>1, <2>1, <2>2, <2>3, <3>2, QueueShrinks
  <2> QED BY <2>2, <2>4, <2>5, <2>6
          DEF Thread, ReadAt, SendChunk, CloseHandle, SendLast, HangUp
<1>4. CASE ReadAt \/ SendChunk \/ CloseHandle \/ SendLast
  <2>1. PICK a \in Arrival : a = thread.of
    BY <1>1, <1>4, ThreadReads DEF ReadAt, SendChunk, CloseHandle, SendLast, ReadingState
  <2>2. Reading(a) /\ UNCHANGED <<requests, settled>>
    BY <1>4, <2>1 DEF ReadAt, SendChunk, CloseHandle, SendLast, Reading, ReadingState
  <2>3. ASSUME NEW b \in Arrival \ {a}
        PROVE  chunk'[b] = chunk[b] /\ ~ Reading(b)'
    <3>1. chunk'[b] = chunk[b]
      BY <1>1, <1>4, <2>1 DEF ReadAt, SendChunk, CloseHandle, SendLast, TypeOK
    <3>2. ~ Reading(b)'
      <4>1. CASE ReadAt \/ SendChunk
        <5>1. CASE ReadAt
          BY <2>1, <5>1 DEF ReadAt, ReadsOn, Reading
        <5>2. CASE SendChunk
          BY <2>1, <5>2 DEF SendChunk, ReadsOn, Reading
        <5> QED BY <4>1, <5>1, <5>2
      <4>2. CASE CloseHandle \/ SendLast
        <5>1. CASE CloseHandle
          BY <2>1, <5>1 DEF CloseHandle, ReadsOn, Reading, ReadingState, Idle
        <5>2. CASE SendLast
          BY <5>2 DEF SendLast, Reading, ReadingState, Idle
        <5> QED BY <4>2, <5>1, <5>2
      <4> QED BY <1>4, <4>1, <4>2
    <3> QED BY <3>1, <3>2
  <2>4. ASSUME NEW q \in Request, Asks(q)
        PROVE  Asks(q)'
    <3>1. q.ask = "read" => q.of \in Arrival \ {a}
      BY <2>2, <2>4, Kinds DEF Asks, Waits
    <3> QED BY <1>2, <2>2, <2>3, <2>4, <3>1 DEF AllSettled
  <2> QED BY <1>1, <2>2, <2>4, QueueStays
<1>5. CASE HangUp
  BY <1>5 DEF HangUp, Ended
<1> QED BY <1>3, <1>4, <1>5 DEF Thread, AnswerRead, AnswerTold, AnswerFinish
-----------------------------------------------------------------------------
(***************************************************************************)
(* The end.                                                                *)
(***************************************************************************)
LEMMA EndNext ==
  ASSUME Inv, Next
  PROVE  EndInv'
<1>1. TypeOK /\ EndInv
  BY DEF Inv
<1>2. AllSettled => AllSettled'
  <2>1. ASSUME AllSettled, NEW b \in Arrival
        PROVE  settled'[b] \in Settled
    <3>1. settled[b] \in Settled /\ \A a \in Arrival : verdict[a] # "pending"
      BY <2>1 DEF AllSettled, Inv, VerdictInv, Settled
    <3>2. ASSUME NEW a \in Arrival, Reader(a) \/ Receive(a) \/ Teller(a) \/ ToldNothing(a)
          PROVE  settled'[b] \in Settled
      BY <1>1, <3>1, <3>2
         DEF Reader, AskBody, ReadOn, DropBody, Receive, Teller, GiveVerdict, LetGo, ToldNothing, TypeOK, Settled
    <3>3. CASE Closer
      BY <2>1, <3>1, <3>3 DEF Closer, Close, Finish, Finished, ReturnNext, AllSettled, Settled
    <3>4. CASE AnswerTold
      BY <1>1, <3>1, <3>4 DEF AnswerTold, TypeOK, Settled
    <3>5. CASE (Thread /\ ~ AnswerTold) \/ UNCHANGED vars
      BY <3>1, <3>5
         DEF Thread, AnswerRead, ReadAt, SendChunk, CloseHandle, SendLast, AnswerFinish, HangUp, vars
    <3> QED BY <3>2, <3>3, <3>4, <3>5 DEF Next
  <2> QED BY <2>1 DEF AllSettled
<1>3. CASE Finish \/ Finished
  BY <1>1, <1>2, <1>3 DEF Finish, Finished, EndInv, AllSettled
<1>4. CASE AnswerFinish
  <2>1. AllSettled
    BY <1>4, HeadAsks DEF AnswerFinish, Asked, Asks
  <2> QED BY <1>2, <2>1 DEF EndInv
<1>5. CASE HangUp
  BY <1>1, <1>2, <1>5 DEF HangUp, EndInv
<1>6. ASSUME NEW a \in Arrival, Reader(a) \/ Receive(a) \/ Teller(a) \/ ToldNothing(a)
      PROVE  EndInv'
  BY <1>1, <1>2, <1>6
     DEF Reader, AskBody, ReadOn, DropBody, Receive, Teller, GiveVerdict, LetGo, ToldNothing, EndInv
<1>7. CASE Close \/ (\E a \in Arrival : ReturnNext(a)) \/ UNCHANGED vars
  BY <1>1, <1>2, <1>7 DEF Close, ReturnNext, EndInv, vars
<1>8. CASE AnswerRead \/ ReadAt \/ SendChunk \/ CloseHandle \/ SendLast \/ AnswerTold
  <2>1. closing' = closing /\ thread'.pc \notin {"hangup", "done"}
    <3>1. CASE AnswerRead \/ AnswerTold
      BY <3>1 DEF AnswerRead, AnswerTold, Asked
    <3>2. CASE ReadAt
      BY <3>2 DEF ReadAt, ReadsOn
    <3>4. CASE SendChunk
      BY <3>4 DEF SendChunk, ReadsOn
    <3>3. CASE CloseHandle \/ SendLast
      BY <3>3 DEF CloseHandle, SendLast, ReadsOn, Idle
    <3> QED BY <1>8, <3>1, <3>2, <3>3, <3>4
  <2> QED BY <1>1, <1>2, <2>1 DEF EndInv
<1> QED BY <1>3, <1>4, <1>5, <1>6, <1>7, <1>8 DEF Next, Closer, Thread
-----------------------------------------------------------------------------
LEMMA InitInv == Init => Inv
<1> SUFFICES ASSUME Init PROVE Inv
  OBVIOUS
<1> USE DEF Init, Idle
<1>1. TypeOK
  BY DEF TypeOK, Body, Threads, Request
<1>2. ASSUME NEW a \in Arrival
      PROVE  BodyInv(a) /\ VerdictInv(a)
  BY DEF BodyInv, VerdictInv, Reading, ReadingState
<1>3. QueueInv /\ EndInv
  BY DEF QueueInv, EndInv
<1> QED BY <1>1, <1>2, <1>3 DEF Inv

LEMMA NextInv == Inv /\ [Next]_vars => Inv'
<1> SUFFICES ASSUME Inv, [Next]_vars PROVE Inv'
  OBVIOUS
<1>1. CASE UNCHANGED vars
  <2>1. TypeOK' /\ EndInv'
    BY <1>1, NextTyped DEF Inv, vars, EndInv, AllSettled
  <2>2. ASSUME NEW b \in Arrival
        PROVE  BodyInv(b)' /\ VerdictInv(b)'
    <3>1. BodyInv(b) /\ VerdictInv(b) /\ (Reading(b)' => Reading(b))
      BY <1>1 DEF Inv, vars, Reading
    <3> QED BY <1>1, <3>1, BodyKept, VerdictKept DEF vars
  <2>3. Ended' = Ended
    BY <1>1 DEF vars, Ended
  <2>4. QueueInv => QueueInv'
    <3>1. \A q : Asks(q) => Asks(q)'
      BY <1>1 DEF vars, Asks, Waits, Reading, AllSettled
    <3> QED BY <1>1, <3>1, QueueStays DEF Inv, vars
  <2> QED BY <2>1, <2>2, <2>3, <2>4 DEF Inv
<1>2. CASE Next /\ ~ UNCHANGED vars
  <2>1. TypeOK' /\ EndInv'
    BY <1>2, NextTyped, EndNext DEF Inv
  <2>2. ASSUME NEW b \in Arrival
        PROVE  BodyInv(b)' /\ VerdictInv(b)'
    BY <1>2, <2>2, VerdictsNext, ReaderBodies, OtherBodies, ThreadBodies DEF Next
  <2>3. Ended' \/ QueueInv'
    <3>1. CASE QueueInv
      BY <1>2, <3>1, ReaderQueue, TellerQueue, ThreadQueue DEF Next
    <3>2. CASE Ended
      <4>1. ~ Thread
        BY <3>2 DEF Ended, Thread, AnswerRead, ReadAt, SendChunk, CloseHandle, SendLast, AnswerTold,
                    AnswerFinish, HangUp, Asked
      <4>2. thread' = thread
        BY <1>2, <4>1
           DEF Next, Reader, AskBody, ReadOn, DropBody, Receive, Teller, GiveVerdict, LetGo,
               ToldNothing, Closer, Close, Finish, Finished, ReturnNext
      <4> QED BY <3>2, <4>2 DEF Ended
    <3> QED BY <3>1, <3>2 DEF Inv
  <2> QED BY <2>1, <2>2, <2>3 DEF Inv
<1> QED BY <1>1, <1>2

LEMMA AlwaysInv == Spec => []Inv
BY InitInv, NextInv, PTL DEF Spec

\* For any arrivals: the harvest's state keeps its types.
THEOREM HarvestTypeCorrect == Spec => []TypeOK
<1>1. Inv => TypeOK
  BY DEF Inv
<1> QED BY <1>1, AlwaysInv, PTL

\* For any arrivals of any lengths: a body that ended was given the whole
\* file, whatever fails, breaks or is told beside it (`reading`).
THEOREM BodyIsWhole == Spec => []EndedIsWhole
<1>1. Inv => EndedIsWhole
  BY DEF Inv, BodyInv, EndedIsWhole
<1> QED BY <1>1, AlwaysInv, PTL

\* For any arrivals: what a telling came back with is what became of the file,
\* only an accepted file is removed, only another goes back or is held
\* (`told`, `answer`, Restore::Kept).
THEOREM TellingIsTrue == Spec => []ToldIsDone
<1>1. Inv => ToldIsDone
  BY DEF Inv, VerdictInv, ToldIsDone
<1> QED BY <1>1, AlwaysInv, PTL

\* For any arrivals: a harvest that ended on its finish told every file, and
\* one still claimed is held or its telling failed (together's closing).
THEOREM NothingStaysClaimed == Spec => []NoneLeftClaimed
<1>1. Inv => NoneLeftClaimed
  <2>1. SUFFICES ASSUME Inv, thread.pc \in {"hangup", "done"}, NEW a \in Arrival, file[a] = "claimed"
                 PROVE  settled[a] \in {"kept", "error"}
    BY DEF NoneLeftClaimed
  <2>2. settled[a] \in Settled
    BY <2>1 DEF Inv, EndInv, AllSettled
  <2> QED BY <2>1, <2>2 DEF Inv, VerdictInv, Settled
<1> QED BY <1>1, AlwaysInv, PTL
=============================================================================
