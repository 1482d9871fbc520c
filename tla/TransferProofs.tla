--------------------------- MODULE TransferProofs ----------------------------
(***************************************************************************)
(* What TLAPS proves of a transfer, for any messages, bodies, names and    *)
(* sizes of a piece.  A file is followed byte by byte: Part says that it   *)
(* is the first bytes of a message, how many, and how many of them are a   *)
(* hole.  PutInv is what is known of the sends, CutInv of what was claimed *)
(* as it was written, FileInv of what each has left in the directory, up   *)
(* to a request that is answered late; Sources says which message each     *)
(* file received is of.                                                    *)
(***************************************************************************)
EXTENDS Transfer, DirectoryProofs

\* The bytes are the first k of a message, the first `hole` of them zeros.
Part(bytes, m, hole, k) ==
  /\ bytes \in Bytes /\ hole \in Nat
  /\ Len(bytes) = k /\ hole <= k /\ k <= Len(Body[m])
  /\ \A i \in 1 .. k : bytes[i] = IF i <= hole THEN 0 ELSE Body[m][i]

Past(m, at) == at + Len(Piece(m, at))

\* A message's body is bytes, and it goes under a name of its own, not a claimed one.
LEMMA BodyType ==
  ASSUME NEW m \in Message
  PROVE  /\ Body[m] \in Bytes /\ Len(Body[m]) \in Nat
         /\ \A i \in 1 .. Len(Body[m]) : Body[m][i] \in 0 .. ByteMax
         /\ Target[m] \in Name /\ Target[m] # Claimed
<1>1. Body[m] \in Bytes /\ Target[m] \in Name /\ Target[m] # Claimed
  BY TransferAssumption
<1> QED BY <1>1, LenProperties, ElementOfSeq DEF Bytes

\* A piece is the bytes that follow an offset, up to the end of the body.
LEMMA PieceType ==
  ASSUME NEW m \in Message, NEW at \in Nat, at <= Len(Body[m])
  PROVE  /\ Piece(m, at) \in Bytes /\ Len(Piece(m, at)) \in Nat
         /\ Past(m, at) \in Nat /\ Past(m, at) <= Len(Body[m])
         /\ \A i \in 1 .. Len(Piece(m, at)) : Piece(m, at)[i] = Body[m][at + i]
<1> DEFINE to == MinOf(at + Chunk, Len(Body[m]))
<1>1. Len(Body[m]) \in Nat /\ \A i \in 1 .. Len(Body[m]) : Body[m][i] \in 0 .. ByteMax
  BY BodyType
<1>2. to \in Nat /\ at <= to /\ to <= Len(Body[m])
  BY <1>1, TransferAssumption DEF MinOf
<1>3. \A i \in at + 1 .. to : Body[m][i] \in 0 .. ByteMax
  BY <1>1, <1>2
<1> HIDE DEF to
<1>4. /\ SubSeq(Body[m], at + 1, to) \in Seq(0 .. ByteMax)
      /\ Len(SubSeq(Body[m], at + 1, to)) = IF at + 1 <= to THEN to - (at + 1) + 1 ELSE 0
      /\ \A i \in 1 .. to - (at + 1) + 1 : SubSeq(Body[m], at + 1, to)[i] = Body[m][at + 1 + i - 1]
  BY <1>2, <1>3, SubSeqProperties
<1>5. Piece(m, at) = SubSeq(Body[m], at + 1, to)
  BY DEF Piece, to
<1>6. Len(Piece(m, at)) = to - at
  BY <1>2, <1>4, <1>5
<1>7. ASSUME NEW i \in 1 .. Len(Piece(m, at)) PROVE Piece(m, at)[i] = Body[m][at + i]
  <2>1. i \in 1 .. to - (at + 1) + 1 /\ at + 1 + i - 1 = at + i
    BY <1>2, <1>6
  <2> QED BY <1>4, <1>5, <2>1
<1>8. at + Len(Piece(m, at)) = to /\ Len(Piece(m, at)) \in Nat
  BY <1>2, <1>6
<1>9. Piece(m, at) \in Bytes
  BY <1>4, <1>5 DEF Bytes
<1> QED BY <1>2, <1>7, <1>8, <1>9 DEF Past

\* on_write: the piece that follows the first bytes makes more of them.
LEMMA WriteGoesOn ==
  ASSUME NEW m \in Message, NEW at \in Nat, NEW bytes, NEW hole, Part(bytes, m, hole, at)
  PROVE  Part(Overwritten(bytes, at, Piece(m, at)), m, hole, Past(m, at))
<1> DEFINE piece == Piece(m, at)
           out == Overwritten(bytes, at, piece)
<1>1. /\ bytes \in Bytes /\ Len(bytes) = at /\ hole \in Nat /\ hole <= at /\ at <= Len(Body[m])
      /\ \A i \in 1 .. at : bytes[i] = IF i <= hole THEN 0 ELSE Body[m][i]
  BY DEF Part
<1>2. /\ piece \in Bytes /\ Len(piece) \in Nat
      /\ at + Len(piece) \in Nat /\ at + Len(piece) <= Len(Body[m])
      /\ \A i \in 1 .. Len(piece) : piece[i] = Body[m][at + i]
  BY <1>1, PieceType DEF Past
<1> HIDE DEF piece
<1>3. out \in Bytes /\ Len(out) = MaxOf(Len(bytes), at + Len(piece))
  BY <1>1, <1>2, OverwrittenType
<1>4. MaxOf(Len(bytes), at + Len(piece)) = at + Len(piece)
  BY <1>1, <1>2 DEF MaxOf
<1>5. ASSUME NEW i \in 1 .. at + Len(piece)
      PROVE  out[i] = IF i <= hole THEN 0 ELSE Body[m][i]
  <2>1. out[i] = IF at < i /\ i <= at + Len(piece) THEN piece[i - at]
                 ELSE IF i <= Len(bytes) THEN bytes[i] ELSE 0
    BY <1>4 DEF Overwritten
  <2> HIDE DEF out
  <2>2. CASE i <= at
    BY <1>1, <2>1, <2>2
  <2>3. CASE i > at
    <3>1. i - at \in 1 .. Len(piece) /\ at + (i - at) = i /\ ~ (i <= hole)
      BY <1>1, <1>2, <2>3
    <3> QED BY <1>2, <2>1, <2>3, <3>1
  <2> QED BY <1>2, <2>2, <2>3
<1>6. hole <= at + Len(piece)
  BY <1>1, <1>2
<1> QED BY <1>1, <1>2, <1>3, <1>4, <1>5, <1>6 DEF Part, Past, piece

\* on_write where the file is gone: the piece, after a hole of what was before it.
LEMMA WriteAnew ==
  ASSUME NEW m \in Message, NEW at \in Nat, at <= Len(Body[m])
  PROVE  Part(Overwritten(<<>>, at, Piece(m, at)), m, at, Past(m, at))
<1> DEFINE piece == Piece(m, at)
           out == Overwritten(<<>>, at, piece)
<1>1. <<>> \in Bytes /\ Len(<<>>) = 0
  BY EmptySeq DEF Bytes
<1>2. /\ piece \in Bytes /\ Len(piece) \in Nat
      /\ at + Len(piece) \in Nat /\ at + Len(piece) <= Len(Body[m])
      /\ \A i \in 1 .. Len(piece) : piece[i] = Body[m][at + i]
  BY PieceType DEF Past
<1> HIDE DEF piece
<1>3. out \in Bytes /\ Len(out) = MaxOf(Len(<<>>), at + Len(piece))
  BY <1>1, <1>2, OverwrittenType
<1>4. MaxOf(Len(<<>>), at + Len(piece)) = at + Len(piece)
  BY <1>1, <1>2 DEF MaxOf
<1>5. ASSUME NEW i \in 1 .. at + Len(piece)
      PROVE  out[i] = IF i <= at THEN 0 ELSE Body[m][i]
  <2>1. out[i] = IF at < i /\ i <= at + Len(piece) THEN piece[i - at]
                 ELSE IF i <= Len(<<>>) THEN <<>>[i] ELSE 0
    BY <1>4 DEF Overwritten
  <2> HIDE DEF out
  <2>2. CASE i <= at
    BY <1>1, <2>1, <2>2
  <2>3. CASE i > at
    <3>1. i - at \in 1 .. Len(piece) /\ at + (i - at) = i
      BY <1>2, <2>3
    <3> QED BY <1>2, <2>1, <2>3, <3>1
  <2> QED BY <1>2, <2>2, <2>3
<1>6. at <= at + Len(piece)
  BY <1>2
<1> QED BY <1>2, <1>3, <1>4, <1>5, <1>6 DEF Part, Past, piece

\* A file OPEN has emptied has none of them.
LEMMA PartNone ==
  ASSUME NEW m \in Message
  PROVE  Part(<<>>, m, 0, 0)
BY BodyType, EmptySeq DEF Part, Bytes

-----------------------------------------------------------------------------
(***************************************************************************)
(* The sends.                                                              *)
(***************************************************************************)
SendOK(m, p) ==
  /\ p \in Puts
  /\ p.reply = "none" <=> p.pc \in Idle
  /\ p.sent <= Len(Body[m])
  /\ p.pc = "open" => p.sent = 0
  /\ p.pc = "close" => p.sent = Len(Body[m])
  /\ p.reply = "refused" => p.pc = "write"

\* No other message is being sent under a message's name.
Alone(m) == \A o \in Message : o # m /\ Target[o] = Target[m] => put[o].pc \in Idle

PutInv ==
  /\ put \in [Message -> Puts]
  /\ \A m \in Message : SendOK(m, put[m])
  /\ \A m \in Message : put[m].pc \notin Idle => Alone(m)

LateInv == \A r \in late : r \in Request /\ r.at <= Len(Body[r.of])

\* One message's send moves, and may begin where it is alone.
LEMMA OneSendMoves ==
  ASSUME PutInv, NEW m \in Message, Alone(m), NEW p, SendOK(m, p), put' = [put EXCEPT ![m] = p]
  PROVE  PutInv' /\ Alone(m)'
<1>1. p \in Puts /\ put' \in [Message -> Puts]
  BY DEF SendOK, PutInv
<1>2. put'[m] = p /\ \A o \in Message : o # m => put'[o] = put[o]
  BY DEF PutInv
<1>3. \A o \in Message : SendOK(o, put'[o])
  BY <1>2 DEF PutInv
<1>4. Alone(m)'
  BY <1>2 DEF Alone
<1>5. ASSUME NEW o \in Message, put'[o].pc \notin Idle PROVE Alone(o)'
  <2>1. CASE o = m
    BY <1>4, <2>1
  <2>2. CASE o # m
    <3>1. Target[o] # Target[m] /\ Alone(o)
      BY <1>2, <1>5, <2>2 DEF Alone, PutInv
    <3> QED BY <1>2, <2>2, <3>1 DEF Alone
  <2> QED BY <2>1, <2>2
<1> QED BY <1>1, <1>3, <1>4, <1>5 DEF PutInv

\* What is asked is well asked.
LEMMA AskedType ==
  ASSUME PutInv, NEW m \in Message, put[m].reply \in {"asked", "ok"}
  PROVE  /\ Asked(m) \in Request /\ Asked(m).at <= Len(Body[m])
         /\ Asked(m).of = m /\ Asked(m).kind = put[m].pc /\ Asked(m).at = put[m].sent
<1>1. put[m] \in Puts /\ put[m].pc \notin Idle /\ put[m].sent <= Len(Body[m])
  BY DEF PutInv, SendOK
<1>2. put[m].pc \in Kind /\ put[m].sent \in Nat
  BY <1>1 DEF Puts, Idle
<1> QED BY <1>1, <1>2 DEF Asked, Request

\* A send that is alone under its name asks its next request.
LEMMA AsksOK ==
  ASSUME PutInv, NEW m \in Message, Alone(m), NEW kind \in Kind, NEW sent \in Nat, NEW fresh \in BOOLEAN,
         sent <= Len(Body[m]), kind = "open" => sent = 0, kind = "close" => sent = Len(Body[m]),
         Asks(m, kind, sent, fresh)
  PROVE  PutInv' /\ Alone(m)' /\ put' = [put EXCEPT ![m] = put'[m]]
         /\ put'[m] = [pc |-> kind, sent |-> sent, fresh |-> fresh, reply |-> "asked"]
<1> DEFINE p == [pc |-> kind, sent |-> sent, fresh |-> fresh, reply |-> "asked"]
<1>1. SendOK(m, p)
  BY DEF SendOK, Puts, Idle, Kind
<1>2. put' = [put EXCEPT ![m] = p] /\ put'[m] = p
  BY DEF Asks, PutInv
<1> QED BY <1>1, <1>2, OneSendMoves

\* A send ends, and its name is free.
LEMMA EndsOK ==
  ASSUME PutInv, NEW m \in Message, Alone(m), NEW pc \in {"done", "failed"}, Ends(m, pc)
  PROVE  PutInv' /\ Alone(m)' /\ put' = [put EXCEPT ![m] = put'[m]]
         /\ put'[m].pc = pc /\ put'[m].fresh = put[m].fresh
<1> DEFINE p == [pc |-> pc, sent |-> 0, fresh |-> put[m].fresh, reply |-> "none"]
<1>0. put[m].fresh \in BOOLEAN
  BY DEF PutInv, Puts
<1>1. SendOK(m, p)
  BY <1>0, BodyType DEF SendOK, Puts, Idle, Kind
<1>2. put' = [put EXCEPT ![m] = p] /\ put'[m] = p
  BY DEF Ends, PutInv
<1>3. p.pc = pc /\ p.fresh = put[m].fresh
  OBVIOUS
<1> HIDE DEF p
<1> QED BY <1>1, <1>2, <1>3, OneSendMoves

\* The answer to a request.
LEMMA AnswerSends ==
  ASSUME PutInv, NEW m \in Message, Answer(m)
  PROVE  /\ PutInv' /\ Alone(m) /\ put' = [put EXCEPT ![m] = put'[m]]
         /\ put'[m].pc = put[m].pc /\ put'[m].sent = put[m].sent /\ put'[m].fresh = put[m].fresh
         /\ put'[m].reply = IF Refused(Asked(m)) THEN "refused" ELSE "ok"
<1> DEFINE p == [put[m] EXCEPT !.reply = IF Refused(Asked(m)) THEN "refused" ELSE "ok"]
<1>1. put[m] \in Puts /\ put[m].reply = "asked" /\ SendOK(m, put[m])
  BY DEF PutInv, Answer
<1>2. put[m].pc \notin Idle /\ Alone(m)
  BY <1>1 DEF SendOK, PutInv
<1>3. Refused(Asked(m)) => put[m].pc = "write"
  BY DEF Refused, Asked
<1>4. /\ p \in Puts /\ p.pc = put[m].pc /\ p.sent = put[m].sent /\ p.fresh = put[m].fresh
      /\ p.reply = IF Refused(Asked(m)) THEN "refused" ELSE "ok"
  BY <1>1 DEF Puts
<1>5. put' = [put EXCEPT ![m] = p] /\ put'[m] = p
  BY <1>1 DEF Answer, PutInv
<1> HIDE DEF p
<1>6. SendOK(m, p)
  BY <1>1, <1>2, <1>3, <1>4 DEF SendOK
<1> QED BY <1>2, <1>4, <1>5, <1>6, OneSendMoves

\* A put that fails is begun again or given up.
LEMMA FailSends ==
  ASSUME PutInv, NEW m \in Message, put[m].reply # "none", Fail(m)
  PROVE  /\ PutInv' /\ Alone(m) /\ put' = [put EXCEPT ![m] = put'[m]]
         /\ \/ /\ put'[m].pc = "open" /\ put'[m].reply = "asked" /\ standing' = Elsewhere(Target[m])
               /\ put[m].fresh = FALSE /\ put'[m].fresh = TRUE
            \/ put'[m].pc = "failed" /\ standing' = standing /\ put'[m].fresh = put[m].fresh
<1>1. put[m].pc \notin Idle /\ Alone(m)
  BY DEF PutInv, SendOK
<1>2. CASE ~ put[m].fresh /\ Asks(m, "open", 0, TRUE) /\ standing' = Elsewhere(Target[m])
  <2>1. 0 <= Len(Body[m]) /\ "open" \in Kind
    BY BodyType DEF Kind
  <2>2. /\ PutInv' /\ put' = [put EXCEPT ![m] = put'[m]]
        /\ put'[m] = [pc |-> "open", sent |-> 0, fresh |-> TRUE, reply |-> "asked"]
    BY <1>1, <1>2, <2>1, AsksOK
  <2>3. put[m].fresh = FALSE
    BY <1>2 DEF PutInv, Puts
  <2> QED BY <1>1, <1>2, <2>2, <2>3
<1>3. CASE Ends(m, "failed") /\ standing' = standing
  BY <1>1, <1>3, EndsOK
<1> QED BY <1>2, <1>3 DEF Fail

\* The next request, or the end of a put.
LEMMA HearSends ==
  ASSUME PutInv, NEW m \in Message, Hear(m)
  PROVE  /\ PutInv' /\ Alone(m) /\ put' = [put EXCEPT ![m] = put'[m]]
         /\ \/ /\ put[m].pc = "open"
               /\ put'[m].pc = "write" /\ put'[m].reply = "asked" /\ put'[m].sent = 0
            \/ /\ put[m].pc = "write" /\ put'[m].pc \in {"write", "close"}
               /\ put'[m].reply = "asked" /\ put'[m].sent = Past(m, put[m].sent)
            \/ put[m].pc = "close" /\ put'[m].pc = "done"
         /\ put'[m].fresh = put[m].fresh
<1> DEFINE sent == Past(m, put[m].sent)
<1>1. /\ put[m] \in Puts /\ put[m].reply = "ok" /\ put[m].sent <= Len(Body[m])
      /\ put[m].pc \notin Idle /\ Alone(m)
  BY DEF PutInv, SendOK, Hear
<1>2. put[m].sent \in Nat /\ put[m].fresh \in BOOLEAN
  BY <1>1 DEF Puts
<1>3. sent \in Nat /\ sent <= Len(Body[m]) /\ Len(Body[m]) \in Nat
  BY <1>1, <1>2, PieceType, BodyType
<1>4. "write" \in Kind /\ "close" \in Kind
  BY DEF Kind
<1> HIDE DEF sent
<1>5. CASE put[m].pc = "open" /\ Asks(m, "write", 0, put[m].fresh)
  <2>1. /\ PutInv' /\ put' = [put EXCEPT ![m] = put'[m]]
        /\ put'[m] = [pc |-> "write", sent |-> 0, fresh |-> put[m].fresh, reply |-> "asked"]
    BY <1>1, <1>2, <1>3, <1>4, <1>5, AsksOK
  <2> QED BY <1>1, <1>5, <2>1
<1>6. CASE /\ put[m].pc = "write"
           /\ Asks(m, IF More(m, sent) THEN "write" ELSE "close", sent, put[m].fresh)
  <2>1. CASE More(m, sent)
    <3>1. /\ PutInv' /\ put' = [put EXCEPT ![m] = put'[m]]
          /\ put'[m] = [pc |-> "write", sent |-> sent, fresh |-> put[m].fresh, reply |-> "asked"]
      BY <1>1, <1>2, <1>3, <1>4, <1>6, <2>1, AsksOK
    <3> QED BY <1>1, <1>6, <3>1 DEF sent
  <2>2. CASE ~ More(m, sent)
    <3>1. sent = Len(Body[m])
      BY <1>3, <2>2 DEF More
    <3>2. /\ PutInv' /\ put' = [put EXCEPT ![m] = put'[m]]
          /\ put'[m] = [pc |-> "close", sent |-> sent, fresh |-> put[m].fresh, reply |-> "asked"]
      BY <1>1, <1>2, <1>3, <1>4, <1>6, <2>2, <3>1, AsksOK
    <3> QED BY <1>1, <1>6, <3>2 DEF sent
  <2> QED BY <2>1, <2>2
<1>7. CASE put[m].pc = "close" /\ Ends(m, "done")
  BY <1>1, <1>7, EndsOK
<1> QED BY <1>5, <1>6, <1>7 DEF Hear, Past, sent

\* send_from begins with the OPEN.
LEMMA SendSends ==
  ASSUME PutInv, NEW m \in Message, Send(m)
  PROVE  /\ PutInv' /\ Alone(m) /\ put' = [put EXCEPT ![m] = put'[m]]
         /\ put'[m].pc = "open" /\ put'[m].reply = "asked"
<1>1. Alone(m)
  BY DEF Send, Alone
<1>2. PICK fresh \in BOOLEAN : Asks(m, "open", 0, fresh)
  BY DEF Send
<1>3. 0 <= Len(Body[m]) /\ "open" \in Kind
  BY BodyType DEF Kind
<1>4. /\ PutInv' /\ put' = [put EXCEPT ![m] = put'[m]]
      /\ put'[m] = [pc |-> "open", sent |-> 0, fresh |-> fresh, reply |-> "asked"]
  BY <1>1, <1>2, <1>3, AsksOK
<1> QED BY <1>1, <1>4

\* What is given up was well asked, and may be answered yet.
LEMMA GiveUpLate ==
  ASSUME PutInv, LateInv, NEW m \in Message, GiveUp(m)
  PROVE  LateInv'
<1>1. Asked(m) \in Request /\ Asked(m).at <= Len(Body[Asked(m).of])
  BY AskedType DEF GiveUp
<1> QED BY <1>1 DEF GiveUp, LateInv

\* What a request does to the files.
LEMMA DoesFiles ==
  ASSUME DirTypeOK, NEW r \in Request, r.at <= Len(Body[r.of]), Does(r)
  PROVE  /\ DirTypeOK'
         /\ \/ r.kind = "open" /\ files' = Insert(files, Target[r.of], <<>>)
            \/ /\ r.kind = "write" /\ ~ Refused(r)
               /\ LET held == IF Target[r.of] \in DOMAIN files THEN files[Target[r.of]] ELSE <<>>
                  IN  files' = Insert(files, Target[r.of], Overwritten(held, r.at, Piece(r.of, r.at)))
            \/ (r.kind = "close" \/ Refused(r)) /\ files' = files
<1>1. r.of \in Message /\ r.at \in Nat /\ Target[r.of] \in Name /\ 0 \in Time
  BY TransferAssumption, DirectoryAssumption DEF Request, Time
<1>2. Piece(r.of, r.at) \in Bytes /\ Len(Piece(r.of, r.at)) \in Nat
  BY <1>1, PieceType
<1>3. CASE r.kind = "open" /\ OpenForWriting(Target[r.of], {"TRUNC"}, 0)
  <2>1. DirTypeOK'
    BY <1>1, <1>3, OpenType
  <2> QED BY <1>3, <2>1 DEF OpenForWriting
<1>4. CASE r.kind = "write" /\ WriteTo(Target[r.of], r.at, Piece(r.of, r.at), 0)
  <2>1. DirTypeOK'
    BY <1>1, <1>2, <1>4, WriteType
  <2>2. ~ Refused(r)
    BY <1>1, <1>2, <1>4, DirectoryAssumption DEF Refused, WriteTo, WriteEnd, MinOf
  <2> QED BY <1>4, <2>1, <2>2 DEF WriteTo
<1>5. CASE (r.kind = "close" \/ Refused(r)) /\ UNCHANGED dirVars
  BY <1>5 DEF dirVars, DirTypeOK
<1> QED BY <1>3, <1>4, <1>5 DEF Does

-----------------------------------------------------------------------------
(***************************************************************************)
(* Which attempts may have been cut.                                       *)
(***************************************************************************)
\* The attempt under way has a file, or had; the one before it was on a kept
\* connection.
MayBeCut(p, fresh) ==
  /\ p.pc # "idle"
  /\ IF p.fresh = fresh THEN ~ (p.pc = "open" /\ p.reply = "asked") ELSE fresh = FALSE

CutInv ==
  \A m \in Message, f \in BOOLEAN : <<m, f>> \in DOMAIN cut => MayBeCut(put[m], f)

CutType == IsMap(cut, Message \X BOOLEAN, Nat)

\* What is known of an attempt's cut.
LEMMA TakenType ==
  ASSUME CutType
  PROVE  \A m : /\ Taken(m) \in Nat
                /\ Attempt(m) \notin DOMAIN cut => Taken(m) = 0
                /\ Attempt(m) \in DOMAIN cut => m \in Cut
BY DEF CutType, IsMap, Taken, Cut, Attempt

\* An attempt that goes on is cut as it was.
LEMMA SameAttempt ==
  ASSUME cut' = cut, NEW m, put'[m].fresh = put[m].fresh
  PROVE  Attempt(m)' = Attempt(m) /\ Taken(m)' = Taken(m)
BY DEF Taken, Attempt

\* One message's send moves.
LEMMA CutStays ==
  ASSUME PutInv, PutInv', CutInv, NEW m \in Message, cut' = cut, put' = [put EXCEPT ![m] = put'[m]],
         \/ put'[m].fresh = put[m].fresh /\ put[m].pc # "idle" /\ put'[m].pc # "idle"
            /\ ~ (put'[m].pc = "open" /\ put'[m].reply = "asked")
         \/ put'[m].pc = "open" /\ put'[m].reply = "asked"
            /\ (put[m].pc = "idle" \/ (put[m].fresh = FALSE /\ put'[m].fresh = TRUE))
  PROVE  CutInv'
<1>1. \A o \in Message : o # m => put'[o] = put[o]
  BY DEF PutInv
<1>2. put[m].fresh \in BOOLEAN /\ put'[m].fresh \in BOOLEAN
  BY DEF PutInv, Puts
<1>3. ASSUME NEW o \in Message, NEW f \in BOOLEAN, <<o, f>> \in DOMAIN cut PROVE MayBeCut(put'[o], f)
  <2>1. MayBeCut(put[o], f)
    BY <1>3 DEF CutInv
  <2>2. CASE o # m
    BY <1>1, <2>1, <2>2
  <2>3. CASE o = m
    BY <1>2, <2>1, <2>3 DEF MayBeCut
  <2> QED BY <2>2, <2>3
<1> QED BY <1>3 DEF CutInv

\* What a claim cuts: the attempt that has the file open, or none.
LEMMA TakeCuts ==
  ASSUME CutType, CutInv, PutInv, DirTypeOK, NEW n \in Name \ {Claimed}, Take(n)
  PROVE  /\ CutType' /\ CutInv'
         /\ \A m \in Message : Target[m] # n \/ ~ Unclosed(put[m]) =>
              Attempt(m)' = Attempt(m) /\ Taken(m)' = Taken(m)
              /\ (Attempt(m) \in DOMAIN cut <=> Attempt(m)' \in DOMAIN cut')
         /\ \A m \in Message : Target[m] = n /\ Unclosed(put[m]) =>
              Attempt(m)' \in DOMAIN cut' /\ Taken(m)' = Len(files[n])
         /\ DOMAIN cut \subseteq DOMAIN cut'
<1>1. /\ put' = put /\ n \in DOMAIN files
      /\ cut' = [a \in DOMAIN cut \cup Writers(n) |->
                   IF a \in Writers(n) THEN Len(files[n]) ELSE cut[a]]
  BY DEF Take, RenameFile, CanRename
<1>2. files[n] \in Bytes
  BY <1>1 DEF DirTypeOK, IsMap
<1>3. Len(files[n]) \in Nat
  BY <1>2, LenProperties DEF Bytes
<1>4. ASSUME NEW a \in Writers(n)
      PROVE  \E m \in Message : a = Attempt(m) /\ Target[m] = n /\ Unclosed(put[m])
  BY <1>4 DEF Writers
<1>5. \A m \in Message : Attempt(m) \in Message \X BOOLEAN
  BY DEF PutInv, Puts, Attempt
<1>6. Writers(n) \subseteq Message \X BOOLEAN
  BY <1>4, <1>5
<1>7. /\ DOMAIN cut' = DOMAIN cut \cup Writers(n)
      /\ \A a \in DOMAIN cut' : cut'[a] = IF a \in Writers(n) THEN Len(files[n]) ELSE cut[a]
  BY <1>1
<1>8. CutType'
  <2>1. \A a \in DOMAIN cut' : cut'[a] \in Nat
    BY <1>3, <1>7 DEF CutType, IsMap
  <2>2. cut' = [a \in DOMAIN cut' |-> cut'[a]]
    BY <1>1
  <2> QED BY <1>6, <1>7, <2>1, <2>2 DEF CutType, IsMap
<1>9. CutInv'
  <2>1. ASSUME NEW m \in Message, NEW f \in BOOLEAN, <<m, f>> \in DOMAIN cut' PROVE MayBeCut(put[m], f)
    <3>1. CASE <<m, f>> \in DOMAIN cut
      BY <3>1 DEF CutInv
    <3>2. CASE <<m, f>> \in Writers(n)
      <4>1. PICK o \in Message : <<m, f>> = <<o, put[o].fresh>> /\ Unclosed(put[o])
        BY <1>4, <3>2 DEF Attempt
      <4>2. o = m /\ put[m].fresh = f
        BY <4>1
      <4> QED BY <4>1, <4>2 DEF MayBeCut, Unclosed
    <3> QED BY <1>7, <2>1, <3>1, <3>2
  <2> QED BY <1>1, <2>1 DEF CutInv
<1>10. ASSUME NEW m \in Message, Target[m] # n \/ ~ Unclosed(put[m])
       PROVE  Attempt(m)' = Attempt(m) /\ Taken(m)' = Taken(m)
              /\ (Attempt(m) \in DOMAIN cut <=> Attempt(m)' \in DOMAIN cut')
  <2>1. Attempt(m) \notin Writers(n)
    <3>1. ASSUME NEW o \in Message, Attempt(m) = Attempt(o) PROVE o = m
      BY <3>1 DEF Attempt
    <3> QED BY <1>4, <1>10, <3>1
  <2>2. Attempt(m)' = Attempt(m)
    BY <1>1 DEF Attempt
  <2> QED BY <1>7, <2>1, <2>2 DEF Taken
<1>11. ASSUME NEW m \in Message, Target[m] = n, Unclosed(put[m])
       PROVE  Attempt(m)' \in DOMAIN cut' /\ Taken(m)' = Len(files[n])
  <2>1. Attempt(m) \in Writers(n)
    BY <1>11 DEF Writers
  <2>2. Attempt(m)' = Attempt(m)
    BY <1>1 DEF Attempt
  <2> QED BY <1>7, <2>1, <2>2 DEF Taken
<1> QED BY <1>7, <1>8, <1>9, <1>10, <1>11

-----------------------------------------------------------------------------
(***************************************************************************)
(* What the sends have left in the directory.                              *)
(***************************************************************************)
\* How much of the message a send that has its file open has written.
LeftBy(m, p) == IF p.pc = "open" THEN 0
                ELSE IF p.pc = "write" /\ p.reply = "ok" THEN Past(m, p.sent) ELSE p.sent

\* The first k bytes of a message are in its file, or claimed.
HasFile(m, k) ==
  IF Target[m] \in DOMAIN files THEN Part(files[Target[m]], m, Taken(m), k)
  ELSE Attempt(m) \in DOMAIN cut /\ Taken(m) = k

Put(p) == p.pc = "close" /\ p.reply = "ok"

FileInv ==
  /\ \A m \in Message : Unclosed(put[m]) => HasFile(m, LeftBy(m, put[m]))
  /\ \A m \in standing : /\ HasFile(m, Len(Body[m]))
                         /\ put[m].pc \in Idle \/ Put(put[m])
                         /\ Alone(m)

\* Files under other names than n are what they were.
OnlyAt(n) ==
  \A k \in Name : k # n =>
    /\ k \in DOMAIN files' <=> k \in DOMAIN files
    /\ k \in DOMAIN files => files'[k] = files[k]

\* What is left of a message of another name stays.
LEMMA HasFileStays ==
  ASSUME NEW n, OnlyAt(n), NEW o \in Message, Target[o] # n, cut' = cut,
         put'[o].fresh = put[o].fresh, NEW k, HasFile(o, k)
  PROVE  HasFile(o, k)'
<1>1. Target[o] \in Name
  BY BodyType
<1>2. /\ Target[o] \in DOMAIN files' <=> Target[o] \in DOMAIN files
      /\ Target[o] \in DOMAIN files => files'[Target[o]] = files[Target[o]]
  BY <1>1 DEF OnlyAt
<1>3. Attempt(o)' = Attempt(o) /\ Taken(o)' = Taken(o)
  BY SameAttempt
<1> QED BY <1>2, <1>3 DEF HasFile

\* One message's send moves, and touches no file but its own.
LEMMA OneFileMoves ==
  ASSUME PutInv, FileInv, NEW m \in Message, Alone(m), cut' = cut,
         put' = [put EXCEPT ![m] = put'[m]], OnlyAt(Target[m]),
         standing \subseteq Message, standing' \subseteq standing \cup {m},
         Unclosed(put'[m]) => HasFile(m, LeftBy(m, put[m]))',
         \A o \in standing' : Target[o] = Target[m] =>
           HasFile(o, Len(Body[o]))' /\ (put'[m].pc \in Idle \/ (o = m /\ Put(put'[m])))
  PROVE  FileInv'
<1>1. \A o \in Message : o # m => put'[o] = put[o]
  BY DEF PutInv
<1>2. ASSUME NEW o \in Message, Unclosed(put'[o]) PROVE HasFile(o, LeftBy(o, put[o]))'
  <2>1. CASE o = m
    BY <1>2, <2>1
  <2>2. CASE o # m
    <3>1. Unclosed(put[o]) /\ put'[o] = put[o]
      BY <1>1, <1>2, <2>2
    <3>2. Target[o] # Target[m]
      BY <2>2, <3>1 DEF Alone, Unclosed, Idle
    <3>3. HasFile(o, LeftBy(o, put[o]))
      BY <3>1 DEF FileInv
    <3>4. PICK k : k = LeftBy(o, put[o])
      OBVIOUS
    <3>5. LeftBy(o, put[o])' = k
      BY <3>1, <3>4 DEF LeftBy
    <3>6. HasFile(o, k)'
      BY <3>1, <3>2, <3>3, <3>4, HasFileStays
    <3> QED BY <3>5, <3>6
  <2> QED BY <2>1, <2>2
<1>3. ASSUME NEW o \in standing'
      PROVE  /\ HasFile(o, Len(Body[o]))'
             /\ put'[o].pc \in Idle \/ Put(put'[o])
             /\ Alone(o)'
  <2>0. o \in Message
    OBVIOUS
  <2>1. CASE Target[o] = Target[m]
    <3>1. HasFile(o, Len(Body[o]))' /\ (put'[m].pc \in Idle \/ (o = m /\ Put(put'[m])))
      BY <1>3, <2>1
    <3>2. \A q \in Message : q # m /\ Target[q] = Target[m] => put'[q].pc \in Idle
      BY <1>1 DEF Alone
    <3> QED BY <2>0, <2>1, <3>1, <3>2 DEF Alone
  <2>2. CASE Target[o] # Target[m]
    <3>1. /\ HasFile(o, Len(Body[o])) /\ Alone(o) /\ put'[o] = put[o]
          /\ put[o].pc \in Idle \/ Put(put[o])
      BY <1>1, <2>0, <2>2 DEF FileInv
    <3>2. HasFile(o, Len(Body[o]))'
      BY <2>0, <2>2, <3>1, HasFileStays
    <3>3. Alone(o)'
      BY <1>1, <2>2, <3>1 DEF Alone
    <3> QED BY <3>1, <3>2, <3>3
  <2> QED BY <2>1, <2>2
<1> QED BY <1>2, <1>3 DEF FileInv

\* Insert and its neighbours: the other names are left alone.
LEMMA InsertOnlyAt ==
  ASSUME DirTypeOK, NEW n \in Name, NEW bytes \in Bytes, files' = Insert(files, n, bytes)
  PROVE  OnlyAt(n) /\ n \in DOMAIN files' /\ files'[n] = bytes
<1>1. IsMap(files, Name, Bytes)
  BY DEF DirTypeOK
<1> DEFINE out == Insert(files, n, bytes)
<1>2. /\ DOMAIN out = DOMAIN files \cup {n} /\ out[n] = bytes
      /\ \A k \in DOMAIN files : k # n => out[k] = files[k]
  BY DEF Insert
<1>3. files' = out
  OBVIOUS
<1> HIDE DEF out
<1> QED BY <1>2, <1>3 DEF OnlyAt

\* A request touches the file it names and no other.
LEMMA DoesOnlyAt ==
  ASSUME DirTypeOK, NEW r \in Request, r.at <= Len(Body[r.of]), Does(r)
  PROVE  OnlyAt(Target[r.of])
<1>1. \/ \E bytes : files' = Insert(files, Target[r.of], bytes)
      \/ files' = files
  BY DoesFiles
<1>2. CASE files' = files
  BY <1>2 DEF OnlyAt
<1>3. ASSUME NEW bytes, files' = Insert(files, Target[r.of], bytes) PROVE OnlyAt(Target[r.of])
  BY <1>3 DEF OnlyAt, Insert
<1> QED BY <1>1, <1>2, <1>3

\* The answer to a send touches the file of its name.
LEMMA AnswerOnlyAt ==
  ASSUME DirTypeOK, PutInv, NEW m \in Message, Answer(m)
  PROVE  OnlyAt(Target[m])
<1>1. Asked(m) \in Request /\ Asked(m).at <= Len(Body[Asked(m).of]) /\ Does(Asked(m)) /\ Asked(m).of = m
  BY AskedType DEF Answer
<1> QED BY <1>1, DoesOnlyAt

\* The answer to a send's request leaves in its file what the send then
\* counts on.
LEMMA AnswerFiles ==
  ASSUME DirTypeOK, PutInv, CutType, CutInv, FileInv, standing \subseteq Message, NEW m \in Message,
         Answer(m)
  PROVE  FileInv'
<1>1. /\ PutInv' /\ Alone(m) /\ put' = [put EXCEPT ![m] = put'[m]]
      /\ put'[m].pc = put[m].pc /\ put'[m].sent = put[m].sent /\ put'[m].fresh = put[m].fresh
      /\ put'[m].reply = IF Refused(Asked(m)) THEN "refused" ELSE "ok"
  BY AnswerSends
<1>2. /\ put[m] \in Puts /\ put[m].reply = "asked" /\ put[m].pc \notin Idle
      /\ put[m].sent \in Nat /\ put[m].sent <= Len(Body[m])
      /\ put[m].pc = "close" => put[m].sent = Len(Body[m])
  BY DEF PutInv, SendOK, Puts, Answer
<1>3. /\ Asked(m) \in Request /\ Asked(m).at <= Len(Body[m])
      /\ Asked(m).of = m /\ Asked(m).kind = put[m].pc /\ Asked(m).at = put[m].sent
  BY <1>2, AskedType
<1>4. \/ put[m].pc = "open" /\ files' = Insert(files, Target[m], <<>>)
      \/ /\ put[m].pc = "write" /\ ~ Refused(Asked(m))
         /\ LET held == IF Target[m] \in DOMAIN files THEN files[Target[m]] ELSE <<>>
            IN  files' = Insert(files, Target[m], Overwritten(held, put[m].sent, Piece(m, put[m].sent)))
      \/ (put[m].pc = "close" \/ Refused(Asked(m))) /\ files' = files
  BY <1>3, DoesFiles DEF Answer
<1>5. Refused(Asked(m)) => put[m].pc = "write"
  BY <1>3 DEF Refused
<1>6. cut' = cut
  BY DEF Answer
<1>7. Target[m] \in Name /\ Len(Body[m]) \in Nat
  BY BodyType
<1>8. \A o \in standing : Target[o] = Target[m] => o = m /\ put[m].pc = "close" /\ put[m].reply = "ok"
  BY <1>2 DEF FileInv, Put, Alone
<1>9. \A o \in standing : Target[o] # Target[m]
  BY <1>2, <1>8
<1>10. Attempt(m)' = Attempt(m) /\ Taken(m)' = Taken(m)
  BY <1>1, <1>6, SameAttempt
<1>11. CASE put[m].pc = "open" /\ files' = Insert(files, Target[m], <<>>)
  <2>1. <<>> \in Bytes
    BY DEF Bytes
  <2>2. OnlyAt(Target[m]) /\ Target[m] \in DOMAIN files' /\ files'[Target[m]] = <<>>
    BY <1>7, <1>11, <2>1, InsertOnlyAt
  <2>3. Unclosed(put'[m]) /\ LeftBy(m, put[m])' = 0
    BY <1>1, <1>5, <1>11 DEF Unclosed, LeftBy
  <2>4. Taken(m) = 0
    <3>1. Attempt(m) \notin DOMAIN cut
      BY <1>2, <1>11 DEF CutInv, MayBeCut, Attempt, Puts
    <3> QED BY <3>1 DEF Taken
  <2>5. HasFile(m, LeftBy(m, put[m]))'
    BY <1>10, <2>2, <2>3, <2>4, PartNone DEF HasFile
  <2>6. standing' = standing
    BY <1>11 DEF Answer
  <2> QED BY <1>1, <1>6, <1>9, <2>2, <2>3, <2>5, <2>6, OneFileMoves
<1>12. CASE /\ put[m].pc = "write" /\ ~ Refused(Asked(m))
            /\ LET held == IF Target[m] \in DOMAIN files THEN files[Target[m]] ELSE <<>>
               IN  files' = Insert(files, Target[m], Overwritten(held, put[m].sent, Piece(m, put[m].sent)))
  <2> DEFINE held == IF Target[m] \in DOMAIN files THEN files[Target[m]] ELSE <<>>
             out == Overwritten(held, put[m].sent, Piece(m, put[m].sent))
  <2>1. HasFile(m, put[m].sent)
    BY <1>2, <1>12 DEF FileInv, Unclosed, LeftBy
  <2>2. Part(out, m, Taken(m), Past(m, put[m].sent))
    <3>1. CASE Target[m] \in DOMAIN files
      <4>1. Part(files[Target[m]], m, Taken(m), put[m].sent) /\ held = files[Target[m]]
        BY <2>1, <3>1 DEF HasFile
      <4> QED BY <1>2, <4>1, WriteGoesOn
    <3>2. CASE Target[m] \notin DOMAIN files
      <4>1. Taken(m) = put[m].sent /\ held = <<>>
        BY <2>1, <3>2 DEF HasFile
      <4> QED BY <1>2, <4>1, WriteAnew
    <3> QED BY <3>1, <3>2
  <2>3. files' = Insert(files, Target[m], out)
    BY <1>12
  <2>4. out \in Bytes
    BY <2>2 DEF Part
  <2> HIDE DEF out
  <2>5. OnlyAt(Target[m]) /\ Target[m] \in DOMAIN files' /\ files'[Target[m]] = out
    BY <1>7, <2>3, <2>4, InsertOnlyAt
  <2>6. Unclosed(put'[m]) /\ LeftBy(m, put[m])' = Past(m, put[m].sent)
    BY <1>1, <1>12 DEF Unclosed, LeftBy
  <2>7. HasFile(m, LeftBy(m, put[m]))'
    BY <1>10, <2>2, <2>5, <2>6 DEF HasFile
  <2>8. standing' = standing
    BY <1>12 DEF Answer
  <2> QED BY <1>1, <1>6, <1>9, <2>5, <2>6, <2>7, <2>8, OneFileMoves
<1>13. CASE put[m].pc = "write" /\ Refused(Asked(m)) /\ files' = files
  <2>1. HasFile(m, put[m].sent)
    BY <1>2, <1>13 DEF FileInv, Unclosed, LeftBy
  <2>2. Unclosed(put'[m]) /\ LeftBy(m, put[m])' = put[m].sent
    BY <1>1, <1>13 DEF Unclosed, LeftBy
  <2>3. HasFile(m, LeftBy(m, put[m]))'
    BY <1>6, <1>10, <1>13, <2>1, <2>2 DEF HasFile
  <2>4. standing' = standing
    BY <1>13 DEF Answer
  <2>5. OnlyAt(Target[m])
    BY <1>13 DEF OnlyAt
  <2> QED BY <1>1, <1>6, <1>9, <2>2, <2>3, <2>4, <2>5, OneFileMoves
<1>14. CASE put[m].pc = "close" /\ files' = files
  <2>1. HasFile(m, Len(Body[m]))
    BY <1>2, <1>14 DEF FileInv, Unclosed, LeftBy
  <2>2. Put(put'[m]) /\ ~ Unclosed(put'[m])
    BY <1>1, <1>5, <1>14 DEF Put, Unclosed
  <2>3. standing' = standing \cup {m} /\ HasFile(m, Len(Body[m]))'
    BY <1>6, <1>10, <1>14, <2>1 DEF Answer, HasFile
  <2>4. OnlyAt(Target[m])
    BY <1>14 DEF OnlyAt
  <2>5. \A o \in standing' : Target[o] = Target[m] => o = m
    BY <1>9, <2>3
  <2>6. standing' \subseteq standing \cup {m}
    BY <2>3
  <2>7. \A o \in standing' : Target[o] = Target[m] =>
           HasFile(o, Len(Body[o]))' /\ (put'[m].pc \in Idle \/ (o = m /\ Put(put'[m])))
    BY <2>2, <2>3, <2>5
  <2> QED BY <1>1, <1>6, <2>2, <2>4, <2>6, <2>7, OneFileMoves
<1> QED BY <1>4, <1>5, <1>11, <1>12, <1>13, <1>14

\* A send that begins leaves the files as they are.
LEMMA SendFiles ==
  ASSUME PutInv, FileInv, standing \subseteq Message, NEW m \in Message, Send(m)
  PROVE  FileInv'
<1>1. /\ PutInv' /\ Alone(m) /\ put' = [put EXCEPT ![m] = put'[m]]
      /\ put'[m].pc = "open" /\ put'[m].reply = "asked"
  BY SendSends
<1>2. files' = files /\ cut' = cut /\ standing' = Elsewhere(Target[m])
  BY DEF Send, dirVars
<1>3. ~ Unclosed(put'[m])
  BY <1>1 DEF Unclosed
<1>4. OnlyAt(Target[m])
  BY <1>2 DEF OnlyAt
<1>5. standing' \subseteq standing /\ \A o \in standing' : Target[o] # Target[m]
  BY <1>2 DEF Elsewhere
<1> QED BY <1>1, <1>2, <1>3, <1>4, <1>5, OneFileMoves

\* put counts on what the answer it heard has left.
LEMMA HearFiles ==
  ASSUME PutInv, FileInv, standing \subseteq Message, NEW m \in Message, Hear(m)
  PROVE  FileInv'
<1>1. /\ PutInv' /\ Alone(m) /\ put' = [put EXCEPT ![m] = put'[m]]
      /\ \/ /\ put[m].pc = "open"
            /\ put'[m].pc = "write" /\ put'[m].reply = "asked" /\ put'[m].sent = 0
         \/ /\ put[m].pc = "write" /\ put'[m].pc \in {"write", "close"}
            /\ put'[m].reply = "asked" /\ put'[m].sent = Past(m, put[m].sent)
         \/ put[m].pc = "close" /\ put'[m].pc = "done"
      /\ put'[m].fresh = put[m].fresh
  BY HearSends
<1>2. files' = files /\ cut' = cut /\ standing' = standing /\ put[m].reply = "ok"
  BY DEF Hear, dirVars
<1>3. OnlyAt(Target[m])
  BY <1>2 DEF OnlyAt
<1>4. Attempt(m)' = Attempt(m) /\ Taken(m)' = Taken(m)
  BY <1>1, <1>2, SameAttempt
<1>5. CASE put[m].pc \in {"open", "write"}
  <2>1. Unclosed(put[m]) /\ Unclosed(put'[m]) /\ LeftBy(m, put[m])' = LeftBy(m, put[m])
    BY <1>1, <1>2, <1>5 DEF Unclosed, LeftBy
  <2>2. HasFile(m, LeftBy(m, put[m]))
    BY <2>1 DEF FileInv
  <2>3. HasFile(m, LeftBy(m, put[m]))'
    BY <1>2, <1>4, <2>1, <2>2 DEF HasFile
  <2>4. \A o \in standing : Target[o] # Target[m]
    BY <1>5 DEF FileInv, Put, Alone, Idle
  <2> QED BY <1>1, <1>2, <1>3, <2>1, <2>3, <2>4, OneFileMoves
<1>6. CASE put[m].pc = "close" /\ put'[m].pc = "done"
  <2>1. ~ Unclosed(put'[m]) /\ put'[m].pc \in Idle
    BY <1>6 DEF Unclosed, Idle
  <2>2. \A o \in Message : Attempt(o)' = Attempt(o) /\ Taken(o)' = Taken(o)
    <3>1. \A o \in Message : put'[o].fresh = put[o].fresh
      BY <1>1 DEF PutInv
    <3> QED BY <1>2, <3>1, SameAttempt
  <2>3. \A o \in standing' : HasFile(o, Len(Body[o]))'
    BY <1>2, <2>2 DEF FileInv, HasFile
  <2> QED BY <1>1, <1>2, <1>3, <2>1, <2>3, OneFileMoves
<1> QED BY <1>1, <1>5, <1>6

\* A put that fails leaves the files as they are.
LEMMA FailFiles ==
  ASSUME PutInv, FileInv, standing \subseteq Message, NEW m \in Message,
         put[m].reply # "none", Fail(m)
  PROVE  FileInv'
<1>1. /\ PutInv' /\ Alone(m) /\ put' = [put EXCEPT ![m] = put'[m]]
      /\ \/ put'[m].pc = "open" /\ put'[m].reply = "asked" /\ standing' = Elsewhere(Target[m])
         \/ put'[m].pc = "failed" /\ standing' = standing /\ put'[m].fresh = put[m].fresh
  BY FailSends
<1>2. files' = files /\ cut' = cut
  BY DEF Fail, dirVars
<1>3. OnlyAt(Target[m]) /\ ~ Unclosed(put'[m])
  BY <1>1, <1>2 DEF OnlyAt, Unclosed
<1>4. CASE put'[m].pc = "open" /\ standing' = Elsewhere(Target[m])
  <2>1. standing' \subseteq standing /\ \A o \in standing' : Target[o] # Target[m]
    BY <1>4 DEF Elsewhere
  <2> QED BY <1>1, <1>2, <1>3, <2>1, OneFileMoves
<1>5. CASE put'[m].pc = "failed" /\ standing' = standing /\ put'[m].fresh = put[m].fresh
  <2>1. put'[m].pc \in Idle
    BY <1>5 DEF Idle
  <2>2. \A o \in Message : Attempt(o)' = Attempt(o) /\ Taken(o)' = Taken(o)
    <3>1. \A o \in Message : put'[o].fresh = put[o].fresh
      BY <1>1, <1>5 DEF PutInv
    <3> QED BY <1>2, <3>1, SameAttempt
  <2>3. \A o \in standing' : HasFile(o, Len(Body[o]))'
    BY <1>2, <1>5, <2>2 DEF FileInv, HasFile
  <2> QED BY <1>1, <1>2, <1>3, <1>5, <2>1, <2>3, OneFileMoves
<1> QED BY <1>1, <1>4, <1>5

-----------------------------------------------------------------------------
(***************************************************************************)
(* The receive.                                                            *)
(***************************************************************************)
Claiming == {"claimed", "reading"}

TakeType == take \in [pc : {"none", "claimed", "reading", "ended"}, got : Bytes]

\* The claimed file is there until it is read, and what is read of it is its
\* first bytes.
TakeInv ==
  /\ take.pc \in Claiming => Claimed \in DOMAIN files
  /\ take.pc \in {"none", "claimed"} => take.got = <<>>
  /\ take.pc = "reading" => /\ Len(take.got) <= Len(files[Claimed])
                           /\ \A i \in 1 .. Len(take.got) : take.got[i] = files[Claimed][i]

\* What a send does leaves the receive as it was.
LEMMA TakeStays ==
  ASSUME TakeInv, NEW n \in Name \ {Claimed}, OnlyAt(n), take' = take
  PROVE  TakeInv'
<1>1. /\ Claimed \in DOMAIN files' <=> Claimed \in DOMAIN files
      /\ Claimed \in DOMAIN files => files'[Claimed] = files[Claimed]
  BY TransferAssumption DEF OnlyAt
<1> QED BY <1>1 DEF TakeInv, Claiming

\* What a receive does after the claim leaves the sends' files as they were.
LEMMA FilesStay ==
  ASSUME FileInv, standing \subseteq Message, put' = put, cut' = cut, standing' = standing,
         OnlyAt(Claimed)
  PROVE  FileInv'
<1>1. \A o \in Message : Target[o] \in Name \ {Claimed}
  BY BodyType
<1>2. \A o \in Message : Attempt(o)' = Attempt(o) /\ Taken(o)' = Taken(o)
  BY SameAttempt
<1>3. ASSUME NEW o \in Message, NEW k, HasFile(o, k) PROVE HasFile(o, k)'
  BY <1>1, <1>2, <1>3 DEF HasFile, OnlyAt
<1>4. ASSUME NEW m \in Message, Unclosed(put'[m]) PROVE HasFile(m, LeftBy(m, put[m]))'
  <2>1. PICK k : k = LeftBy(m, put[m])
    OBVIOUS
  <2>2. LeftBy(m, put[m])' = k /\ HasFile(m, k)
    BY <1>4, <2>1 DEF FileInv, LeftBy
  <2>3. HasFile(m, k)'
    BY <1>3, <2>2
  <2> QED BY <2>2, <2>3
<1>5. ASSUME NEW o \in standing'
      PROVE  /\ HasFile(o, Len(Body[o]))'
             /\ put'[o].pc \in Idle \/ Put(put'[o])
             /\ Alone(o)'
  BY <1>3 DEF FileInv, Alone
<1> QED BY <1>4, <1>5 DEF FileInv

\* on_rename to the claimed name: what was left of the messages of other names
\* is left, and what the one that is writing the file has written is claimed.
LEMMA TakeTakes ==
  ASSUME DirTypeOK, PutInv, CutType, CutInv, FileInv, TakeInv, TakeType, standing \subseteq Message,
         NEW n \in Name \ {Claimed}, Take(n)
  PROVE  FileInv' /\ TakeInv'
<1>1. /\ n \in DOMAIN files /\ Claimed \notin DOMAIN files
      /\ files' = Insert(Without(files, n), Claimed, files[n])
  BY DEF Take, RenameFile, CanRename
<1>2. /\ DOMAIN files' = (DOMAIN files \ {n}) \cup {Claimed} /\ files'[Claimed] = files[n]
      /\ \A k \in DOMAIN files : k # n /\ k # Claimed => files'[k] = files[k]
  BY <1>1 DEF Insert, Without
<1>3. /\ put' = put /\ standing' = Elsewhere(n) /\ take.pc = "none"
      /\ take' = [take EXCEPT !.pc = "claimed"]
  BY DEF Take
<1>4. \A o \in Message : Target[o] # Claimed
  BY BodyType
<1>5. /\ \A m \in Message : Target[m] # n \/ ~ Unclosed(put[m]) =>
           Attempt(m)' = Attempt(m) /\ Taken(m)' = Taken(m)
           /\ (Attempt(m) \in DOMAIN cut <=> Attempt(m)' \in DOMAIN cut')
      /\ \A m \in Message : Target[m] = n /\ Unclosed(put[m]) =>
           Attempt(m)' \in DOMAIN cut' /\ Taken(m)' = Len(files[n])
  BY TakeCuts
<1>6. ASSUME NEW o \in Message, NEW k, Target[o] # n, HasFile(o, k) PROVE HasFile(o, k)'
  BY <1>2, <1>4, <1>5, <1>6 DEF HasFile
<1>7. ASSUME NEW m \in Message, Unclosed(put'[m]) PROVE HasFile(m, LeftBy(m, put[m]))'
  <2>1. PICK k : k = LeftBy(m, put[m])
    OBVIOUS
  <2>2. LeftBy(m, put[m])' = k /\ HasFile(m, k) /\ Unclosed(put[m])
    BY <1>3, <1>7, <2>1 DEF FileInv, LeftBy
  <2>3. CASE Target[m] # n
    BY <1>6, <2>2, <2>3
  <2>4. CASE Target[m] = n
    <3>1. Len(files[n]) = k
      BY <1>1, <2>2, <2>4 DEF HasFile, Part
    <3>2. Target[m] \notin DOMAIN files' /\ Attempt(m)' \in DOMAIN cut' /\ Taken(m)' = k
      BY <1>2, <1>4, <1>5, <2>2, <2>4, <3>1
    <3> QED BY <2>2, <3>2 DEF HasFile
  <2> QED BY <2>3, <2>4
<1>8. ASSUME NEW o \in standing'
      PROVE  /\ HasFile(o, Len(Body[o]))'
             /\ put'[o].pc \in Idle \/ Put(put'[o])
             /\ Alone(o)'
  <2>1. o \in standing /\ o \in Message /\ Target[o] # n
    BY <1>3, <1>8 DEF Elsewhere
  <2>2. HasFile(o, Len(Body[o])) /\ (put[o].pc \in Idle \/ Put(put[o])) /\ Alone(o)
    BY <2>1 DEF FileInv
  <2>3. HasFile(o, Len(Body[o]))'
    BY <1>6, <2>1, <2>2
  <2> QED BY <1>3, <2>2, <2>3 DEF Alone
<1>9. FileInv'
  BY <1>7, <1>8 DEF FileInv
<1>10. take'.pc = "claimed" /\ take'.got = <<>>
  BY <1>3 DEF TakeInv, TakeType
<1>11. Claimed \in DOMAIN files'
  BY <1>2
<1>12. TakeInv'
  BY <1>10, <1>11 DEF TakeInv
<1> QED BY <1>9, <1>12

\* open_for_reading finds the claimed file, none of it read.
LEMMA OpenReadTakes ==
  ASSUME DirTypeOK, FileInv, TakeInv, TakeType, standing \subseteq Message, OpenRead
  PROVE  FileInv' /\ TakeInv'
<1>1. /\ files' = files /\ put' = put /\ cut' = cut /\ standing' = standing
      /\ Claimed \in DOMAIN files
      /\ take.pc = "claimed" /\ take' = [take EXCEPT !.pc = "reading"]
  BY DEF OpenRead, dirVars
<1>2. FileInv'
  BY <1>1, FilesStay DEF OnlyAt
<1>3. take'.pc = "reading" /\ take'.got = <<>>
  BY <1>1 DEF TakeInv, TakeType
<1>4. Len(<<>>) = 0 /\ Len(files[Claimed]) \in Nat
  <2>1. files[Claimed] \in Bytes
    BY <1>1 DEF DirTypeOK, IsMap
  <2> QED BY <2>1, LenProperties, EmptySeq DEF Bytes
<1> QED BY <1>1, <1>2, <1>3, <1>4 DEF TakeInv

\* SftpSite::delete.
LEMMA AcceptTakes ==
  ASSUME FileInv, TakeInv, standing \subseteq Message, Accept
  PROVE  FileInv' /\ TakeInv'
<1>1. OnlyAt(Claimed)
  BY DEF Accept, RemoveFile, Without, OnlyAt
<1>2. /\ put' = put /\ cut' = cut /\ standing' = standing
      /\ take'.pc = "none" /\ take'.got = <<>>
  BY DEF Accept, NotTaking
<1>3. FileInv'
  BY <1>1, <1>2, FilesStay
<1> QED BY <1>2, <1>3 DEF TakeInv, Claiming

\* on_read: bytes from an offset, some unless it is the end.
LEMMA DataType ==
  ASSUME NEW bytes \in Bytes, NEW offset \in Nat
  PROVE  /\ Data(bytes, offset) \in Bytes /\ Len(Data(bytes, offset)) \in Nat
         /\ offset >= Len(bytes) => Data(bytes, offset) = <<>>
         /\ offset < Len(bytes) => /\ Data(bytes, offset) # <<>>
                                  /\ offset + Len(Data(bytes, offset)) <= Len(bytes)
         /\ \A i \in 1 .. Len(Data(bytes, offset)) : Data(bytes, offset)[i] = bytes[offset + i]
<1>1. Len(bytes) \in Nat /\ \A i \in 1 .. Len(bytes) : bytes[i] \in 0 .. ByteMax
  BY LenProperties, ElementOfSeq DEF Bytes
<1>2. <<>> \in Bytes /\ Len(<<>>) = 0
  BY EmptySeq DEF Bytes
<1>3. CASE offset >= Len(bytes)
  <2>1. Data(bytes, offset) = <<>>
    BY <1>3 DEF Data
  <2> QED BY <1>1, <1>2, <1>3, <2>1
<1>4. CASE ~ (offset >= Len(bytes))
  <2> DEFINE to == MinOf(Len(bytes), offset + Chunk)
             out == SubSeq(bytes, offset + 1, to)
  <2>1. to \in Nat /\ offset + 1 <= to /\ to <= Len(bytes)
    BY <1>1, <1>4, TransferAssumption DEF MinOf
  <2>2. \A i \in offset + 1 .. to : bytes[i] \in 0 .. ByteMax
    BY <1>1, <2>1
  <2>3. Data(bytes, offset) = out
    BY <1>4 DEF Data
  <2> HIDE DEF to
  <2>4. /\ out \in Seq(0 .. ByteMax)
        /\ Len(out) = IF offset + 1 <= to THEN to - (offset + 1) + 1 ELSE 0
        /\ \A i \in 1 .. to - (offset + 1) + 1 : out[i] = bytes[offset + 1 + i - 1]
    BY <2>1, <2>2, SubSeqProperties
  <2> HIDE DEF out
  <2>5. Len(out) = to - offset /\ Len(out) \in Nat \ {0} /\ offset + Len(out) <= Len(bytes)
    BY <1>1, <2>1, <2>4
  <2>6. out # <<>>
    BY <1>2, <2>5
  <2>7. ASSUME NEW i \in 1 .. Len(out) PROVE out[i] = bytes[offset + i]
    <3>1. i \in 1 .. to - (offset + 1) + 1 /\ offset + 1 + i - 1 = offset + i
      BY <2>1, <2>5
    <3> QED BY <2>4, <3>1
  <2>8. out \in Bytes
    BY <2>4 DEF Bytes
  <2> QED BY <1>1, <1>4, <2>3, <2>5, <2>6, <2>7, <2>8
<1> QED BY <1>3, <1>4

\* What has been read and what follows it are read in place.
LEMMA ReadOn ==
  ASSUME NEW bytes \in Bytes, NEW got \in Bytes, Len(got) <= Len(bytes),
         \A i \in 1 .. Len(got) : got[i] = bytes[i]
  PROVE  LET data == Data(bytes, Len(got))
         IN  /\ data = <<>> => got = bytes
             /\ got \o data \in Bytes
             /\ Len(got \o data) <= Len(bytes)
             /\ \A i \in 1 .. Len(got \o data) : (got \o data)[i] = bytes[i]
<1> DEFINE data == Data(bytes, Len(got))
<1>1. Len(got) \in Nat /\ Len(bytes) \in Nat
  BY LenProperties DEF Bytes
<1>2. /\ data \in Bytes /\ Len(data) \in Nat
      /\ Len(got) >= Len(bytes) => data = <<>>
      /\ Len(got) < Len(bytes) => data # <<>> /\ Len(got) + Len(data) <= Len(bytes)
      /\ \A i \in 1 .. Len(data) : data[i] = bytes[Len(got) + i]
  BY <1>1, DataType
<1> HIDE DEF data
<1>3. data = <<>> => got = bytes
  <2>1. data = <<>> => Len(got) = Len(bytes)
    BY <1>1, <1>2
  <2> QED BY <2>1, SeqEqual DEF Bytes
<1>4. got \o data \in Bytes
  BY <1>2, ConcatProperties DEF Bytes
<1>5. /\ Len(got \o data) = Len(got) + Len(data)
      /\ \A i \in 1 .. Len(got) + Len(data) :
           (got \o data)[i] = IF i <= Len(got) THEN got[i] ELSE data[i - Len(got)]
  BY <1>2, ConcatProperties DEF Bytes
<1>6. Len(got) + Len(data) <= Len(bytes)
  BY <1>1, <1>2, EmptySeq
<1>7. ASSUME NEW i \in 1 .. Len(got) + Len(data) PROVE (got \o data)[i] = bytes[i]
  <2>1. CASE i <= Len(got)
    <3>1. i \in 1 .. Len(got)
      BY <1>1, <1>2, <2>1
    <3> QED BY <1>5, <2>1, <3>1
  <2>2. CASE ~ (i <= Len(got))
    <3>1. i - Len(got) \in 1 .. Len(data) /\ Len(got) + (i - Len(got)) = i
      BY <1>1, <1>2, <2>2
    <3> QED BY <1>2, <1>5, <2>2, <3>1
  <2> QED BY <2>1, <2>2
<1> QED BY <1>3, <1>4, <1>5, <1>6, <1>7 DEF data

\* read_at goes on where it is, or has the whole file.
LEMMA ReadAtTakes ==
  ASSUME DirTypeOK, FileInv, TakeInv, TakeType, standing \subseteq Message, ReadAt
  PROVE  FileInv' /\ TakeInv'
<1>1. /\ files' = files /\ put' = put /\ cut' = cut /\ standing' = standing /\ take.pc = "reading"
  BY DEF ReadAt, dirVars
<1>2. FileInv'
  BY <1>1, FilesStay DEF OnlyAt
<1> DEFINE bytes == files[Claimed]
           data == Data(bytes, Len(take.got))
<1>3. /\ Claimed \in DOMAIN files /\ bytes \in Bytes /\ take.got \in Bytes
      /\ Len(take.got) <= Len(bytes) /\ \A i \in 1 .. Len(take.got) : take.got[i] = bytes[i]
  BY <1>1 DEF TakeInv, TakeType, Claiming, DirTypeOK, IsMap
<1>4. /\ Len(take.got \o data) <= Len(bytes)
      /\ \A i \in 1 .. Len(take.got \o data) : (take.got \o data)[i] = bytes[i]
  BY <1>3, ReadOn
<1>5. \/ take' = [take EXCEPT !.pc = "ended"]
      \/ take' = [take EXCEPT !.got = @ \o data]
  BY <1>3 DEF ReadAt
<1> HIDE DEF data
<1>6. CASE take' = [take EXCEPT !.pc = "ended"]
  <2>1. take'.pc = "ended"
    BY <1>6 DEF TakeType
  <2> QED BY <1>2, <2>1 DEF TakeInv, Claiming
<1>7. CASE take' = [take EXCEPT !.got = @ \o data]
  <2>1. take'.pc = "reading" /\ take'.got = take.got \o data
    BY <1>1, <1>7 DEF TakeType
  <2> QED BY <1>1, <1>2, <1>3, <1>4, <2>1 DEF TakeInv
<1> QED BY <1>5, <1>6, <1>7

-----------------------------------------------------------------------------
(***************************************************************************)
(* Types.                                                                  *)
(***************************************************************************)
BaseInv == TypeOK /\ PutInv /\ LateInv /\ CutInv

\* Nothing is sent or received at first.
LEMMA BaseStart == Init => BaseInv
<1> SUFFICES ASSUME Init PROVE BaseInv
  OBVIOUS
<1>1. DirTypeOK
  BY DirectoryAssumption DEF Init, DirTypeOK, IsMap, Time
<1>2. PutInv
  <2>1. \A m \in Message : Len(Body[m]) \in Nat
    BY BodyType
  <2>2. put = [m \in Message |-> [pc |-> "idle", sent |-> 0, fresh |-> FALSE, reply |-> "none"]]
    BY DEF Init
  <2>3. put \in [Message -> Puts]
    BY <2>2 DEF Puts
  <2>4. \A m \in Message : SendOK(m, put[m])
    BY <2>1, <2>2, <2>3 DEF SendOK, Idle
  <2> QED BY <2>2, <2>3, <2>4 DEF PutInv, Idle
<1>3. <<>> \in Bytes /\ <<>> \in Seq(Bytes)
  BY DEF Bytes
<1>4. CutInv /\ IsMap(cut, Message \X BOOLEAN, Nat)
  BY DEF Init, CutInv, IsMap
<1> QED BY <1>1, <1>2, <1>3, <1>4 DEF Init, BaseInv, TypeOK, LateInv, PutInv, NotTaking

\* Where the sends stay, so does what is known of them.
LEMMA SendsStay ==
  ASSUME PutInv, CutInv, LateInv, put' = put, cut' = cut, late' \subseteq late
  PROVE  PutInv' /\ CutInv' /\ LateInv'
BY DEF PutInv, Alone, CutInv, LateInv

\* Every step keeps the types and what is known of the sends.
LEMMA BaseStep == BaseInv /\ [Next]_vars => BaseInv'
<1> SUFFICES ASSUME BaseInv, [Next]_vars PROVE BaseInv'
  OBVIOUS
<1>1. /\ DirTypeOK /\ put \in [Message -> Puts] /\ late \subseteq Request /\ TakeType
      /\ standing \subseteq Message /\ broken \subseteq Message /\ belated \in BOOLEAN
      /\ CutType /\ delivered \in Seq(Bytes) /\ PutInv /\ CutInv /\ LateInv
  BY DEF BaseInv, TypeOK, TakeType, CutType
<1>2. \A n : Elsewhere(n) \subseteq Message
  BY <1>1 DEF Elsewhere
<1>3. ASSUME DirTypeOK', PutInv', LateInv', CutInv', TakeType', CutType', standing' \subseteq Message,
             broken' \subseteq Message, belated' \in BOOLEAN, delivered' \in Seq(Bytes)
      PROVE  BaseInv'
  <2>1. put' \in [Message -> Puts] /\ late' \subseteq Request
    BY <1>3 DEF PutInv, LateInv
  <2> QED BY <1>3, <2>1 DEF BaseInv, TypeOK, TakeType, CutType
<1>4. ASSUME NEW m \in Message, Send(m) PROVE BaseInv'
  <2>1. /\ PutInv' /\ put' = [put EXCEPT ![m] = put'[m]]
        /\ put'[m].pc = "open" /\ put'[m].reply = "asked" /\ put[m].pc = "idle"
    BY <1>1, <1>4, SendSends DEF Send
  <2>2. /\ UNCHANGED <<files, written, newest, late, take, broken, belated, cut, delivered>>
        /\ standing' \subseteq Message
    BY <1>2, <1>4 DEF Send, dirVars
  <2>3. CutInv'
    BY <1>1, <2>1, <2>2, CutStays
  <2> QED BY <1>1, <1>3, <2>1, <2>2, <2>3 DEF TakeType, CutType, DirTypeOK, LateInv
<1>5. ASSUME NEW m \in Message, Answer(m) PROVE BaseInv'
  <2>1. Asked(m) \in Request /\ Asked(m).at <= Len(Body[Asked(m).of]) /\ Does(Asked(m))
    BY <1>1, <1>5, AskedType DEF Answer
  <2>2. DirTypeOK'
    BY <1>1, <2>1, DoesFiles
  <2>3. /\ UNCHANGED <<late, take, broken, belated, cut, delivered>>
        /\ standing' \subseteq Message
    BY <1>1, <1>5 DEF Answer
  <2>4. /\ PutInv' /\ put' = [put EXCEPT ![m] = put'[m]]
        /\ put'[m].pc = put[m].pc /\ put'[m].fresh = put[m].fresh
        /\ put'[m].reply \in {"refused", "ok"}
    BY <1>1, <1>5, AnswerSends
  <2>5. put[m].pc # "idle"
    BY <1>1, <1>5 DEF Answer, PutInv, SendOK, Idle
  <2>6. CutInv'
    BY <1>1, <2>3, <2>4, <2>5, CutStays
  <2> QED BY <1>1, <1>3, <2>2, <2>3, <2>4, <2>6 DEF TakeType, CutType, LateInv
<1>6. ASSUME NEW m \in Message, Hear(m) PROVE BaseInv'
  <2>1. /\ PutInv' /\ put' = [put EXCEPT ![m] = put'[m]] /\ put'[m].fresh = put[m].fresh
        /\ put'[m].pc \in {"write", "close", "done"} /\ put[m].pc # "idle"
    BY <1>1, <1>6, HearSends
  <2>2. UNCHANGED <<files, written, newest, late, take, standing, broken, belated, cut, delivered>>
    BY <1>6 DEF Hear, dirVars
  <2>3. CutInv'
    BY <1>1, <2>1, <2>2, CutStays
  <2> QED BY <1>1, <1>3, <2>1, <2>2, <2>3 DEF TakeType, CutType, DirTypeOK, LateInv
<1>7. ASSUME NEW m \in Message, put[m].reply # "none", Fail(m), LateInv' PROVE BaseInv'
  <2>1. /\ PutInv' /\ put' = [put EXCEPT ![m] = put'[m]]
        /\ \/ /\ put'[m].pc = "open" /\ put'[m].reply = "asked"
              /\ put[m].fresh = FALSE /\ put'[m].fresh = TRUE
           \/ put'[m].pc = "failed" /\ put'[m].fresh = put[m].fresh
    BY <1>1, <1>7, FailSends
  <2>2. /\ UNCHANGED <<files, written, newest, take, belated, cut, delivered>>
        /\ broken' \subseteq Message /\ standing' \subseteq Message
    BY <1>1, <1>2, <1>7 DEF Fail, dirVars
  <2>3. put[m].pc # "idle"
    BY <1>1, <1>7 DEF PutInv, SendOK, Idle
  <2>4. CutInv'
    BY <1>1, <2>1, <2>2, <2>3, CutStays
  <2> QED BY <1>1, <1>3, <1>7, <2>1, <2>2, <2>4 DEF TakeType, CutType, DirTypeOK
<1>8. ASSUME NEW m \in Message, PutFails(m) PROVE BaseInv'
  BY <1>1, <1>7, <1>8 DEF PutFails, LateInv
<1>9. ASSUME NEW m \in Message, GiveUp(m) PROVE BaseInv'
  BY <1>1, <1>7, <1>9, GiveUpLate DEF GiveUp
<1>10. ASSUME NEW r \in late, AnswerLate(r) PROVE BaseInv'
  <2>1. DirTypeOK'
    BY <1>1, <1>10, DoesFiles DEF LateInv, AnswerLate
  <2>2. /\ UNCHANGED <<put, take, standing, broken, cut, delivered>> /\ belated' = TRUE
        /\ late' \subseteq late
    BY <1>10 DEF AnswerLate
  <2>3. PutInv' /\ CutInv' /\ LateInv'
    BY <1>1, <2>2, SendsStay
  <2> QED BY <1>1, <1>3, <2>1, <2>2, <2>3 DEF TakeType, CutType
<1>11. ASSUME NEW n \in Name \ {Claimed}, Take(n) PROVE BaseInv'
  <2>1. DirTypeOK'
    BY <1>1, <1>11, RenameType, TransferAssumption DEF Take
  <2>2. CutType' /\ CutInv'
    BY <1>1, <1>11, TakeCuts
  <2>3. /\ UNCHANGED <<put, late, broken, belated, delivered>> /\ standing' \subseteq Message
        /\ take' = [take EXCEPT !.pc = "claimed"]
    BY <1>2, <1>11 DEF Take
  <2>4. TakeType'
    BY <1>1, <2>3 DEF TakeType
  <2>5. PutInv' /\ LateInv'
    BY <1>1, <2>3 DEF PutInv, Alone, LateInv
  <2> QED BY <1>1, <1>3, <2>1, <2>2, <2>3, <2>4, <2>5
<1>12. CASE OpenRead
  <2>1. /\ UNCHANGED <<files, written, newest, put, late, standing, broken, belated, cut, delivered>>
        /\ take' = [take EXCEPT !.pc = "reading"]
    BY <1>12 DEF OpenRead, dirVars
  <2>2. TakeType'
    BY <1>1, <2>1 DEF TakeType
  <2>3. PutInv' /\ CutInv' /\ LateInv'
    BY <1>1, <2>1, SendsStay
  <2> QED BY <1>1, <1>3, <2>1, <2>2, <2>3 DEF CutType, DirTypeOK
<1>13. CASE ReadAt
  <2> DEFINE bytes == IF Claimed \in DOMAIN files THEN files[Claimed] ELSE <<>>
             data == Data(bytes, Len(take.got))
  <2>1. bytes \in Bytes /\ take.got \in Bytes
    <3>1. <<>> \in Bytes
      BY DEF Bytes
    <3>2. Claimed \in DOMAIN files => files[Claimed] \in Bytes
      BY <1>1 DEF DirTypeOK, IsMap
    <3> QED BY <1>1, <3>1, <3>2 DEF TakeType
  <2> HIDE DEF bytes
  <2>2. Len(take.got) \in Nat
    BY <2>1, LenProperties DEF Bytes
  <2>3. data \in Bytes
    BY <2>1, <2>2, DataType
  <2> HIDE DEF data
  <2>4. take.got \o data \in Bytes /\ Append(delivered, take.got) \in Seq(Bytes)
    BY <1>1, <2>1, <2>3, ConcatProperties, AppendProperties DEF Bytes
  <2>5. /\ take' = [take EXCEPT !.pc = "ended"] \/ take' = [take EXCEPT !.got = @ \o data]
        /\ delivered' \in {delivered, Append(delivered, take.got)}
    BY <1>13 DEF ReadAt, bytes, data
  <2>6. TakeType' /\ delivered' \in Seq(Bytes)
    BY <1>1, <2>4, <2>5 DEF TakeType
  <2>7. UNCHANGED <<files, written, newest, put, late, standing, broken, belated, cut>>
    BY <1>13 DEF ReadAt, dirVars
  <2>8. PutInv' /\ CutInv' /\ LateInv'
    BY <1>1, <2>7, SendsStay
  <2> QED BY <1>1, <1>3, <2>6, <2>7, <2>8 DEF CutType, DirTypeOK
<1>14. CASE Accept
  <2>1. DirTypeOK'
    BY <1>1, <1>14, RemoveType DEF Accept
  <2>2. UNCHANGED <<put, late, standing, broken, belated, cut, delivered>> /\ take' = NotTaking
    BY <1>14 DEF Accept
  <2>3. <<>> \in Bytes
    BY DEF Bytes
  <2>4. TakeType'
    BY <2>2, <2>3 DEF TakeType, NotTaking
  <2>5. PutInv' /\ CutInv' /\ LateInv'
    BY <1>1, <2>2, SendsStay
  <2> QED BY <1>1, <1>3, <2>1, <2>2, <2>4, <2>5 DEF CutType
<1>15. CASE UNCHANGED vars
  <2>1. UNCHANGED <<files, written, newest, put, late, take, standing, broken, belated, cut, delivered>>
    BY <1>15 DEF vars, dirVars
  <2>2. PutInv' /\ CutInv' /\ LateInv'
    BY <1>1, <2>1, SendsStay
  <2> QED BY <1>1, <1>3, <2>1, <2>2 DEF TakeType, CutType, DirTypeOK
<1> QED BY <1>4, <1>5, <1>6, <1>8, <1>9, <1>10, <1>11, <1>12, <1>13, <1>14, <1>15
        DEF Next, Putting, Taking

\* A transfer's variables keep their types: no offset, piece or answer takes a
\* send, a file or a receive out of them.
THEOREM TransferTypeCorrect == Spec => []TypeOK
<1>1. BaseInv => TypeOK
  BY DEF BaseInv
<1> QED BY <1>1, BaseStart, BaseStep, PTL DEF Spec

-----------------------------------------------------------------------------
(***************************************************************************)
(* What is put.                                                            *)
(***************************************************************************)
WholeInv == BaseInv /\ (~ belated => FileInv /\ TakeInv)

\* No file is there at first.
LEMMA WholeStart == Init => WholeInv
<1> SUFFICES ASSUME Init PROVE FileInv /\ TakeInv
  BY BaseStart DEF WholeInv
<1>1. standing = {} /\ take = NotTaking /\ \A m \in Message : put[m].pc = "idle"
  BY DEF Init
<1>2. FileInv
  BY <1>1 DEF FileInv, Unclosed
<1>3. TakeInv
  BY <1>1 DEF TakeInv, NotTaking, Claiming
<1> QED BY <1>2, <1>3

\* Every step but the answer to a request given up keeps what was sent.
LEMMA WholeStep == WholeInv /\ [Next]_vars => WholeInv'
<1> SUFFICES ASSUME WholeInv, [Next]_vars, ~ belated' PROVE FileInv' /\ TakeInv'
  BY BaseStep DEF WholeInv
<1>1. DirTypeOK /\ PutInv /\ CutType /\ CutInv /\ standing \subseteq Message /\ TakeType
  BY DEF WholeInv, BaseInv, TypeOK, CutType, TakeType
<1>2. \A m \in Message : Target[m] \in Name \ {Claimed}
  BY BodyType
<1>3. ~ belated
  BY DEF Next, Send, Putting, Answer, Hear, PutFails, GiveUp, Fail, AnswerLate, Take, Taking,
         OpenRead, ReadAt, Accept, vars
<1>4. FileInv /\ TakeInv
  BY <1>3 DEF WholeInv
<1>5. ASSUME NEW m \in Message, Send(m) PROVE FileInv' /\ TakeInv'
  <2>1. OnlyAt(Target[m]) /\ take' = take
    BY <1>5 DEF Send, dirVars, OnlyAt
  <2> QED BY <1>1, <1>2, <1>4, <1>5, <2>1, SendFiles, TakeStays
<1>6. ASSUME NEW m \in Message, Answer(m) PROVE FileInv' /\ TakeInv'
  <2>1. OnlyAt(Target[m]) /\ take' = take
    BY <1>1, <1>6, AnswerOnlyAt DEF Answer
  <2> QED BY <1>1, <1>2, <1>4, <1>6, <2>1, AnswerFiles, TakeStays
<1>7. ASSUME NEW m \in Message, Hear(m) PROVE FileInv' /\ TakeInv'
  <2>1. OnlyAt(Target[m]) /\ take' = take
    BY <1>7 DEF Hear, dirVars, OnlyAt
  <2> QED BY <1>1, <1>2, <1>4, <1>7, <2>1, HearFiles, TakeStays
<1>8. ASSUME NEW m \in Message, put[m].reply # "none", Fail(m) PROVE FileInv' /\ TakeInv'
  <2>1. OnlyAt(Target[m]) /\ take' = take
    BY <1>8 DEF Fail, dirVars, OnlyAt
  <2> QED BY <1>1, <1>2, <1>4, <1>8, <2>1, FailFiles, TakeStays
<1>9. ASSUME NEW m \in Message, PutFails(m) \/ GiveUp(m) PROVE FileInv' /\ TakeInv'
  BY <1>8, <1>9 DEF PutFails, GiveUp
<1>10. ASSUME NEW r \in late, AnswerLate(r) PROVE FALSE
  BY <1>10 DEF AnswerLate
<1>11. ASSUME NEW n \in Name \ {Claimed}, Take(n) PROVE FileInv' /\ TakeInv'
  BY <1>1, <1>4, <1>11, TakeTakes
<1>12. CASE OpenRead
  BY <1>1, <1>4, <1>12, OpenReadTakes
<1>13. CASE ReadAt
  BY <1>1, <1>4, <1>13, ReadAtTakes
<1>14. CASE Accept
  BY <1>1, <1>4, <1>14, AcceptTakes
<1>15. CASE UNCHANGED vars
  <2>1. UNCHANGED <<files, put, standing, take, cut>>
    BY <1>15 DEF vars, dirVars
  <2>2. FileInv'
    BY <1>1, <1>4, <2>1, FilesStay DEF OnlyAt
  <2>3. TakeInv'
    BY <1>4, <2>1 DEF TakeInv
  <2> QED BY <2>2, <2>3
<1> QED BY <1>5, <1>6, <1>7, <1>9, <1>10, <1>11, <1>12, <1>13, <1>14, <1>15
        DEF Next, Putting, Taking

\* Until such an answer what was sent is there.
LEMMA WholeHolds == Spec => []WholeInv
BY WholeStart, WholeStep, PTL DEF Spec

\* Sftp::put: with the answer to its CLOSE the whole body is under its name,
\* until it is taken or put over, whatever pieces it went in and whatever
\* an attempt before it left; what was claimed as it was written is a hole in
\* it, or all of it.  Unless a request given up is answered late.
THEOREM PutIsWhole == Spec => []SentIsThere
<1>1. WholeInv => SentIsThere
  <2> SUFFICES ASSUME WholeInv, ~ belated, NEW m \in standing
               PROVE  IF Target[m] \in DOMAIN files
                        THEN IsPart(files[Target[m]], m, Taken(m), Len(Body[m]))
                        ELSE Attempt(m) \in DOMAIN cut /\ Taken(m) = Len(Body[m])
    BY DEF SentIsThere
  <2>1. HasFile(m, Len(Body[m]))
    BY DEF WholeInv, FileInv
  <2> QED BY <2>1 DEF HasFile, Part, IsPart
<1> QED BY <1>1, WholeHolds, PTL

-----------------------------------------------------------------------------
(***************************************************************************)
(* Of which message each file is.                                          *)
(***************************************************************************)
Writing(n) == \E m \in Message : Target[m] = n /\ Unclosed(put[m])

\* A send whose CLOSE was answered.
Closed(m) == Put(put[m]) \/ put[m].pc = "done"

\* The files that were received, and those that may be: what nobody is
\* writing, and the claimed one until it is read.
Slot == {"delivered", "file"} \X (Nat \cup Name)

Holds(kind, at) ==
  \/ kind = "delivered" /\ at \in DOMAIN delivered
  \/ kind = "file" /\ at \in DOMAIN files /\ (IF at = Claimed THEN take.pc \in Claiming ELSE ~ Writing(at))

Held == {h \in Slot : Holds(h[1], h[2])}

Content(h) == IF h[1] = "delivered" THEN delivered[h[2]] ELSE files[h[2]]

\* What is received, in its order; then the claimed file; then the others.
IsFile(h) == h[1] = "file" /\ h[2] # Claimed
Before(g, h) ==
  \/ g[1] = "delivered" /\ (h[1] = "file" \/ (h[1] = "delivered" /\ g[2] < h[2]))
  \/ g[1] = "file" /\ g[2] = Claimed /\ IsFile(h)

\* What a file may be of a message.
PartOf(bytes, m, hole) ==
  /\ Part(bytes, m, hole, Len(bytes))
  /\ m \notin broken \cup Cut => Len(bytes) = Len(Body[m])
  /\ m \notin Cut => hole = 0

\* No byte before a place will be written of a message again, but where it failed.
Over(m, place) ==
  m \in broken \/ Closed(m) \/ (Attempt(m) \in DOMAIN cut /\ place <= Taken(m))

Source(h, m, hole) ==
  /\ m \in Message /\ PartOf(Content(h), m, hole)
  /\ Over(m, Len(Content(h)))
  /\ IsFile(h) => Target[m] = h[2]

\* Each file is of a message; two are of one only where it failed, or where
\* the later one has a hole in place of the earlier.
Sources(from, hole) ==
  /\ \A h \in Held : Source(h, from[h], hole[h])
  /\ \A g, h \in Held : Before(g, h) /\ from[g] = from[h] =>
       from[g] \in broken \/ (from[g] \in Cut /\ Len(Content(g)) <= hole[h])

Sourced == \E from, hole : Sources(from, hole)

\* What a step may make of the sends: more of them are over, or cut further.
MoreOver ==
  /\ broken \subseteq broken' /\ Cut \subseteq Cut'
  /\ \A m \in Message :
       /\ Taken(m) \in Nat /\ Taken(m)' \in Nat
       /\ Attempt(m) \in DOMAIN cut => m \in Cut
       /\ Closed(m) => Closed(m)' \/ m \in broken'
       /\ Attempt(m) \in DOMAIN cut =>
            m \in broken' \/ (Attempt(m)' \in DOMAIN cut' /\ Taken(m) <= Taken(m)')

\* What is over stays so.
LEMMA OverStays ==
  ASSUME MoreOver, NEW m \in Message, NEW place \in Nat, Over(m, place)
  PROVE  Over(m, place)'
<1>1. CASE m \in broken \/ Closed(m)
  BY <1>1 DEF MoreOver, Over
<1>2. CASE Attempt(m) \in DOMAIN cut /\ place <= Taken(m)
  BY <1>2 DEF MoreOver, Over
<1> QED BY <1>1, <1>2 DEF Over

\* What was of a message stays of it, wherever it is moved.
LEMMA SourceStays ==
  ASSUME MoreOver, NEW g, NEW h, NEW m, NEW hole, Source(g, m, hole), Content(h)' = Content(g),
         IsFile(h) => g = h
  PROVE  Source(h, m, hole)'
<1>1. /\ m \in Message /\ PartOf(Content(g), m, hole) /\ Over(m, Len(Content(g)))
      /\ IsFile(g) => Target[m] = g[2]
  BY DEF Source
<1>2. PICK bytes : bytes = Content(g)
  OBVIOUS
<1>3. Len(bytes) \in Nat
  BY <1>1, <1>2, LenProperties DEF PartOf, Part, Bytes
<1>4. Over(m, Len(bytes))'
  BY <1>1, <1>2, <1>3, OverStays
<1>5. PartOf(bytes, m, hole)'
  BY <1>1, <1>2 DEF PartOf, MoreOver
<1> QED BY <1>1, <1>2, <1>4, <1>5 DEF Source, IsFile

\* Two files under names of their own are of different messages.
Apart(g, h) == IsFile(g) /\ IsFile(h) /\ g[2] # h[2]

\* A step after which no other file is held, but one may have moved.
LEMMA KeptSources ==
  ASSUME Sourced, MoreOver, NEW was,
         \A h \in Held' : /\ was[h] \in Held /\ Content(h)' = Content(was[h])
                          /\ IsFile(h) => was[h] = h,
         \A g, h \in Held' : Before(g, h) => Before(was[g], was[h]) \/ Apart(was[g], was[h])
  PROVE  Sourced'
<1>1. PICK from, hole : Sources(from, hole)
  BY DEF Sourced
<1>2. PICK from2, hole2 : from2 = [h \in Held' |-> from[was[h]]] /\ hole2 = [h \in Held' |-> hole[was[h]]]
  OBVIOUS
<1>3. \A h \in Held' : from2[h] = from[was[h]] /\ hole2[h] = hole[was[h]]
  BY <1>2
<1>4. ASSUME NEW h \in Held' PROVE Source(h, from2[h], hole2[h])'
  <2>1. was[h] \in Held /\ Content(h)' = Content(was[h]) /\ (IsFile(h) => was[h] = h)
    BY <1>4
  <2>2. Source(was[h], from[was[h]], hole[was[h]])
    BY <1>1, <2>1 DEF Sources
  <2>3. Source(was[h], from2[h], hole2[h])
    BY <1>3, <2>2
  <2> QED BY <2>1, <2>3, SourceStays
<1>5. ASSUME NEW g \in Held', NEW h \in Held', Before(g, h), from2[g] = from2[h]
      PROVE  from2[g] \in broken' \/ (from2[g] \in Cut' /\ Len(Content(g)') <= hole2[h])
  <2>1. /\ was[g] \in Held /\ was[h] \in Held /\ Content(g)' = Content(was[g])
        /\ from[was[g]] = from[was[h]] /\ from2[g] = from[was[g]] /\ hole2[h] = hole[was[h]]
    BY <1>3, <1>5
  <2>2. CASE Apart(was[g], was[h])
    <3>1. Source(was[g], from[was[g]], hole[was[g]]) /\ Source(was[h], from[was[h]], hole[was[h]])
      BY <1>1, <2>1 DEF Sources
    <3> QED BY <2>1, <2>2, <3>1 DEF Source, Apart
  <2>3. CASE Before(was[g], was[h])
    <3>1. \/ from[was[g]] \in broken
          \/ from[was[g]] \in Cut /\ Len(Content(was[g])) <= hole[was[h]]
      BY <1>1, <2>1, <2>3 DEF Sources
    <3> QED BY <2>1, <3>1 DEF MoreOver
  <2> QED BY <1>5, <2>2, <2>3
<1>6. Sources(from2, hole2)'
  BY <1>4, <1>5 DEF Sources
<1> QED BY <1>6 DEF Sourced

\* One after which none has moved.
LEMMA SameSources ==
  ASSUME Sourced, MoreOver, \A h \in Held' : h \in Held /\ Content(h)' = Content(h)
  PROVE  Sourced'
<1>1. PICK was : was = [h \in Held' |-> h]
  OBVIOUS
<1>2. \A h \in Held' : was[h] = h
  BY <1>1
<1>3. \A h \in Held' : /\ was[h] \in Held /\ Content(h)' = Content(was[h])
                       /\ IsFile(h) => was[h] = h
  BY <1>2
<1>4. \A g, h \in Held' : Before(g, h) => Before(was[g], was[h]) \/ Apart(was[g], was[h])
  BY <1>2
<1> QED BY <1>3, <1>4, KeptSources

\* One more file, of a message that has failed, or that is not over and has
\* been cut where the file begins.
LEMMA NewSource ==
  ASSUME Sourced, MoreOver, NEW s, NEW m \in Message, NEW k,
         \A h \in Held' : h = s \/ (h \in Held /\ Content(h)' = Content(h)),
         Source(s, m, k)', m \in broken' \/ (~ Closed(m) /\ k = Taken(m)), s[1] = "file",
         \A h \in Held' : Before(s, h) => IsFile(h) /\ h[2] # Target[m]
  PROVE  Sourced'
<1>1. PICK from, hole : Sources(from, hole)
  BY DEF Sourced
<1>2. PICK from2, hole2 : /\ from2 = [h \in Held' |-> IF h = s THEN m ELSE from[h]]
                          /\ hole2 = [h \in Held' |-> IF h = s THEN k ELSE hole[h]]
  OBVIOUS
<1>3. \A h \in Held' : /\ from2[h] = IF h = s THEN m ELSE from[h]
                       /\ hole2[h] = IF h = s THEN k ELSE hole[h]
  BY <1>2
<1>4. ASSUME NEW h \in Held', h # s
      PROVE  h \in Held /\ Content(h)' = Content(h) /\ Source(h, from[h], hole[h])
  BY <1>1, <1>4 DEF Sources
<1>5. ASSUME NEW h \in Held' PROVE Source(h, from2[h], hole2[h])'
  <2>1. CASE h = s
    <3>1. from2[h] = m /\ hole2[h] = k
      BY <1>3, <2>1
    <3> QED BY <2>1, <3>1
  <2>2. CASE h # s
    <3>1. from2[h] = from[h] /\ hole2[h] = hole[h]
      BY <1>3, <2>2
    <3>2. Source(h, from2[h], hole2[h]) /\ Content(h)' = Content(h)
      BY <1>4, <2>2, <3>1
    <3> QED BY <3>2, SourceStays
  <2> QED BY <2>1, <2>2
<1>6. ASSUME NEW g \in Held', NEW h \in Held', Before(g, h), from2[g] = from2[h]
      PROVE  from2[g] \in broken' \/ (from2[g] \in Cut' /\ Len(Content(g)') <= hole2[h])
  <2>1. CASE g = s
    <3>1. IsFile(h) /\ h[2] # Target[m]
      BY <1>6, <2>1
    <3>2. h # s
      BY <1>6, <2>1, <3>1 DEF Before, IsFile
    <3>3. Source(h, from[h], hole[h]) /\ from[h] = m
      BY <1>3, <1>4, <1>6, <2>1, <3>2
    <3> QED BY <3>1, <3>3 DEF Source
  <2>2. CASE g # s /\ h = s
    <3>1. Source(g, m, hole[g]) /\ Content(g)' = Content(g) /\ from2[g] = m /\ hole2[h] = k
      BY <1>3, <1>4, <1>6, <2>2
    <3>2. Over(m, Len(Content(g)))
      BY <3>1 DEF Source
    <3> QED BY <3>1, <3>2 DEF Over, MoreOver
  <2>3. CASE g # s /\ h # s
    <3>1. /\ g \in Held /\ h \in Held /\ Content(g)' = Content(g) /\ from[g] = from[h]
          /\ from2[g] = from[g] /\ hole2[h] = hole[h]
      BY <1>3, <1>4, <1>6, <2>3
    <3>2. from[g] \in broken \/ (from[g] \in Cut /\ Len(Content(g)) <= hole[h])
      BY <1>1, <1>6, <3>1 DEF Sources
    <3> QED BY <3>1, <3>2 DEF MoreOver
  <2> QED BY <2>1, <2>2, <2>3
<1>7. Sources(from2, hole2)'
  BY <1>5, <1>6 DEF Sources
<1> QED BY <1>7 DEF Sourced

\* A slot is a pair.
LEMMA SlotPair ==
  ASSUME NEW h \in Slot
  PROVE  /\ h = <<h[1], h[2]>> /\ h[1] \in {"delivered", "file"}
         /\ h \in Held <=> Holds(h[1], h[2])
BY DEF Slot, Held

\* Where nothing is delivered, what may be held anew is a file.
LEMMA HeldFiles ==
  ASSUME delivered' = delivered, NEW s,
         \A n : Holds("file", n)' => <<"file", n>> = s \/ (Holds("file", n) /\ files'[n] = files[n])
  PROVE  \A h \in Held' : h = s \/ (h \in Held /\ Content(h)' = Content(h))
<1> SUFFICES ASSUME NEW h \in Held', h # s
             PROVE  h \in Held /\ Content(h)' = Content(h)
  OBVIOUS
<1>1. h \in Slot /\ Holds(h[1], h[2])'
  BY DEF Held, Slot
<1>2. h = <<h[1], h[2]>> /\ h[1] \in {"delivered", "file"} /\ (h \in Held <=> Holds(h[1], h[2]))
  BY <1>1, SlotPair
<1>3. CASE h[1] = "delivered"
  BY <1>1, <1>2, <1>3 DEF Holds, Content
<1>4. CASE h[1] = "file"
  BY <1>1, <1>2, <1>4 DEF Content
<1> QED BY <1>2, <1>3, <1>4

\* Where no file is held anew, nothing is.
LEMMA HeldSame ==
  ASSUME delivered' = delivered,
         \A n : Holds("file", n)' => Holds("file", n) /\ files'[n] = files[n]
  PROVE  \A h \in Held' : h \in Held /\ Content(h)' = Content(h)
<1>1. \A s : \A h \in Held' : h = s \/ (h \in Held /\ Content(h)' = Content(h))
  BY HeldFiles
<1> SUFFICES ASSUME NEW h \in Held' PROVE h \in Held /\ Content(h)' = Content(h)
  OBVIOUS
<1>2. h # <<h>>
  <2>1. h = <<h[1], h[2]>>
    BY SlotPair DEF Held
  <2>2. Len(<<h[1], h[2]>>) = 2 /\ Len(<<h>>) = 1
    OBVIOUS
  <2> QED BY <2>1, <2>2
<1> QED BY <1>1, <1>2

\* A send moves: other files are held as before, and its own where nobody has
\* it open.
LEMMA OneSendHolds ==
  ASSUME PutInv, NEW m \in Message, Alone(m), put' = [put EXCEPT ![m] = put'[m]],
         OnlyAt(Target[m]), DirTypeOK, DirTypeOK', take' = take, NEW n, Holds("file", n)'
  PROVE  \/ Holds("file", n) /\ files'[n] = files[n]
         \/ n = Target[m] /\ ~ Unclosed(put'[m])
<1>1. n \in Name /\ n \in DOMAIN files' /\ \A o \in Message : o # m => put'[o] = put[o]
  BY DEF Holds, DirTypeOK, IsMap, PutInv
<1>2. CASE n = Claimed
  <2>1. Target[m] # n
    BY <1>2, BodyType
  <2> QED BY <1>1, <1>2, <2>1 DEF Holds, OnlyAt
<1>3. CASE n # Claimed /\ n # Target[m]
  <2>1. n \in DOMAIN files /\ files'[n] = files[n]
    BY <1>1, <1>3 DEF OnlyAt
  <2>2. ~ Writing(n)'
    BY <1>3 DEF Holds
  <2>3. ~ Writing(n)
    BY <1>1, <1>3, <2>2 DEF Writing
  <2> QED BY <1>3, <2>1, <2>3 DEF Holds
<1>4. CASE n # Claimed /\ n = Target[m]
  <2>1. ~ Writing(n)'
    BY <1>4 DEF Holds
  <2> QED BY <1>4, <2>1 DEF Writing, Unclosed
<1> QED BY <1>2, <1>3, <1>4

\* A file nobody has open is held.
LEMMA ClosedHeld ==
  ASSUME NEW m \in Message, Alone(m), ~ Unclosed(put[m]), Target[m] \in DOMAIN files
  PROVE  Holds("file", Target[m])
<1>1. \A o \in Message : Target[o] = Target[m] => ~ Unclosed(put[o])
  BY DEF Alone, Unclosed, Idle
<1>2. ~ Writing(Target[m]) /\ Target[m] # Claimed
  BY <1>1, BodyType DEF Writing
<1> QED BY <1>2 DEF Holds

\* Of the sends only one moves: it is over, or fails, or goes on.
LEMMA OneMoves ==
  ASSUME PutInv, CutType, NEW m \in Message, put' = [put EXCEPT ![m] = put'[m]], cut' = cut,
         broken \subseteq broken', Closed(m) => Closed(m)' \/ m \in broken',
         put'[m].fresh = put[m].fresh \/ m \in broken' \/ Attempt(m) \notin DOMAIN cut
  PROVE  MoreOver
<1>1. \A o \in Message : o # m => put'[o] = put[o]
  BY DEF PutInv
<1>2. ASSUME NEW o \in Message, o # m, Closed(o) PROVE Closed(o)'
  BY <1>1, <1>2 DEF Closed
<1>3. \A o \in Message : o # m \/ put'[m].fresh = put[m].fresh =>
        Attempt(o)' = Attempt(o) /\ Taken(o)' = Taken(o)
  BY <1>1, SameAttempt
<1>4. CutType' /\ Cut' = Cut
  BY DEF CutType, Cut
<1>5. \A o \in Message : Taken(o) \in Nat /\ (Attempt(o) \in DOMAIN cut => o \in Cut)
  BY TakenType
<1>6. \A o \in Message : Taken(o)' \in Nat
  BY <1>4, TakenType DEF Taken, CutType, IsMap
<1>7. ASSUME NEW o \in Message, Attempt(o) \in DOMAIN cut
      PROVE  o \in broken' \/ (Attempt(o)' \in DOMAIN cut' /\ Taken(o) <= Taken(o)')
  <2>1. CASE o # m \/ put'[m].fresh = put[m].fresh
    BY <1>3, <1>5, <1>7, <2>1
  <2>2. CASE o = m /\ put'[m].fresh # put[m].fresh
    BY <1>7, <2>2
  <2> QED BY <2>1, <2>2
<1> QED BY <1>2, <1>4, <1>5, <1>6, <1>7 DEF MoreOver

\* A send that neither opens nor closes a file leaves what is held.
LEMMA SendKeepsSources ==
  ASSUME Sourced, MoreOver, PutInv, NEW m \in Message, Alone(m), put' = [put EXCEPT ![m] = put'[m]],
         OnlyAt(Target[m]), DirTypeOK, DirTypeOK', take' = take, delivered' = delivered,
         Unclosed(put'[m]) \/ (files' = files /\ ~ Unclosed(put[m]))
  PROVE  Sourced'
<1>1. ASSUME NEW n, Holds("file", n)' PROVE Holds("file", n) /\ files'[n] = files[n]
  <2>1. CASE n = Target[m] /\ ~ Unclosed(put'[m])
    <3>1. n \in DOMAIN files
      BY <1>1, <2>1 DEF Holds
    <3> QED BY <2>1, <3>1, ClosedHeld
  <2> QED BY <1>1, <2>1, OneSendHolds
<1>2. \A h \in Held' : h \in Held /\ Content(h)' = Content(h)
  BY <1>1, HeldSame
<1> QED BY <1>2, SameSources

\* One that closes its file, or fails on it, makes it held, and of its message.
LEMMA SendMakesSource ==
  ASSUME Sourced, MoreOver, CutType, PutInv, NEW m \in Message, Alone(m),
         put' = [put EXCEPT ![m] = put'[m]], cut' = cut, files' = files,
         DirTypeOK, DirTypeOK', take' = take, delivered' = delivered,
         NEW k, HasFile(m, k), k = Len(Body[m]) \/ m \in broken',
         m \in broken' \/ (Closed(m)' /\ ~ Closed(m))
  PROVE  Sourced'
<1> DEFINE s == <<"file", Target[m]>>
<1>1. OnlyAt(Target[m])
  BY DEF OnlyAt
<1>2. ASSUME NEW n, Holds("file", n)'
      PROVE  <<"file", n>> = s \/ (Holds("file", n) /\ files'[n] = files[n])
  BY <1>1, <1>2, OneSendHolds
<1>3. \A h \in Held' : h = s \/ (h \in Held /\ Content(h)' = Content(h))
  BY <1>2, HeldFiles
<1>4. Target[m] # Claimed /\ s[1] = "file" /\ s[2] = Target[m]
  BY BodyType
<1>5. CASE Target[m] \notin DOMAIN files
  <2>1. s \notin Held'
    BY <1>4, <1>5 DEF Held, Holds
  <2>2. \A h \in Held' : h \in Held /\ Content(h)' = Content(h)
    BY <1>3, <2>1
  <2> QED BY <2>2, SameSources
<1>6. CASE Target[m] \in DOMAIN files
  <2>1. PICK bytes, hole : bytes = files[Target[m]] /\ hole = Taken(m)
    OBVIOUS
  <2>2. Content(s)' = bytes
    BY <1>4, <2>1 DEF Content
  <2>3. Part(bytes, m, hole, Len(bytes)) /\ Len(bytes) = k
    BY <1>6, <2>1 DEF HasFile, Part
  <2>4. m \notin Cut => hole = 0
    BY <2>1, TakenType
  <2>5. Cut' = Cut
    BY DEF Cut
  <2>6. PartOf(bytes, m, hole)'
    BY <2>3, <2>4, <2>5 DEF PartOf
  <2>7. Over(m, Len(bytes))'
    BY DEF Over
  <2>8. Source(s, m, hole)'
    BY <1>4, <2>2, <2>6, <2>7 DEF Source
  <2>9. \A h : ~ Before(s, h)
    BY <1>4 DEF Before
  <2>10. m \in broken' \/ (~ Closed(m) /\ hole = Taken(m))
    BY <2>1
  <2> HIDE DEF s
  <2> QED BY <1>3, <1>4, <2>8, <2>9, <2>10, NewSource
<1> QED BY <1>5, <1>6

\* The answer to a CLOSE finishes a file; every other leaves it open.
LEMMA AnswerSources ==
  ASSUME Sourced, DirTypeOK, DirTypeOK', PutInv, CutType, FileInv, NEW m \in Message, Answer(m)
  PROVE  Sourced'
<1>1. /\ Alone(m) /\ put' = [put EXCEPT ![m] = put'[m]] /\ put'[m].pc = put[m].pc
      /\ put'[m].fresh = put[m].fresh
      /\ put'[m].reply = IF Refused(Asked(m)) THEN "refused" ELSE "ok"
  BY AnswerSends
<1>2. /\ put[m].reply = "asked" /\ put[m].pc \in {"open", "write", "close"}
      /\ put[m].pc = "close" => put[m].sent = Len(Body[m])
  BY DEF Answer, PutInv, SendOK, Puts, Kind, Idle
<1>3. Refused(Asked(m)) => put[m].pc = "write"
  BY DEF Refused, Asked
<1>4. OnlyAt(Target[m]) /\ take' = take /\ delivered' = delivered /\ broken' = broken /\ cut' = cut
  BY AnswerOnlyAt DEF Answer
<1>5. ~ Closed(m)
  BY <1>2 DEF Closed, Put
<1>6. MoreOver
  BY <1>1, <1>4, <1>5, OneMoves
<1>7. CASE put[m].pc \in {"open", "write"}
  <2>1. Unclosed(put'[m])
    BY <1>1, <1>3, <1>7 DEF Unclosed
  <2> QED BY <1>1, <1>4, <1>6, <2>1, SendKeepsSources
<1>8. CASE put[m].pc = "close"
  <2>1. Unclosed(put[m]) /\ LeftBy(m, put[m]) = Len(Body[m])
    BY <1>2, <1>8 DEF Unclosed, LeftBy
  <2>2. HasFile(m, Len(Body[m]))
    BY <2>1 DEF FileInv
  <2>3. files' = files
    BY <1>3, <1>8 DEF Answer, Does, Asked, dirVars
  <2>4. Closed(m)'
    BY <1>1, <1>3, <1>8 DEF Closed, Put
  <2> QED BY <1>1, <1>4, <1>5, <1>6, <2>2, <2>3, <2>4, SendMakesSource
<1> QED BY <1>2, <1>7, <1>8

\* A put that fails leaves a part of its message, of one that failed.
LEMMA FailSources ==
  ASSUME Sourced, DirTypeOK, DirTypeOK', PutInv, CutType, FileInv, NEW m \in Message,
         put[m].reply # "none", Fail(m)
  PROVE  Sourced'
<1>1. Alone(m) /\ put' = [put EXCEPT ![m] = put'[m]]
  BY FailSends
<1>2. /\ files' = files /\ take' = take /\ delivered' = delivered /\ cut' = cut
      /\ broken \subseteq broken' /\ m \in broken' /\ OnlyAt(Target[m])
  BY DEF Fail, dirVars, OnlyAt
<1>3. MoreOver
  BY <1>1, <1>2, OneMoves
<1>4. CASE Unclosed(put[m])
  <2>1. PICK k : k = LeftBy(m, put[m])
    OBVIOUS
  <2>2. HasFile(m, k)
    BY <1>4, <2>1 DEF FileInv
  <2> QED BY <1>1, <1>2, <1>3, <2>2, SendMakesSource
<1>5. CASE ~ Unclosed(put[m])
  BY <1>1, <1>2, <1>3, <1>5, SendKeepsSources
<1> QED BY <1>4, <1>5

\* put goes on with the file it has open, or returns with the one it closed.
LEMMA HearSources ==
  ASSUME Sourced, DirTypeOK, DirTypeOK', PutInv, CutType, NEW m \in Message, Hear(m)
  PROVE  Sourced'
<1>1. /\ Alone(m) /\ put' = [put EXCEPT ![m] = put'[m]] /\ put'[m].fresh = put[m].fresh
      /\ \/ put[m].pc = "open" /\ put'[m].pc = "write" /\ put'[m].reply = "asked"
         \/ put[m].pc = "write" /\ put'[m].pc \in {"write", "close"} /\ put'[m].reply = "asked"
         \/ put[m].pc = "close" /\ put'[m].pc = "done"
  BY HearSends
<1>2. /\ files' = files /\ take' = take /\ delivered' = delivered /\ broken' = broken /\ cut' = cut
      /\ OnlyAt(Target[m]) /\ put[m].reply = "ok"
  BY DEF Hear, dirVars, OnlyAt
<1>3. CASE put[m].pc \in {"open", "write"}
  <2>1. Unclosed(put'[m]) /\ ~ Closed(m)
    BY <1>1, <1>3 DEF Unclosed, Closed, Put
  <2>2. MoreOver
    BY <1>1, <1>2, <2>1, OneMoves
  <2> QED BY <1>1, <1>2, <2>1, <2>2, SendKeepsSources
<1>4. CASE put[m].pc = "close"
  <2>1. Closed(m)' /\ ~ Unclosed(put[m])
    BY <1>1, <1>2, <1>4 DEF Closed, Unclosed
  <2>2. MoreOver
    BY <1>1, <1>2, <2>1, OneMoves
  <2> QED BY <1>1, <1>2, <2>1, <2>2, SendKeepsSources
<1> QED BY <1>1, <1>3, <1>4

\* send_from begins, and touches no file yet.
LEMMA SendSources ==
  ASSUME Sourced, DirTypeOK, DirTypeOK', PutInv, CutType, CutInv, NEW m \in Message, Send(m)
  PROVE  Sourced'
<1>1. Alone(m) /\ put' = [put EXCEPT ![m] = put'[m]]
  BY SendSends
<1>2. /\ files' = files /\ take' = take /\ delivered' = delivered /\ broken' = broken /\ cut' = cut
      /\ OnlyAt(Target[m]) /\ put[m].pc = "idle"
  BY DEF Send, dirVars, OnlyAt
<1>3. ~ Closed(m) /\ ~ Unclosed(put[m])
  BY <1>2 DEF Closed, Put, Unclosed
<1>4. Attempt(m) \notin DOMAIN cut
  BY <1>2 DEF CutInv, MayBeCut, Attempt, PutInv, Puts
<1>5. MoreOver
  BY <1>1, <1>2, <1>3, <1>4, OneMoves
<1> QED BY <1>1, <1>2, <1>3, <1>5, SendKeepsSources

\* Where no send moves, none is over.
LEMMA PutsStay ==
  ASSUME CutType, put' = put, broken' = broken, cut' = cut
  PROVE  MoreOver /\ \A n : Writing(n)' <=> Writing(n)
<1>1. \A m : Attempt(m)' = Attempt(m) /\ Taken(m)' = Taken(m)
  BY SameAttempt
<1>2. \A m : Taken(m) \in Nat /\ (Attempt(m) \in DOMAIN cut => m \in Cut)
  BY TakenType
<1>3. Cut' = Cut /\ \A m : Closed(m)' <=> Closed(m)
  BY DEF Cut, Closed
<1>4. MoreOver
  BY <1>1, <1>2, <1>3 DEF MoreOver
<1> QED BY <1>4 DEF Writing

\* A claim cuts the one that has the file open further.
LEMMA TakeMoreOver ==
  ASSUME DirTypeOK, PutInv, CutType, CutInv, FileInv, NEW n \in Name \ {Claimed}, Take(n)
  PROVE  MoreOver
<1>1. put' = put /\ broken' = broken /\ n \in DOMAIN files
  BY DEF Take, RenameFile, CanRename
<1>2. /\ CutType'
      /\ \A m \in Message : Target[m] # n \/ ~ Unclosed(put[m]) =>
           Attempt(m)' = Attempt(m) /\ Taken(m)' = Taken(m)
           /\ (Attempt(m) \in DOMAIN cut <=> Attempt(m)' \in DOMAIN cut')
      /\ \A m \in Message : Target[m] = n /\ Unclosed(put[m]) =>
           Attempt(m)' \in DOMAIN cut' /\ Taken(m)' = Len(files[n])
      /\ DOMAIN cut \subseteq DOMAIN cut'
  BY TakeCuts
<1>3. Cut \subseteq Cut' /\ \A m : Closed(m)' <=> Closed(m)
  BY <1>1, <1>2 DEF Cut, Closed
<1>4. \A m \in Message : Taken(m) \in Nat /\ (Attempt(m) \in DOMAIN cut => m \in Cut)
  BY TakenType
<1>5. \A m \in Message : Taken(m)' \in Nat
  BY <1>2 DEF Taken, CutType, IsMap
<1>6. ASSUME NEW m \in Message, Attempt(m) \in DOMAIN cut
      PROVE  Attempt(m)' \in DOMAIN cut' /\ Taken(m) <= Taken(m)'
  <2>1. CASE Target[m] # n \/ ~ Unclosed(put[m])
    <3>1. Attempt(m)' \in DOMAIN cut' /\ Taken(m)' = Taken(m) /\ Taken(m) \in Nat
      BY <1>2, <1>4, <1>6, <2>1
    <3> QED BY <3>1
  <2>2. CASE Target[m] = n /\ Unclosed(put[m])
    <3>1. HasFile(m, LeftBy(m, put[m]))
      BY <2>2 DEF FileInv
    <3>2. Taken(m) <= Len(files[n])
      BY <1>1, <2>2, <3>1 DEF HasFile, Part
    <3> QED BY <1>2, <2>2, <3>2
  <2> QED BY <2>1, <2>2
<1> QED BY <1>1, <1>3, <1>4, <1>5, <1>6 DEF MoreOver

\* on_rename: the claimed file is the one nobody had open, or what was written
\* of a message since it was last cut.
LEMMA TakeSources ==
  ASSUME Sourced, DirTypeOK, PutInv, CutType, CutInv, FileInv, TakeType,
         NEW n \in Name \ {Claimed}, Take(n)
  PROVE  Sourced'
<1> DEFINE s == <<"file", Claimed>>
           t == <<"file", n>>
<1>1. /\ n \in DOMAIN files /\ Claimed \notin DOMAIN files
      /\ DOMAIN files' = (DOMAIN files \ {n}) \cup {Claimed} /\ files'[Claimed] = files[n]
      /\ \A k \in DOMAIN files : k # n /\ k # Claimed => files'[k] = files[k]
  BY DEF Take, RenameFile, CanRename, Insert, Without
<1>2. put' = put /\ broken' = broken /\ delivered' = delivered
  BY DEF Take
<1>3. MoreOver
  BY TakeMoreOver
<1>4. \A k : Writing(k)' <=> Writing(k)
  BY <1>2 DEF Writing
<1>5. ASSUME NEW k, Holds("file", k)'
      PROVE  <<"file", k>> = s \/ (Holds("file", k) /\ files'[k] = files[k])
  BY <1>1, <1>4, <1>5 DEF Holds
<1>6. \A h \in Held' : h = s \/ (h \in Held /\ Content(h)' = Content(h))
  BY <1>2, <1>5, HeldFiles
<1>7. Content(s)' = files[n] /\ Content(t) = files[n] /\ s[1] = "file" /\ s[2] = Claimed
      /\ t[1] = "file" /\ t[2] = n /\ n # Claimed
  BY <1>1 DEF Content
<1>8. \A h \in Held' : IsFile(h) => h[2] # n
  BY <1>1 DEF Held, Holds, IsFile
<1>9. ~ IsFile(s) /\ IsFile(t)
  BY <1>7 DEF IsFile
<1>10. CASE Writing(n)
  <2>1. PICK m \in Message : Target[m] = n /\ Unclosed(put[m])
    BY <1>10 DEF Writing
  <2>2. PICK bytes, hole : bytes = files[n] /\ hole = Taken(m)
    OBVIOUS
  <2>3. HasFile(m, LeftBy(m, put[m]))
    BY <2>1 DEF FileInv
  <2>4. Part(bytes, m, hole, Len(bytes))
    BY <1>1, <2>1, <2>2, <2>3 DEF HasFile, Part
  <2>5. Attempt(m)' \in DOMAIN cut' /\ Taken(m)' = Len(bytes) /\ CutType'
    BY <2>1, <2>2, TakeCuts
  <2>6. m \in Cut'
    BY <2>5 DEF Cut, Attempt
  <2>7. Len(bytes) \in Nat
    BY <2>4, LenProperties DEF Part, Bytes
  <2>8. PartOf(bytes, m, hole)'
    BY <2>4, <2>6 DEF PartOf
  <2>9. Over(m, Len(bytes))'
    BY <2>5, <2>7 DEF Over
  <2>10. Source(s, m, hole)'
    BY <1>7, <1>9, <2>2, <2>8, <2>9 DEF Source
  <2>11. ~ Closed(m)
    BY <2>1 DEF Closed, Put, Unclosed
  <2>12. \A h \in Held' : Before(s, h) => IsFile(h) /\ h[2] # Target[m]
    BY <1>7, <1>8, <2>1 DEF Before
  <2> HIDE DEF s
  <2> QED BY <1>3, <1>6, <1>7, <2>2, <2>10, <2>11, <2>12, NewSource
<1>11. CASE ~ Writing(n)
  <2>1. t \in Held
    BY <1>1, <1>11 DEF Held, Slot, Holds
  <2>2. PICK was : was = [h \in Held' |-> IF h = s THEN t ELSE h]
    OBVIOUS
  <2>3. \A h \in Held' : was[h] = IF h = s THEN t ELSE h
    BY <2>2
  <2> HIDE DEF s, t
  <2>4. \A h \in Held' : /\ was[h] \in Held /\ Content(h)' = Content(was[h])
                         /\ IsFile(h) => was[h] = h
    BY <1>6, <1>7, <1>9, <2>1, <2>3
  <2>5. ASSUME NEW g \in Held', NEW h \in Held', Before(g, h)
        PROVE  Before(was[g], was[h]) \/ Apart(was[g], was[h])
    <3>1. CASE g = s
      <4>1. IsFile(h) /\ h # s
        BY <1>7, <1>9, <2>5, <3>1 DEF Before
      <4> QED BY <1>7, <1>8, <1>9, <2>3, <3>1, <4>1 DEF Apart
    <3>2. CASE g # s /\ h = s
      <4>1. g[1] = "delivered"
        BY <1>7, <1>9, <2>5, <3>2 DEF Before
      <4> QED BY <1>7, <2>3, <3>2, <4>1 DEF Before
    <3>3. CASE g # s /\ h # s
      BY <2>3, <2>5, <3>3
    <3> QED BY <3>1, <3>2, <3>3
  <2> QED BY <1>3, <2>4, <2>5, KeptSources
<1> QED BY <1>10, <1>11

\* The receive goes on, or gives up the file it has read.
LEMMA TakingSources ==
  ASSUME Sourced, CutType, UNCHANGED <<put, broken, cut, delivered>>,
         \A n \in DOMAIN files' : n \in DOMAIN files /\ (n # Claimed => files'[n] = files[n]),
         take'.pc \in Claiming => take.pc \in Claiming /\ files' = files
  PROVE  Sourced'
<1>1. MoreOver /\ \A k : Writing(k)' <=> Writing(k)
  BY PutsStay
<1>2. ASSUME NEW k, Holds("file", k)' PROVE Holds("file", k) /\ files'[k] = files[k]
  BY <1>1, <1>2 DEF Holds
<1>3. \A h \in Held' : h \in Held /\ Content(h)' = Content(h)
  BY <1>2, HeldSame
<1> QED BY <1>1, <1>3, SameSources

\* The end of a file: what is delivered is the claimed file.
LEMMA EndSources ==
  ASSUME Sourced, DirTypeOK, CutType, TakeInv, TakeType, ReadAt, delivered' # delivered,
         delivered \in Seq(Bytes)
  PROVE  Sourced'
<1> DEFINE bytes == files[Claimed]
           data == Data(bytes, Len(take.got))
<1>0. PICK k : k = Len(delivered) + 1
  OBVIOUS
<1> DEFINE s == <<"delivered", k>>
           t == <<"file", Claimed>>
<1>1. files' = files /\ put' = put /\ broken' = broken /\ cut' = cut /\ take.pc = "reading"
  BY DEF ReadAt, dirVars
<1>2. /\ Claimed \in DOMAIN files /\ bytes \in Bytes /\ take.got \in Bytes
      /\ Len(take.got) <= Len(bytes) /\ \A i \in 1 .. Len(take.got) : take.got[i] = bytes[i]
  BY <1>1 DEF TakeInv, TakeType, Claiming, DirTypeOK, IsMap
<1>3. data = <<>> => take.got = bytes
  BY <1>2, ReadOn
<1>4. data = <<>> /\ take' = [take EXCEPT !.pc = "ended"] /\ delivered' = Append(delivered, take.got)
  BY <1>2 DEF ReadAt
<1> HIDE DEF data
<1>5. delivered' = Append(delivered, bytes) /\ take'.pc = "ended"
  BY <1>3, <1>4 DEF TakeType
<1>6. /\ k \in Nat /\ DOMAIN delivered = 1 .. Len(delivered) /\ Len(delivered) \in Nat
      /\ DOMAIN delivered' = 1 .. Len(delivered) + 1 /\ delivered'[k] = bytes
      /\ \A i \in 1 .. Len(delivered) : delivered'[i] = delivered[i]
  BY <1>0, <1>2, <1>5, AppendProperties, LenProperties
<1>7. MoreOver /\ \A n : Writing(n)' <=> Writing(n)
  BY <1>1, PutsStay
<1>8. t \in Held
  BY <1>1, <1>2, TransferAssumption DEF Held, Slot, Holds, Claiming
<1>9. t \notin Held'
  BY <1>5 DEF Held, Holds, Claiming
<1>10. ASSUME NEW h \in Held', h # s PROVE h \in Held /\ Content(h)' = Content(h)
  <2>1. h \in Slot /\ Holds(h[1], h[2])'
    BY DEF Held, Slot
  <2>2. h = <<h[1], h[2]>> /\ h[1] \in {"delivered", "file"} /\ (h \in Held <=> Holds(h[1], h[2]))
    BY <2>1, SlotPair
  <2>3. CASE h[1] = "delivered"
    <3>1. h[2] # k
      BY <1>10, <2>2, <2>3
    <3>2. h[2] \in 1 .. Len(delivered)
      BY <1>0, <1>6, <2>1, <2>3, <3>1 DEF Holds
    <3> QED BY <1>6, <2>2, <2>3, <3>2 DEF Holds, Content
  <2>4. CASE h[1] = "file"
    BY <1>1, <1>5, <1>7, <2>1, <2>2, <2>4 DEF Holds, Content, Claiming
  <2> QED BY <2>2, <2>3, <2>4
<1>11. Content(s)' = Content(t)
  <2>1. Content(s)' = delivered'[k]
    BY DEF Content
  <2> QED BY <1>6, <2>1 DEF Content
<1>12. s[1] = "delivered" /\ s[2] = k /\ t[1] = "file" /\ t[2] = Claimed
  OBVIOUS
<1>13. PICK was : was = [h \in Held' |-> IF h = s THEN t ELSE h]
  OBVIOUS
<1>14. \A h \in Held' : was[h] = IF h = s THEN t ELSE h
  BY <1>13
<1>15. ASSUME NEW h \in Held', h # s
       PROVE  \/ h[1] = "delivered" /\ h[2] \in Nat /\ h[2] < k
              \/ IsFile(h)
  <2>1. h \in Held /\ h \in Slot
    BY <1>10, <1>15 DEF Held
  <2>2. h = <<h[1], h[2]>> /\ h[1] \in {"delivered", "file"} /\ Holds(h[1], h[2])
    BY <2>1, SlotPair
  <2>3. CASE h[1] = "delivered"
    <3>1. h[2] \in 1 .. Len(delivered)
      BY <1>6, <2>2, <2>3 DEF Holds
    <3>2. h[2] \in Nat /\ h[2] < k
      BY <1>0, <1>6, <3>1
    <3> QED BY <2>3, <3>2
  <2>4. CASE h[1] = "file"
    BY <1>9, <1>15, <2>2, <2>4 DEF IsFile
  <2> QED BY <2>2, <2>3, <2>4
<1> HIDE DEF s, t
<1>16. \A h \in Held' : /\ was[h] \in Held /\ Content(h)' = Content(was[h])
                        /\ IsFile(h) => was[h] = h
  BY <1>8, <1>10, <1>11, <1>12, <1>14 DEF IsFile
<1>17. ASSUME NEW g \in Held', NEW h \in Held', Before(g, h)
       PROVE  Before(was[g], was[h])
  <2>1. CASE g = s
    <3>0. h[1] = "file" \/ (h[1] = "delivered" /\ k < h[2])
      BY <1>12, <1>17, <2>1 DEF Before
    <3>1. h # s
      BY <1>6, <1>12, <3>0
    <3>2. IsFile(h)
      BY <1>6, <1>15, <3>0, <3>1 DEF IsFile
    <3> QED BY <1>12, <1>14, <2>1, <3>1, <3>2 DEF Before
  <2>2. CASE g # s /\ h = s
    <3>1. g[1] = "delivered"
      BY <1>12, <1>17, <2>2 DEF Before, IsFile
    <3> QED BY <1>12, <1>14, <2>2, <3>1 DEF Before
  <2>3. CASE g # s /\ h # s
    BY <1>14, <1>17, <2>3
  <2> QED BY <2>1, <2>2, <2>3
<1> QED BY <1>7, <1>16, <1>17, KeptSources

OnceInv == ~ belated => Sourced

\* Every step but the answer to a request given up keeps each file of a
\* message of its own.
LEMMA OnceStep == WholeInv /\ OnceInv /\ [Next]_vars => OnceInv'
<1> SUFFICES ASSUME WholeInv, OnceInv, [Next]_vars, ~ belated' PROVE Sourced'
  BY DEF OnceInv
<1>1. DirTypeOK /\ PutInv /\ CutType /\ CutInv /\ delivered \in Seq(Bytes) /\ TakeType
  BY DEF WholeInv, BaseInv, TypeOK, CutType, TakeType
<1>2. DirTypeOK'
  BY BaseStep DEF WholeInv, BaseInv, TypeOK
<1>3. ~ belated
  BY DEF Next, Send, Putting, Answer, Hear, PutFails, GiveUp, Fail, AnswerLate, Take, Taking,
         OpenRead, ReadAt, Accept, vars
<1>4. Sourced /\ FileInv /\ TakeInv
  BY <1>3 DEF OnceInv, WholeInv
<1>5. ASSUME NEW m \in Message, Send(m) \/ Putting(m) PROVE Sourced'
  <2>1. CASE PutFails(m) \/ GiveUp(m)
    BY <1>1, <1>2, <1>4, <2>1, FailSources DEF PutFails, GiveUp
  <2> QED BY <1>1, <1>2, <1>4, <1>5, <2>1, SendSources, AnswerSources, HearSources DEF Putting
<1>6. ASSUME NEW r \in late, AnswerLate(r) PROVE FALSE
  BY <1>6 DEF AnswerLate
<1>7. ASSUME NEW n \in Name \ {Claimed}, Take(n) PROVE Sourced'
  BY <1>1, <1>4, <1>7, TakeSources
<1>8. CASE OpenRead
  <2>1. UNCHANGED <<files, put, broken, cut, delivered>> /\ take.pc \in Claiming
    BY <1>8 DEF OpenRead, dirVars, Claiming
  <2> QED BY <1>1, <1>4, <2>1, TakingSources
<1>9. CASE ReadAt
  <2>1. CASE delivered' # delivered
    BY <1>1, <1>4, <1>9, <2>1, EndSources
  <2>2. CASE delivered' = delivered
    <3>1. UNCHANGED <<files, put, broken, cut, delivered>> /\ take.pc \in Claiming
      BY <1>9, <2>2 DEF ReadAt, dirVars, Claiming
    <3> QED BY <1>1, <1>4, <3>1, TakingSources
  <2> QED BY <2>1, <2>2
<1>10. CASE Accept
  <2>1. /\ UNCHANGED <<put, broken, cut, delivered>> /\ take'.pc = "none"
        /\ \A n \in DOMAIN files' : n \in DOMAIN files /\ (n # Claimed => files'[n] = files[n])
    BY <1>10 DEF Accept, NotTaking, RemoveFile, Without
  <2> QED BY <1>1, <1>4, <2>1, TakingSources DEF Claiming
<1>11. CASE UNCHANGED vars
  <2>1. UNCHANGED <<files, put, broken, cut, delivered, take>>
    BY <1>11 DEF vars, dirVars
  <2> QED BY <1>1, <1>4, <2>1, TakingSources
<1> QED BY <1>5, <1>6, <1>7, <1>8, <1>9, <1>10, <1>11 DEF Next, Taking

\* Until such an answer each file is of a message.
LEMMA OnceHolds == Spec => [](TypeOK /\ OnceInv)
<1>1. Init => OnceInv
  <2> SUFFICES ASSUME Init PROVE Sourced
    BY DEF OnceInv
  <2>0. DOMAIN files = {} /\ DOMAIN delivered = {}
    BY DEF Init
  <2>1. \A h : h \notin Held
    BY <2>0 DEF Held, Holds
  <2>2. Sources(<<>>, <<>>)
    BY <2>1 DEF Sources
  <2> QED BY <2>2 DEF Sourced
<1> QED BY <1>1, OnceStep, WholeHolds, TransferTypeCorrect, PTL DEF Spec

\* What is delivered is held.
LEMMA DeliveredHeld ==
  ASSUME TypeOK, NEW from, NEW hole, Sources(from, hole), NEW i \in DOMAIN delivered
  PROVE  LET h == <<"delivered", i>>
         IN  /\ h \in Held /\ Content(h) = delivered[i] /\ i \in Nat
             /\ from[h] \in Message /\ hole[h] \in 0 .. Len(delivered[i])
             /\ Of(delivered[i], from[h], hole[h])
<1> DEFINE h == <<"delivered", i>>
<1>1. i \in Nat /\ delivered[i] \in Bytes
  BY LenProperties, ElementOfSeq DEF TypeOK
<1>2. h \in Held /\ Content(h) = delivered[i]
  BY <1>1 DEF Held, Slot, Holds, Content
<1>3. Source(h, from[h], hole[h])
  BY <1>2 DEF Sources
<1> HIDE DEF h
<1>4. from[h] \in Message /\ PartOf(delivered[i], from[h], hole[h])
  BY <1>2, <1>3 DEF Source
<1>5. hole[h] \in 0 .. Len(delivered[i])
  <2>1. Len(delivered[i]) \in Nat
    BY <1>1, LenProperties DEF Bytes
  <2> QED BY <1>4, <2>1 DEF PartOf, Part
<1>6. Of(delivered[i], from[h], hole[h])
  BY <1>4 DEF PartOf, Part, Of, IsPart
<1> QED BY <1>1, <1>2, <1>4, <1>5, <1>6 DEF h

\* What a receiver reads to its end is of one message: whole, but for one that
\* failed or that was claimed as it was written, with the same exception: the
\* READs of read_at neither skip nor repeat, and no file is of two messages.
THEOREM ReceivedIsWhole == Spec => []DeliveredWhole
<1>1. TypeOK /\ OnceInv => DeliveredWhole
  <2> SUFFICES ASSUME TypeOK, Sourced, NEW i \in DOMAIN delivered
               PROVE  \E m \in Message, hole \in 0 .. Len(delivered[i]) : Of(delivered[i], m, hole)
    BY DEF OnceInv, DeliveredWhole
  <2>1. PICK from, hole : Sources(from, hole)
    BY DEF Sourced
  <2>2. \E h : /\ from[h] \in Message /\ hole[h] \in 0 .. Len(delivered[i])
               /\ Of(delivered[i], from[h], hole[h])
    BY <2>1, DeliveredHeld
  <2> QED BY <2>2
<1> QED BY <1>1, OnceHolds, PTL

\* Each file received is of a message of its own, but for a message of which an
\* attempt failed (the pool's second exchange) and one claimed as it was
\* written, no byte of which is received twice; unless a request given up is
\* answered late.
THEOREM ReceivedOnce == Spec => []OnceUnlessBroken
<1>1. TypeOK /\ OnceInv => OnceUnlessBroken
  <2> DEFINE Places == UNION {0 .. Len(delivered[i]) : i \in DOMAIN delivered}
  <2> SUFFICES ASSUME TypeOK, Sourced
               PROVE  \E from \in [DOMAIN delivered -> Message], hole \in [DOMAIN delivered -> Places] :
                        /\ \A i \in DOMAIN delivered :
                             hole[i] <= Len(delivered[i]) /\ Of(delivered[i], from[i], hole[i])
                        /\ \A i, j \in DOMAIN delivered : i < j /\ from[i] = from[j] =>
                             \/ from[i] \in broken
                             \/ from[i] \in Cut /\ Len(delivered[i]) <= hole[j]
    BY DEF OnceInv, OnceUnlessBroken
  <2>1. PICK src, at : Sources(src, at)
    BY DEF Sourced
  <2> DEFINE D(i) == <<"delivered", i>>
             from == [i \in DOMAIN delivered |-> src[D(i)]]
             hole == [i \in DOMAIN delivered |-> at[D(i)]]
  <2>2. \A i \in DOMAIN delivered : from[i] = src[D(i)] /\ hole[i] = at[D(i)]
    OBVIOUS
  <2>3. ASSUME NEW i \in DOMAIN delivered
        PROVE  /\ D(i) \in Held /\ Content(D(i)) = delivered[i] /\ i \in Nat
               /\ src[D(i)] \in Message /\ at[D(i)] \in 0 .. Len(delivered[i])
               /\ Of(delivered[i], src[D(i)], at[D(i)])
    BY <2>1, DeliveredHeld
  <2>4. from \in [DOMAIN delivered -> Message]
    BY <2>3
  <2>5. hole \in [DOMAIN delivered -> Places]
    BY <2>3
  <2>6. \A i \in DOMAIN delivered : Len(delivered[i]) \in Nat
    BY LenProperties, ElementOfSeq DEF TypeOK, Bytes
  <2>7. ASSUME NEW i \in DOMAIN delivered, NEW j \in DOMAIN delivered, i < j, from[i] = from[j]
        PROVE  from[i] \in broken \/ (from[i] \in Cut /\ Len(delivered[i]) <= hole[j])
    <3>1. Before(D(i), D(j))
      BY <2>7 DEF Before
    <3>2. D(i) \in Held /\ D(j) \in Held /\ Content(D(i)) = delivered[i] /\ src[D(i)] = src[D(j)]
      BY <2>2, <2>3, <2>7
    <3>3. src[D(i)] \in broken \/ (src[D(i)] \in Cut /\ Len(Content(D(i))) <= at[D(j)])
      BY <2>1, <3>1, <3>2 DEF Sources
    <3> QED BY <2>2, <3>2, <3>3
  <2>8. ASSUME NEW i \in DOMAIN delivered
        PROVE  hole[i] <= Len(delivered[i]) /\ Of(delivered[i], from[i], hole[i])
    <3>1. /\ at[D(i)] \in 0 .. Len(delivered[i]) /\ Of(delivered[i], src[D(i)], at[D(i)])
          /\ Len(delivered[i]) \in Nat
      BY <2>3, <2>6
    <3>2. \A k \in Nat : \A p \in 0 .. k : p <= k
      OBVIOUS
    <3>3. at[D(i)] <= Len(delivered[i])
      BY <3>1, <3>2
    <3> QED BY <2>2, <3>1, <3>3
  <2> HIDE DEF from, hole
  <2> QED BY <2>4, <2>5, <2>7, <2>8
<1> QED BY <1>1, OnceHolds, PTL

-----------------------------------------------------------------------------
(***************************************************************************)
(* Bytes in their place, however late a request is answered.               *)
(***************************************************************************)
Placed(bytes) ==
  \A k \in DOMAIN bytes :
    bytes[k] = 0 \/ \E m \in Message : k <= Len(Body[m]) /\ bytes[k] = Body[m][k]

\* on_write: a piece at its offset, over whatever is there.
LEMMA WritePlaces ==
  ASSUME NEW m \in Message, NEW at \in Nat, at <= Len(Body[m]), NEW bytes \in Bytes, Placed(bytes)
  PROVE  Placed(Overwritten(bytes, at, Piece(m, at)))
<1> DEFINE piece == Piece(m, at)
           out == Overwritten(bytes, at, piece)
<1>1. /\ Len(piece) \in Nat /\ at + Len(piece) <= Len(Body[m])
      /\ \A i \in 1 .. Len(piece) : piece[i] = Body[m][at + i]
  BY PieceType DEF Past
<1>2. Len(bytes) \in Nat /\ DOMAIN bytes = 1 .. Len(bytes)
  BY LenProperties DEF Bytes
<1> HIDE DEF piece
<1>3. DOMAIN out = 1 .. MaxOf(Len(bytes), at + Len(piece))
  BY DEF Overwritten
<1>4. MaxOf(Len(bytes), at + Len(piece)) \in Nat
  BY <1>1, <1>2 DEF MaxOf
<1>5. ASSUME NEW k \in DOMAIN out
      PROVE  out[k] = 0 \/ \E o \in Message : k <= Len(Body[o]) /\ out[k] = Body[o][k]
  <2>1. out[k] = IF at < k /\ k <= at + Len(piece) THEN piece[k - at]
                 ELSE IF k <= Len(bytes) THEN bytes[k] ELSE 0
    BY <1>3 DEF Overwritten
  <2>2. k \in Nat /\ k >= 1
    BY <1>3, <1>4
  <2> HIDE DEF out
  <2>3. CASE at < k /\ k <= at + Len(piece)
    <3>1. k - at \in 1 .. Len(piece) /\ at + (k - at) = k
      BY <1>1, <2>2, <2>3
    <3>2. out[k] = Body[m][k]
      BY <1>1, <2>1, <2>3, <3>1
    <3>3. Len(Body[m]) \in Nat
      BY BodyType
    <3>4. k <= Len(Body[m])
      BY <1>1, <2>2, <2>3, <3>3
    <3> QED BY <3>2, <3>4
  <2>4. CASE ~ (at < k /\ k <= at + Len(piece)) /\ k <= Len(bytes)
    <3>1. k \in DOMAIN bytes /\ out[k] = bytes[k]
      BY <1>2, <2>1, <2>2, <2>4
    <3> QED BY <3>1 DEF Placed
  <2>5. CASE ~ (at < k /\ k <= at + Len(piece)) /\ ~ (k <= Len(bytes))
    BY <2>1, <2>5
  <2> QED BY <2>3, <2>4, <2>5
<1> QED BY <1>5 DEF Placed, piece

\* InPlace, file by file.
LEMMA InPlaceIs == InPlace <=> \A n \in DOMAIN files : Placed(files[n])
BY DEF InPlace, Placed

\* A file put in, and one moved.
LEMMA InsertPlaced ==
  ASSUME \A n \in DOMAIN files : Placed(files[n]), NEW key, NEW bytes, Placed(bytes),
         NEW from, files' = Insert(files, key, bytes) \/ files' = Insert(Without(files, from), key, bytes)
  PROVE  \A n \in DOMAIN files' : Placed(files'[n])
<1>1. CASE files' = Insert(files, key, bytes)
  <2>1. \A n \in DOMAIN files' : (n = key /\ files'[n] = bytes) \/ (n \in DOMAIN files /\ files'[n] = files[n])
    BY <1>1 DEF Insert
  <2> QED BY <2>1
<1>2. CASE files' = Insert(Without(files, from), key, bytes)
  <2>1. \A n \in DOMAIN files' : (n = key /\ files'[n] = bytes) \/ (n \in DOMAIN files /\ files'[n] = files[n])
    BY <1>2 DEF Insert, Without
  <2> QED BY <2>1
<1> QED BY <1>1, <1>2

\* Any request, answered in time or late.
LEMMA DoesPlaces ==
  ASSUME DirTypeOK, NEW r \in Request, r.at <= Len(Body[r.of]), Does(r), InPlace
  PROVE  InPlace'
<1>1. r.of \in Message /\ r.at \in Nat
  BY DEF Request
<1>2. \A n \in DOMAIN files : Placed(files[n])
  BY InPlaceIs
<1>3. Placed(<<>>) /\ <<>> \in Bytes
  BY DEF Placed, Bytes
<1>4. ASSUME NEW bytes, Placed(bytes), files' = Insert(files, Target[r.of], bytes) PROVE InPlace'
  <2>1. \A n \in DOMAIN files' : Placed(files'[n])
    BY <1>2, <1>4, InsertPlaced
  <2> QED BY <2>1 DEF InPlace, Placed
<1>5. CASE files' = Insert(files, Target[r.of], <<>>)
  BY <1>3, <1>4, <1>5
<1>6. CASE LET held == IF Target[r.of] \in DOMAIN files THEN files[Target[r.of]] ELSE <<>>
           IN  files' = Insert(files, Target[r.of], Overwritten(held, r.at, Piece(r.of, r.at)))
  <2> DEFINE held == IF Target[r.of] \in DOMAIN files THEN files[Target[r.of]] ELSE <<>>
  <2>1. held \in Bytes /\ Placed(held)
    <3>1. Target[r.of] \in DOMAIN files => files[Target[r.of]] \in Bytes /\ Placed(files[Target[r.of]])
      BY <1>2 DEF DirTypeOK, IsMap
    <3> QED BY <1>3, <3>1
  <2>2. files' = Insert(files, Target[r.of], Overwritten(held, r.at, Piece(r.of, r.at)))
    BY <1>6
  <2> HIDE DEF held
  <2>3. Placed(Overwritten(held, r.at, Piece(r.of, r.at)))
    BY <1>1, <2>1, WritePlaces
  <2> QED BY <1>4, <2>2, <2>3
<1>7. CASE files' = files
  <2>1. \A n \in DOMAIN files' : Placed(files'[n])
    BY <1>2, <1>7
  <2> QED BY <2>1 DEF InPlace, Placed
<1> QED BY <1>5, <1>6, <1>7, DoesFiles

\* Every step, late answers included, keeps the bytes in their place.
LEMMA PlaceStep == BaseInv /\ InPlace /\ [Next]_vars => InPlace'
<1> SUFFICES ASSUME BaseInv, InPlace, [Next]_vars PROVE InPlace'
  OBVIOUS
<1>1. DirTypeOK /\ PutInv /\ LateInv
  BY DEF BaseInv, TypeOK
<1>2. CASE files' = files
  BY <1>2 DEF InPlace
<1>3. ASSUME NEW m \in Message, Answer(m) PROVE InPlace'
  <2>1. Asked(m) \in Request /\ Asked(m).at <= Len(Body[Asked(m).of]) /\ Does(Asked(m))
    BY <1>1, <1>3, AskedType DEF Answer
  <2> QED BY <1>1, <2>1, DoesPlaces
<1>4. ASSUME NEW r \in late, AnswerLate(r) PROVE InPlace'
  <2>1. r \in Request /\ r.at <= Len(Body[r.of]) /\ Does(r)
    BY <1>1, <1>4 DEF LateInv, AnswerLate
  <2> QED BY <1>1, <2>1, DoesPlaces
<1>5. ASSUME NEW n \in Name \ {Claimed}, Take(n) PROVE InPlace'
  <2>1. n \in DOMAIN files /\ files' = Insert(Without(files, n), Claimed, files[n])
    BY <1>5 DEF Take, RenameFile, CanRename
  <2>2. \A k \in DOMAIN files : Placed(files[k])
    BY InPlaceIs
  <2>3. \A k \in DOMAIN files' : Placed(files'[k])
    BY <2>1, <2>2, InsertPlaced
  <2> QED BY <2>3 DEF InPlace, Placed
<1>6. CASE Accept
  <2>1. files' = Without(files, Claimed)
    BY <1>6 DEF Accept, RemoveFile
  <2>2. \A k \in DOMAIN files' : k \in DOMAIN files /\ files'[k] = files[k]
    BY <2>1 DEF Without
  <2> QED BY <2>2 DEF InPlace
<1>7. ASSUME NEW m \in Message, Send(m) \/ Hear(m) \/ PutFails(m) \/ GiveUp(m) PROVE InPlace'
  BY <1>2, <1>7 DEF Send, Hear, PutFails, GiveUp, Fail, dirVars
<1>8. CASE OpenRead \/ ReadAt \/ UNCHANGED vars
  BY <1>2, <1>8 DEF OpenRead, ReadAt, vars, dirVars
<1> QED BY <1>3, <1>4, <1>5, <1>6, <1>7, <1>8 DEF Next, Putting, Taking

\* However late a request is answered, a byte of a file is the one a message
\* has in that place, or the zero on_write fills a hole with.
THEOREM BytesStayInPlace == Spec => []InPlace
<1>1. Init => InPlace
  BY DEF Init, InPlace
<1> QED BY <1>1, BaseStart, BaseStep, PlaceStep, PTL DEF Spec
=============================================================================
