-------------------------- MODULE ConnectionProofs ---------------------------
(***************************************************************************)
(* What TLAPS proves of the kept connections, for any number of callers    *)
(* and connections: the types, that a client is in one place, and that it  *)
(* is back when its harvest says so.  OneHolder is inductive once it is    *)
(* known that harvest's early return never puts a client back              *)
(* (OtherNotHere): what it displaced was lent or broken.                   *)
(***************************************************************************)
EXTENDS Connection, TLAPS

USE ConnectionAssumption

OtherNotHere == \A p \in Caller : caller[p].other # "here"

HolderInv == TypeOK /\ OneHolder /\ OtherNotHere

LEMMA InitHolderInv == Init => HolderInv
BY DEF Init, HolderInv, TypeOK, OneHolder, OtherNotHere, Holds, Without, NoThread,
       Line, Callers, Threads, CallerState, ThreadState, Exchanging

\* A caller that moves on keeps its type and never holds a client aside.
LEMMA CallerMoves ==
  ASSUME HolderInv, NEW p \in Caller, NEW r \in Callers, r.other # "here",
         caller' = [caller EXCEPT ![p] = r]
  PROVE  caller' \in [Caller -> Callers] /\ OtherNotHere'
BY DEF HolderInv, TypeOK, OtherNotHere

\* What a caller may become, of a caller that is well-typed.
LEMMA CallerBecomes ==
  ASSUME HolderInv, NEW p \in Caller
  PROVE  /\ \A c \in Conn, fresh \in BOOLEAN :
              /\ Handed(caller[p].job, c, fresh) \in Callers
              /\ Handed(caller[p].job, c, fresh).other # "here"
         /\ \A pc \in CallerState \ Exchanging, job \in {"send", "receive"} :
              Without(pc, job) \in Callers /\ Without(pc, job).other # "here"
         /\ \A pc \in CallerState \ Exchanging :
              /\ Without(pc, caller[p].job) \in Callers
              /\ Without(pc, caller[p].job).other # "here"
<1>1. caller[p].job \in {"send", "receive"}
  BY DEF HolderInv, TypeOK, Callers
<1> QED BY <1>1 DEF HolderInv, TypeOK, OtherNotHere, Callers, Handed, Without, CallerState,
                    Exchanging, Line

\* Steps that leave the threads alone and put no client on a line.
LEMMA LineKeeps ==
  ASSUME HolderInv, thread' = thread, \A c \in Conn : line'[c] = "here" => line[c] = "here"
  PROVE  OneHolder'
BY DEF HolderInv, TypeOK, OneHolder, Holds, Threads

LEMMA PoolSteps ==
  ASSUME HolderInv, NEW p \in Caller, met' \in [Caller -> BOOLEAN],
         \/ \E job \in {"send", "receive"} : Begin(p, job)
         \/ \E c \in Conn : PoolTake(p, c) \/ PoolOpen(p, c)
         \/ PoolOpenFails(p)
  PROVE  HolderInv'
<1> USE DEF HolderInv
<1>0. {"idle", "exchange", "open", "arrivals", "finishing"} \subseteq CallerState \ Exchanging
  BY DEF CallerState, Exchanging
<1>1. ASSUME NEW job \in {"send", "receive"}, Begin(p, job)
      PROVE  HolderInv'
  <2>1. caller' \in [Caller -> Callers] /\ OtherNotHere'
    BY <1>0, <1>1, CallerMoves, CallerBecomes DEF Begin
  <2> QED BY <1>1, <2>1, LineKeeps DEF Begin, TypeOK
<1>2. ASSUME NEW c \in Conn, PoolTake(p, c)
      PROVE  HolderInv'
  <2>1. caller' \in [Caller -> Callers] /\ OtherNotHere'
    <3>1. CASE caller' = [caller EXCEPT ![p] = Handed(caller[p].job, c, FALSE)]
      BY <3>1, CallerMoves, CallerBecomes
    <3>2. CASE Leaves(p, "open")
      BY <1>0, <3>2, CallerMoves, CallerBecomes DEF Leaves
    <3> QED BY <1>2, <3>1, <3>2 DEF PoolTake
  <2> QED BY <1>2, <2>1, LineKeeps DEF PoolTake, TypeOK
<1>3. ASSUME NEW c \in Conn, PoolOpen(p, c)
      PROVE  HolderInv'
  <2>1. caller' \in [Caller -> Callers] /\ OtherNotHere'
    BY <1>3, CallerMoves, CallerBecomes DEF PoolOpen
  <2>2. OneHolder'
    BY <1>3 DEF PoolOpen, Free, TypeOK, OneHolder, Holds
  <2> QED BY <1>3, <2>1, <2>2 DEF PoolOpen, TypeOK, Line
<1>4. ASSUME PoolOpenFails(p)
      PROVE  HolderInv'
  <2>1. caller' \in [Caller -> Callers] /\ OtherNotHere'
    BY <1>0, <1>4, CallerMoves, CallerBecomes DEF PoolOpenFails, Leaves
  <2> QED BY <1>4, <2>1, LineKeeps DEF PoolOpenFails, TypeOK
<1> QED BY <1>1, <1>2, <1>3, <1>4

\* The pool's verdict on an exchange whose act has returned.
LEMMA ReturnSteps ==
  ASSUME HolderInv, NEW p \in Caller, caller[p].pc \in Exchanging,
         NEW retryable \in BOOLEAN,
         Succeeds(p, "idle") \/ Succeeds(p, "arrivals") \/ Fails(p, retryable)
  PROVE  kept' \subseteq Conn /\ caller' \in [Caller -> Callers] /\ OtherNotHere'
<1>1. caller[p].conn \in Conn
  BY DEF HolderInv, TypeOK, Callers
<1>2. {"idle", "open", "arrivals"} \subseteq CallerState \ Exchanging
  BY DEF CallerState, Exchanging
<1>3. kept' \subseteq Conn
  BY <1>1 DEF Succeeds, Fails, HolderInv, TypeOK
<1>4. PICK pc \in {"idle", "open", "arrivals"} : Leaves(p, pc)
  BY DEF Succeeds, Fails
<1>5. caller' \in [Caller -> Callers] /\ OtherNotHere'
  BY <1>2, <1>4, CallerMoves, CallerBecomes DEF Leaves
<1> QED BY <1>3, <1>5

LEMMA ExchangeSteps ==
  ASSUME HolderInv, NEW p \in Caller, met' \in [Caller -> BOOLEAN],
         Send(p) \/ Harvest(p) \/ Restore(p) \/ Recheck(p) \/ Listed(p)
           \/ LastVerdict(p) \/ Finished(p)
  PROVE  HolderInv'
<1> USE DEF HolderInv
<1>0. /\ caller[p] \in Callers /\ caller[p].other # "here"
      /\ caller[p].pc \in Exchanging => caller[p].conn \in Conn
  BY DEF TypeOK, OtherNotHere, Callers
<1>1. CASE Send(p)
  <2>1. caller[p].pc \in Exchanging
    BY <1>1 DEF Send, At, Exchanging
  <2>2. kept' \subseteq Conn /\ caller' \in [Caller -> Callers] /\ OtherNotHere'
    BY <1>1, <2>1, ReturnSteps DEF Send, WithRefused
  <2> QED BY <1>1, <2>2, LineKeeps DEF Send, TypeOK
<1>2. CASE At(p, "act") /\ Lend(p)
  <2>1. caller[p].pc \in Exchanging
    BY <1>2 DEF At, Exchanging
  <2>2. CASE Fails(p, FALSE) /\ UNCHANGED thread
    <3>1. kept' \subseteq Conn /\ caller' \in [Caller -> Callers] /\ OtherNotHere'
      BY <2>1, <2>2, ReturnSteps
    <3>2. line' \in [Conn -> Line] /\ \A c \in Conn : line'[c] = "here" => line[c] = "here"
      BY <1>2 DEF Lend, TypeOK, Line
    <3> QED BY <1>2, <2>2, <3>1, <3>2, LineKeeps DEF Lend, TypeOK
  <2>3. CASE /\ thread' = [thread EXCEPT ![p] = [pc |-> "listing", conn |-> caller[p].conn,
                                                 some |-> FALSE]]
             /\ Goes(p, "listed")
             /\ UNCHANGED kept
    <3>1. [caller[p] EXCEPT !.pc = "listed"] \in Callers
      BY <1>0, <2>1 DEF Callers, CallerState, Exchanging
    <3>2. [caller[p] EXCEPT !.pc = "listed"].other # "here"
      BY <1>0 DEF Callers
    <3>3. caller' \in [Caller -> Callers] /\ OtherNotHere'
      BY <2>3, <3>1, <3>2, CallerMoves DEF Goes
    <3>4. thread' \in [Caller -> Threads]
      BY <1>0, <2>1, <2>3 DEF TypeOK, Threads, ThreadState
    <3>5. line' \in [Conn -> Line]
      BY <1>2 DEF Lend, TypeOK, Line
    <3>6. OneHolder'
      BY <1>0, <1>2, <2>1, <2>3 DEF Lend, TypeOK, OneHolder, Holds
    <3> QED BY <1>2, <2>3, <3>3, <3>4, <3>5, <3>6 DEF Lend, TypeOK
  <2> QED BY <1>2, <2>2, <2>3 DEF Lend
<1>3. CASE At(p, "act") /\ Displace(p)
  <2> DEFINE r == [caller[p] EXCEPT !.pc = "restore", !.other = line[caller[p].conn]]
  <2>1. line[caller[p].conn] \in Line /\ line[caller[p].conn] # "here"
    BY <1>0, <1>3 DEF Displace, TypeOK, At, Exchanging
  <2>2. r \in Callers /\ r.other # "here"
    BY <1>0, <1>3, <2>1 DEF Callers, CallerState, Exchanging, At
  <2>3. caller' \in [Caller -> Callers] /\ OtherNotHere'
    BY <1>3, <2>2, CallerMoves DEF Displace
  <2>4. line' \in [Conn -> Line] /\ \A c \in Conn : line'[c] = "here" => line[c] = "here"
    BY <1>3 DEF Displace, TypeOK, Line
  <2> QED BY <1>3, <2>3, <2>4, LineKeeps DEF Displace, TypeOK
<1>4. CASE Restore(p)
  <2> DEFINE r == [caller[p] EXCEPT !.pc = "recheck", !.other = "broken"]
  <2>1. r \in Callers /\ r.other # "here"
    BY <1>0, <1>4 DEF Restore, Callers, CallerState, Exchanging, At, Line
  <2>2. caller' \in [Caller -> Callers] /\ OtherNotHere'
    BY <1>4, <2>1, CallerMoves DEF Restore
  <2>3. caller[p].other \in Line
    BY <1>0 DEF Callers
  <2>4. line' \in [Conn -> Line] /\ \A c \in Conn : line'[c] = "here" => line[c] = "here"
    BY <1>0, <1>4, <2>3 DEF Restore, TypeOK
  <2> QED BY <1>4, <2>2, <2>4, LineKeeps DEF Restore, TypeOK
<1>5. CASE Recheck(p)
  <2>1. caller[p].pc \in Exchanging
    BY <1>5 DEF Recheck, At, Exchanging
  <2>2. kept' \subseteq Conn /\ caller' \in [Caller -> Callers] /\ OtherNotHere'
    BY <1>5, <2>1, ReturnSteps DEF Recheck, WithRefused
  <2> QED BY <1>5, <2>2, LineKeeps DEF Recheck, TypeOK
<1>6. CASE Listed(p)
  <2>1. caller[p].pc \in Exchanging
    BY <1>6 DEF Listed, At, Exchanging
  <2>2. kept' \subseteq Conn /\ caller' \in [Caller -> Callers] /\ OtherNotHere'
    BY <1>6, <2>1, ReturnSteps DEF Listed
  <2> QED BY <1>6, <2>2, LineKeeps DEF Listed, TypeOK
<1>7. CASE LastVerdict(p)
  <2> DEFINE r == [caller[p] EXCEPT !.pc = "finishing"]
  <2>1. r \in Callers /\ r.other # "here"
    BY <1>0, <1>7 DEF LastVerdict, Callers, CallerState, Exchanging, At
  <2>2. caller' \in [Caller -> Callers] /\ OtherNotHere'
    BY <1>7, <2>1, CallerMoves DEF LastVerdict, Goes
  <2> QED BY <1>7, <2>2, LineKeeps DEF LastVerdict, TypeOK
<1>8. CASE Finished(p)
  <2>1. "idle" \in CallerState \ Exchanging
    BY DEF CallerState, Exchanging
  <2>2. caller' \in [Caller -> Callers] /\ OtherNotHere'
    BY <1>8, <2>1, CallerMoves, CallerBecomes DEF Finished, Leaves
  <2> QED BY <1>8, <2>2, LineKeeps DEF Finished, TypeOK
<1> QED BY <1>1, <1>2, <1>3, <1>4, <1>5, <1>6, <1>7, <1>8 DEF Harvest

\* A thread that moves on with its client, and says something or nothing.
LEMMA ThreadMoves ==
  ASSUME HolderInv, NEW p \in Caller, Holds(p), met' \in [Caller -> BOOLEAN],
         NEW pc \in {"answering", "closing", "returning", "breaking"}, NEW some \in BOOLEAN,
         thread' = [thread EXCEPT ![p] = [pc |-> pc, conn |-> thread[p].conn, some |-> some]],
         mail' = mail \/ Says(p, "taken") \/ Says(p, "dropped"),
         UNCHANGED <<line, kept, caller>>
  PROVE  HolderInv'
<1>1. thread[p] \in Threads /\ thread[p].pc # "none"
  BY DEF HolderInv, TypeOK, Holds
<1>2. [pc |-> pc, conn |-> thread[p].conn, some |-> some] \in Threads
  BY <1>1 DEF Threads, ThreadState
<1>3. /\ thread' \in [Caller -> Threads]
      /\ \A q \in Caller : thread'[q].conn = thread[q].conn /\ (Holds(q)' => Holds(q))
  BY <1>2 DEF HolderInv, TypeOK, Holds
<1>4. TypeOK'
  BY <1>3 DEF HolderInv, TypeOK, Says
<1>5. OneHolder'
  BY <1>3 DEF HolderInv, OneHolder
<1> QED BY <1>4, <1>5 DEF HolderInv, OtherNotHere

LEMMA ThreadSteps ==
  ASSUME HolderInv, NEW p \in Caller, ThreadStep(p), met' \in [Caller -> BOOLEAN]
  PROVE  HolderInv'
<1>0. thread \in [Caller -> Threads] /\ thread[p] \in Threads
  BY DEF HolderInv, TypeOK
<1>1. ASSUME NEW pc \in {"answering", "closing", "returning", "breaking"}, ThreadGoes(p, pc)
      PROVE  thread' = [thread EXCEPT ![p] = [pc |-> pc, conn |-> thread[p].conn,
                                              some |-> thread[p].some]]
  <2>1. [thread[p] EXCEPT !.pc = pc] = [pc |-> pc, conn |-> thread[p].conn,
                                        some |-> thread[p].some]
    BY <1>0 DEF Threads
  <2> QED BY <1>1, <2>1 DEF ThreadGoes
<1>2. thread[p].some \in BOOLEAN
  BY <1>0 DEF Threads
<1>3. CASE TakeSome(p)
  <2>1. thread' = [thread EXCEPT ![p] = [pc |-> "answering", conn |-> thread[p].conn,
                                         some |-> TRUE]]
    BY <1>3 DEF TakeSome
  <2> QED BY <1>3, <2>1, ThreadMoves DEF TakeSome, Holds, ThreadAt
<1>4. CASE TakeNone(p) \/ AskedToFinish(p)
  BY <1>1, <1>2, <1>4, ThreadMoves DEF TakeNone, AskedToFinish, Holds, ThreadAt
<1>5. CASE WorkFails(p) \/ CloseFails(p)
  BY <1>1, <1>2, <1>5, ThreadMoves DEF WorkFails, CloseFails, Holds, ThreadAt
<1>6. CASE Closes(p)
  BY <1>1, <1>2, <1>6, ThreadMoves DEF Closes, Holds, ThreadAt
<1> USE DEF HolderInv, ThreadAt, ThreadGoes, Says, NoThread, TypeOK, Threads, ThreadState
<1>7. CASE GiveBack(p)
  BY <1>7 DEF GiveBack, OneHolder, OtherNotHere, Holds, Line
<1>8. CASE SayBack(p)
  BY <1>8 DEF SayBack, OneHolder, OtherNotHere, Holds
<1>9. CASE Break(p)
  BY <1>9 DEF Break, OneHolder, OtherNotHere, Holds, Line
<1>10. CASE SayBroken(p)
  BY <1>10 DEF SayBroken, OneHolder, OtherNotHere, Holds
<1> HIDE DEF HolderInv
<1> QED
  BY <1>3, <1>4, <1>5, <1>6, <1>7, <1>8, <1>9, <1>10 DEF ThreadStep

LEMMA NextHolderInv == HolderInv /\ [Next]_vars => HolderInv'
<1> SUFFICES ASSUME HolderInv, [Next]_vars PROVE HolderInv'
  OBVIOUS
<1>1. CASE UNCHANGED vars
  BY <1>1 DEF vars, HolderInv, TypeOK, OneHolder, OtherNotHere, Holds, Threads
<1>2. CASE Next
  <2>1. met' \in [Caller -> BOOLEAN]
    BY <1>2 DEF Next, Meets
  <2> QED BY <1>2, <2>1, PoolSteps, ExchangeSteps, ThreadSteps DEF Next, CallerStep
<1> QED BY <1>1, <1>2

LEMMA AlwaysHolderInv == Spec => []HolderInv
BY InitHolderInv, NextHolderInv, PTL DEF Spec

\* Every variable keeps its type; a caller has a connection exactly while its
\* exchange runs on one, and a thread exactly until it ends.
THEOREM ConnectionTypeCorrect == Spec => []TypeOK
<1>1. HolderInv => TypeOK
  BY DEF HolderInv
<1> QED BY <1>1, AlwaysHolderInv, PTL

\* A connection's client is in one place, on its line or with one harvest,
\* through every interleaving of exchanges with the threads giving it back.
THEOREM ClientInOnePlace == Spec => []OneHolder
<1>1. HolderInv => OneHolder
  BY DEF HolderInv
<1> QED BY <1>1, AlwaysHolderInv, PTL
-----------------------------------------------------------------------------
\* A thread that said how it ended has ended, and a caller on its way to a
\* harvest has no thread, and nothing said that it has not read.
SaidInv ==
  \A p \in Caller :
    /\ mail[p] \in {"empty", "done", "error"} => thread[p].pc = "none"
    /\ caller[p].pc \in {"exchange", "open", "act", "restore", "recheck"} =>
         mail[p] = "none" /\ thread[p].pc = "none"

\* A step of one caller or of its thread.
LEMMA OneSaid ==
  ASSUME SaidInv, NEW p \in Caller,
         \A q \in Caller : q # p =>
           caller'[q] = caller[q] /\ thread'[q] = thread[q] /\ mail'[q] = mail[q],
         mail'[p] \in {"empty", "done", "error"} => thread'[p].pc = "none",
         caller'[p].pc \in {"exchange", "open", "act", "restore", "recheck"} =>
           mail'[p] = "none" /\ thread'[p].pc = "none"
  PROVE  SaidInv'
BY DEF SaidInv

LEMMA SaidNext == TypeOK /\ SaidInv /\ [Next]_vars => SaidInv'
<1> SUFFICES ASSUME TypeOK, SaidInv, [Next]_vars PROVE SaidInv'
  OBVIOUS
<1>0. DOMAIN caller = Caller /\ DOMAIN thread = Caller /\ DOMAIN mail = Caller
  BY DEF TypeOK
<1>1. /\ caller = [q \in Caller |-> caller[q]] /\ thread = [q \in Caller |-> thread[q]]
      /\ mail = [q \in Caller |-> mail[q]]
      /\ \A q \in Caller : caller[q] \in Callers /\ thread[q] \in Threads
  BY DEF TypeOK
<1>2. ASSUME NEW p \in Caller,
             \/ \E job \in {"send", "receive"} : Begin(p, job)
             \/ \E c \in Conn : PoolTake(p, c) \/ PoolOpen(p, c)
             \/ PoolOpenFails(p)
      PROVE  SaidInv'
  <2>1. thread' = thread /\ \A q \in Caller : q # p => caller'[q] = caller[q] /\ mail'[q] = mail[q]
    BY <1>1, <1>2 DEF Begin, PoolTake, PoolOpen, PoolOpenFails, Leaves
  <2>2. CASE \E job \in {"send", "receive"} : Begin(p, job)
    <3>1. mail'[p] = "none" /\ thread[p].pc = "none"
      BY <1>0, <2>2 DEF Begin
    <3> QED BY <2>1, <3>1, OneSaid
  <2>3. CASE PoolOpenFails(p) \/ \E c \in Conn : PoolTake(p, c) \/ PoolOpen(p, c)
    <3>1. mail[p] = "none" /\ thread[p].pc = "none" /\ mail' = mail
      BY <2>3 DEF SaidInv, PoolTake, PoolOpen, PoolOpenFails, At
    <3> QED BY <2>1, <3>1, OneSaid
  <2> QED BY <1>2, <2>2, <2>3
<1>3. ASSUME NEW p \in Caller, Send(p) \/ Restore(p) \/ Recheck(p)
      PROVE  SaidInv'
  <2>1. thread' = thread /\ mail' = mail /\ \A q \in Caller : q # p => caller'[q] = caller[q]
    BY <1>1, <1>3 DEF Send, Restore, Recheck, WithRefused, Succeeds, Fails, Leaves
  <2>2. mail[p] = "none" /\ thread[p].pc = "none"
    BY <1>3 DEF SaidInv, Send, Restore, Recheck, At
  <2> QED BY <2>1, <2>2, OneSaid
<1>4. ASSUME NEW p \in Caller, Harvest(p)
      PROVE  SaidInv'
  <2>1. /\ mail' = mail
        /\ \A q \in Caller : q # p => caller'[q] = caller[q] /\ thread'[q] = thread[q]
        /\ thread'[p] = thread[p] \/ caller'[p].pc = "listed"
    BY <1>1, <1>4 DEF Harvest, Lend, Displace, Fails, Leaves, Goes, Callers
  <2>2. mail[p] = "none" /\ thread[p].pc = "none"
    BY <1>4 DEF SaidInv, Harvest, At
  <2> QED BY <2>1, <2>2, OneSaid
<1>5. ASSUME NEW p \in Caller, Listed(p)
      PROVE  SaidInv'
  <2>1. /\ thread' = thread /\ mail'[p] = "none"
        /\ \A q \in Caller : q # p => caller'[q] = caller[q] /\ mail'[q] = mail[q]
    BY <1>1, <1>5 DEF Listed, Succeeds, Fails, Leaves
  <2>2. mail[p] = "error" \/ caller'[p].pc \in {"idle", "arrivals"}
    <3>1. mail[p] = "error" \/ Leaves(p, "idle") \/ Leaves(p, "arrivals")
      BY <1>5 DEF Listed, Succeeds
    <3>2. \A pc : Leaves(p, pc) => caller'[p].pc = pc
      BY <1>0 DEF Leaves, Without
    <3> QED BY <3>1, <3>2
  <2>3. mail[p] = "error" => thread[p].pc = "none"
    BY DEF SaidInv
  <2> QED BY <2>1, <2>2, <2>3, OneSaid
<1>6. ASSUME NEW p \in Caller, LastVerdict(p) \/ Finished(p)
      PROVE  SaidInv'
  <2>1. /\ thread' = thread /\ mail' = mail
        /\ \A q \in Caller : q # p => caller'[q] = caller[q]
        /\ caller'[p].pc \in {"idle", "finishing"}
    BY <1>1, <1>6 DEF LastVerdict, Finished, Leaves, Without, Goes, Callers
  <2>2. mail[p] \in {"empty", "done", "error"} => thread[p].pc = "none"
    BY DEF SaidInv
  <2> QED BY <2>1, <2>2, OneSaid
<1>7. ASSUME NEW p \in Caller, ThreadStep(p)
      PROVE  SaidInv'
  <2>1. /\ caller' = caller
        /\ \A q \in Caller : q # p => thread'[q] = thread[q] /\ mail'[q] = mail[q]
    BY <1>1, <1>7 DEF ThreadStep, TakeSome, TakeNone, WorkFails, AskedToFinish, Closes,
         CloseFails, GiveBack, SayBack, Break, SayBroken, ThreadGoes, Says
  <2>2. thread[p].pc # "none"
    BY <1>7 DEF ThreadStep, TakeSome, TakeNone, WorkFails, AskedToFinish, Closes,
         CloseFails, GiveBack, SayBack, Break, SayBroken, ThreadAt
  <2>3. /\ caller[p].pc \notin {"exchange", "open", "act", "restore", "recheck"}
        /\ mail[p] \notin {"empty", "done", "error"}
    BY <2>2 DEF SaidInv
  <2>4. mail'[p] \in {mail[p], "taken", "dropped"} \/ thread'[p].pc = "none"
    BY <1>1, <1>7 DEF ThreadStep, TakeSome, TakeNone, WorkFails, AskedToFinish, Closes,
         CloseFails, GiveBack, SayBack, Break, SayBroken, Says, NoThread
  <2> QED BY <2>1, <2>3, <2>4, OneSaid
<1>8. CASE UNCHANGED vars
  BY <1>8 DEF vars, SaidInv
<1> QED BY <1>2, <1>3, <1>4, <1>5, <1>6, <1>7, <1>8 DEF Next, CallerStep

-----------------------------------------------------------------------------
(***************************************************************************)
(* Who has a connection, and who met it.  The pool hands a connection to   *)
(* one exchange at a time (OwnInv), so until its names went out a harvest  *)
(* is on a connection its own caller has, and nobody meets it there        *)
(* (SomeInv, MetInv).  What a thread gave back stays on the line until it  *)
(* says so, or another receive met it (BackInv).                           *)
(***************************************************************************)
OwnInv ==
  \A p \in Caller : caller[p].conn # NoConn =>
    caller[p].conn \notin kept /\ \A q \in Caller \ {p} : caller[q].conn # caller[p].conn

JobInv ==
  \A p \in Caller : caller[p].pc \in {"restore", "recheck", "listed"} => caller[p].job = "receive"

SomeInv ==
  \A p \in Caller : thread[p].pc # "none" =>
    /\ mail[p] = "taken" => thread[p].some
    /\ ~ thread[p].some => caller[p].pc = "listed" /\ caller[p].conn = thread[p].conn

MetInv ==
  \A p \in Caller :
    /\ met[p] => thread[p].pc # "none"
    /\ thread[p].pc # "none" =>
         /\ ~ thread[p].some => ~ met[p]
         /\ \A q \in Caller \ {p} :
              caller[q].conn = thread[p].conn /\ caller[q].job = "receive" => met[p]

BackInv ==
  \A p \in Caller : thread[p].pc = "returned" /\ ~ met[p] =>
    /\ line[thread[p].conn] = "here"
    /\ \A q \in Caller \ {p} : Holds(q) => thread[q].conn # thread[p].conn

MeetInv == HolderInv /\ SaidInv /\ OwnInv /\ JobInv /\ SomeInv /\ MetInv /\ BackInv

\* What a caller's own step does with the connections: its own stays, goes to
\* the pool or to nobody, or one that was kept or nobody had becomes its own.
LEMMA OwnMoves ==
  ASSUME OwnInv, NEW p \in Caller, \A q \in Caller \ {p} : caller'[q].conn = caller[q].conn,
         \/ caller'[p].conn = caller[p].conn /\ kept' = kept
         \/ caller'[p].conn = NoConn /\ kept' \subseteq kept \cup {caller[p].conn}
         \/ \E c \in kept : caller'[p].conn = c /\ kept' = kept \ {c}
         \/ Free(caller'[p].conn) /\ kept' = kept
  PROVE  OwnInv'
BY DEF OwnInv, Free

\* A caller's record, as each step writes it.
LEMMA CallerFields ==
  ASSUME HolderInv, NEW p \in Caller, NEW c, NEW fresh, NEW pc, NEW job
  PROVE  /\ caller' = [caller EXCEPT ![p] = Handed(@.job, c, fresh)] =>
              /\ caller'[p].conn = c /\ caller'[p].pc = "act" /\ caller'[p].job = caller[p].job
              /\ \A q \in Caller \ {p} : caller'[q] = caller[q]
         /\ Leaves(p, pc) =>
              /\ caller'[p].conn = NoConn /\ caller'[p].pc = pc /\ caller'[p].job = caller[p].job
              /\ \A q \in Caller \ {p} : caller'[q] = caller[q]
         /\ Goes(p, pc) =>
              /\ caller'[p].conn = caller[p].conn /\ caller'[p].pc = pc
              /\ caller'[p].job = caller[p].job
              /\ \A q \in Caller \ {p} : caller'[q] = caller[q]
         /\ caller' = [caller EXCEPT ![p] = Without(pc, job)] =>
              /\ caller'[p].conn = NoConn /\ caller'[p].pc = pc /\ caller'[p].job = job
              /\ \A q \in Caller \ {p} : caller'[q] = caller[q]
<1>1. caller \in [Caller -> Callers] /\ caller[p] \in Callers
  BY DEF HolderInv, TypeOK
<1>2. caller[p] = [pc |-> caller[p].pc, job |-> caller[p].job, conn |-> caller[p].conn,
                   fresh |-> caller[p].fresh, other |-> caller[p].other]
  BY <1>1 DEF Callers
<1> QED BY <1>1, <1>2 DEF Handed, Leaves, Goes, Without

\* What a step of a caller does to its own record, and to the pool's set.
LEMMA CallerDoes ==
  ASSUME HolderInv, NEW p \in Caller,
         CallerStep(p) \/ LastVerdict(p) \/ \E job \in {"send", "receive"} : Begin(p, job)
  PROVE  /\ \A q \in Caller \ {p} : caller'[q] = caller[q]
         /\ \/ caller'[p].conn = caller[p].conn /\ kept' = kept
            \/ caller'[p].conn = NoConn /\ kept' \subseteq kept \cup {caller[p].conn}
            \/ \E c \in kept : caller'[p].conn = c /\ kept' = kept \ {c}
            \/ Free(caller'[p].conn) /\ kept' = kept
         /\ caller'[p].pc \in {"restore", "recheck", "listed"} => caller'[p].job = caller[p].job
         /\ \/ caller'[p].pc \notin {"restore", "recheck", "listed"}
            \/ Harvest(p) \/ Restore(p)
<1>0. caller \in [Caller -> Callers] /\ caller[p] \in Callers
  BY DEF HolderInv, TypeOK
<1>1. ASSUME NEW job \in {"send", "receive"}, Begin(p, job)
      PROVE  /\ \A q \in Caller \ {p} : caller'[q] = caller[q]
             /\ caller'[p].conn = NoConn /\ caller'[p].pc = "exchange" /\ kept' = kept
  BY <1>1, CallerFields DEF Begin
<1>2. ASSUME NEW c \in Conn, PoolTake(p, c)
      PROVE  /\ \A q \in Caller \ {p} : caller'[q] = caller[q]
             /\ caller'[p].conn \in {c, NoConn} /\ caller'[p].pc \in {"act", "open"}
             /\ c \in kept /\ kept' = kept \ {c}
  <2>1. CASE caller' = [caller EXCEPT ![p] = Handed(@.job, c, FALSE)]
    BY <1>2, <2>1, CallerFields DEF PoolTake
  <2>2. CASE Leaves(p, "open")
    BY <1>2, <2>2, CallerFields DEF PoolTake
  <2> QED BY <1>2, <2>1, <2>2 DEF PoolTake
<1>3. ASSUME NEW c \in Conn, PoolOpen(p, c)
      PROVE  /\ \A q \in Caller \ {p} : caller'[q] = caller[q]
             /\ caller'[p].conn = c /\ caller'[p].pc = "act" /\ Free(c) /\ kept' = kept
  BY <1>3, CallerFields DEF PoolOpen
<1>4. ASSUME NEW pc \in {"idle", "open", "arrivals"}, Leaves(p, pc)
      PROVE  /\ \A q \in Caller \ {p} : caller'[q] = caller[q]
             /\ caller'[p].conn = NoConn /\ caller'[p].pc \notin {"restore", "recheck", "listed"}
  BY <1>4, CallerFields
<1>5. ASSUME NEW retryable \in BOOLEAN,
             Succeeds(p, "idle") \/ Succeeds(p, "arrivals") \/ Fails(p, retryable)
      PROVE  /\ \A q \in Caller \ {p} : caller'[q] = caller[q]
             /\ caller'[p].conn = NoConn /\ caller'[p].pc \notin {"restore", "recheck", "listed"}
             /\ kept' \subseteq kept \cup {caller[p].conn}
  <2>1. PICK pc \in {"idle", "open", "arrivals"} : Leaves(p, pc)
    BY <1>5 DEF Succeeds, Fails
  <2>2. kept' \subseteq kept \cup {caller[p].conn}
    BY <1>5 DEF Succeeds, Fails
  <2> QED BY <1>4, <2>1, <2>2
<1>6. CASE PoolOpenFails(p) \/ Finished(p)
  BY <1>4, <1>6 DEF PoolOpenFails, Finished
<1>7. CASE Send(p) \/ Recheck(p) \/ Listed(p)
  BY <1>5, <1>7 DEF Send, Recheck, Listed, WithRefused
<1>8. CASE LastVerdict(p)
  <2>1. Goes(p, "finishing") /\ kept' = kept
    BY <1>8 DEF LastVerdict
  <2>2. /\ caller'[p].conn = caller[p].conn /\ caller'[p].pc = "finishing"
        /\ \A q \in Caller \ {p} : caller'[q] = caller[q]
    BY <2>1, CallerFields
  <2> QED BY <2>1, <2>2
<1>9. CASE Harvest(p)
  <2>1. CASE Lend(p)
    <3>1. CASE Fails(p, FALSE)
      BY <1>5, <3>1
    <3>2. CASE Goes(p, "listed") /\ kept' = kept
      BY <1>9, <3>2, CallerFields
    <3> QED BY <2>1, <3>1, <3>2 DEF Lend
  <2>2. CASE Displace(p)
    <3>1. /\ caller'[p].conn = caller[p].conn /\ caller'[p].job = caller[p].job /\ kept' = kept
          /\ \A q \in Caller \ {p} : caller'[q] = caller[q]
      BY <1>0, <2>2 DEF Displace, Callers
    <3> QED BY <1>9, <3>1
  <2> QED BY <1>9, <2>1, <2>2 DEF Harvest
<1>10. CASE Restore(p)
  <2>1. /\ caller'[p].conn = caller[p].conn /\ caller'[p].job = caller[p].job /\ kept' = kept
        /\ \A q \in Caller \ {p} : caller'[q] = caller[q]
    BY <1>0, <1>10 DEF Restore, Callers
  <2> QED BY <1>10, <2>1
<1> QED BY <1>1, <1>2, <1>3, <1>6, <1>7, <1>8, <1>9, <1>10 DEF CallerStep

\* A thread's step leaves its caller and the pool alone.
LEMMA ThreadDoes ==
  ASSUME HolderInv, NEW p \in Caller, ThreadStep(p)
  PROVE  /\ UNCHANGED <<caller, kept>> /\ thread[p].pc # "none"
         /\ \A q \in Caller \ {p} : thread'[q] = thread[q] /\ mail'[q] = mail[q]
         /\ thread'[p].pc # "none" =>
              /\ thread'[p].conn = thread[p].conn /\ (thread[p].some => thread'[p].some)
              /\ mail'[p] = "taken" => mail[p] = "taken" \/ thread'[p].some
<1>1. /\ thread \in [Caller -> Threads] /\ thread[p] \in Threads
      /\ mail = [q \in Caller |-> mail[q]]
  BY DEF HolderInv, TypeOK
<1>2. /\ UNCHANGED <<caller, kept>> /\ thread[p].pc # "none"
      /\ \A q \in Caller \ {p} : thread'[q] = thread[q] /\ mail'[q] = mail[q]
  BY <1>1 DEF ThreadStep, TakeSome, TakeNone, WorkFails, AskedToFinish, Closes, CloseFails,
              GiveBack, SayBack, Break, SayBroken, ThreadGoes, ThreadAt, Says
<1>3. ASSUME NEW pc, ThreadGoes(p, pc)
      PROVE  thread'[p].conn = thread[p].conn /\ thread'[p].some = thread[p].some
  BY <1>1, <1>3 DEF ThreadGoes, Threads
<1>4. CASE TakeSome(p)
  BY <1>1, <1>2, <1>4 DEF TakeSome
<1>5. CASE SayBack(p) \/ SayBroken(p)
  BY <1>1, <1>2, <1>5 DEF SayBack, SayBroken, NoThread
<1>6. CASE TakeNone(p) \/ WorkFails(p) \/ AskedToFinish(p) \/ Closes(p) \/ CloseFails(p)
             \/ GiveBack(p) \/ Break(p)
  <2>1. mail'[p] \in {mail[p], "dropped"}
    BY <1>1, <1>6 DEF TakeNone, WorkFails, AskedToFinish, Closes, CloseFails, GiveBack, Break, Says
  <2>2. thread'[p].conn = thread[p].conn /\ thread'[p].some = thread[p].some
    BY <1>3, <1>6 DEF TakeNone, WorkFails, AskedToFinish, Closes, CloseFails, GiveBack, Break
  <2> QED BY <1>2, <2>1, <2>2
<1> QED BY <1>4, <1>5, <1>6 DEF ThreadStep

LEMMA OwnNext ==
  ASSUME MeetInv, Next
  PROVE  OwnInv' /\ JobInv'
<1>1. HolderInv /\ OwnInv /\ JobInv
  BY DEF MeetInv
<1>2. ASSUME NEW p \in Caller,
             CallerStep(p) \/ LastVerdict(p) \/ \E job \in {"send", "receive"} : Begin(p, job)
      PROVE  OwnInv' /\ JobInv'
  <2>1. OwnInv'
    BY <1>1, <1>2, CallerDoes, OwnMoves
  <2>2. Harvest(p) \/ Restore(p) => caller[p].job = "receive"
    BY <1>1 DEF Harvest, Restore, At, JobInv
  <2>3. caller'[p].pc \in {"restore", "recheck", "listed"} => caller'[p].job = "receive"
    BY <1>1, <1>2, <2>2, CallerDoes
  <2>4. \A q \in Caller \ {p} : caller'[q] = caller[q]
    BY <1>1, <1>2, CallerDoes
  <2>5. JobInv'
    BY <1>1, <2>3, <2>4 DEF JobInv
  <2> QED BY <2>1, <2>5
<1>3. ASSUME NEW p \in Caller, ThreadStep(p)
      PROVE  OwnInv' /\ JobInv'
  BY <1>1, <1>3, ThreadDoes DEF OwnInv, JobInv
<1> QED BY <1>2, <1>3 DEF Next

\* A caller's step touches no thread but its own, which it starts.
LEMMA CallerThreads ==
  ASSUME MeetInv, NEW p \in Caller,
         CallerStep(p) \/ LastVerdict(p) \/ \E job \in {"send", "receive"} : Begin(p, job)
  PROVE  /\ \A q \in Caller \ {p} : thread'[q] = thread[q] /\ mail'[q] = mail[q]
         /\ \/ thread'[p] = thread[p]
            \/ /\ Lend(p) /\ At(p, "act") /\ thread[p].pc = "none" /\ mail'[p] = "none"
               /\ thread'[p].conn = caller'[p].conn /\ caller'[p].pc = "listed"
               /\ thread'[p].pc = "listing" /\ ~ thread'[p].some
         /\ mail'[p] \in {mail[p], "none"}
<1>1. /\ caller \in [Caller -> Callers] /\ mail = [q \in Caller |-> mail[q]]
      /\ thread = [q \in Caller |-> thread[q]] /\ HolderInv /\ SaidInv
  BY DEF MeetInv, HolderInv, TypeOK
<1>2. CASE Lend(p) /\ At(p, "act") /\ Goes(p, "listed")
           /\ thread' = [thread EXCEPT ![p] = [pc |-> "listing", conn |-> caller[p].conn,
                                               some |-> FALSE]]
  <2>1. caller'[p].conn = caller[p].conn /\ caller'[p].pc = "listed"
    BY <1>1, <1>2, CallerFields
  <2>2. mail' = mail /\ mail[p] = "none" /\ thread[p].pc = "none"
    BY <1>1, <1>2 DEF Lend, SaidInv, At
  <2>3. /\ thread'[p] = [pc |-> "listing", conn |-> caller[p].conn, some |-> FALSE]
        /\ \A q \in Caller \ {p} : thread'[q] = thread[q]
    BY <1>1, <1>2
  <2> QED BY <1>2, <2>1, <2>2, <2>3
<1>3. CASE Harvest(p) /\ thread' = thread
  BY <1>3 DEF Harvest, Lend, Displace
<1>4. CASE Begin(p, "send") \/ Begin(p, "receive") \/ Listed(p)
  BY <1>1, <1>4 DEF Begin, Listed
<1>5. CASE (\E c \in Conn : PoolTake(p, c) \/ PoolOpen(p, c)) \/ PoolOpenFails(p) \/ Send(p)
             \/ Restore(p) \/ Recheck(p) \/ LastVerdict(p) \/ Finished(p)
  BY <1>5 DEF PoolTake, PoolOpen, PoolOpenFails, Send, Restore, Recheck, LastVerdict, Finished
<1>6. Harvest(p) =>
        \/ thread' = thread
        \/ /\ Lend(p) /\ At(p, "act") /\ Goes(p, "listed")
           /\ thread' = [thread EXCEPT ![p] = [pc |-> "listing", conn |-> caller[p].conn,
                                               some |-> FALSE]]
  BY DEF Harvest, Lend, Displace
<1> QED BY <1>2, <1>3, <1>4, <1>5, <1>6 DEF CallerStep

LEMMA SomeNext ==
  ASSUME MeetInv, Next
  PROVE  SomeInv'
<1>1. HolderInv /\ SaidInv /\ SomeInv
  BY DEF MeetInv
<1>2. ASSUME NEW p \in Caller,
             CallerStep(p) \/ LastVerdict(p) \/ \E job \in {"send", "receive"} : Begin(p, job)
      PROVE  SomeInv'
  <2>1. \A q \in Caller \ {p} : caller'[q] = caller[q] /\ thread'[q] = thread[q] /\ mail'[q] = mail[q]
    BY <1>1, <1>2, CallerDoes, CallerThreads
  <2>2. CASE thread'[p] = thread[p]
    <3>1. thread[p].pc # "none" /\ ~ thread[p].some => caller'[p] = caller[p]
      <4>1. SUFFICES ASSUME thread[p].pc # "none", ~ thread[p].some
                     PROVE  caller'[p] = caller[p]
        OBVIOUS
      <4>2. caller[p].pc = "listed" /\ mail[p] \notin {"taken", "empty", "error"}
        BY <1>1, <4>1 DEF SomeInv, SaidInv
      <4>3. FALSE
        BY <1>2, <4>2 DEF CallerStep, LastVerdict, Begin, PoolTake, PoolOpen, PoolOpenFails, Send,
                          Harvest, Restore, Recheck, Listed, Finished, At
      <4> QED BY <4>3
    <3>2. mail'[p] \in {mail[p], "none"}
      BY <1>2, CallerThreads
    <3> QED BY <1>1, <2>1, <2>2, <3>1, <3>2 DEF SomeInv
  <2>3. CASE thread'[p] # thread[p]
    BY <1>1, <1>2, <2>1, <2>3, CallerThreads DEF SomeInv
  <2> QED BY <2>2, <2>3
<1>3. ASSUME NEW p \in Caller, ThreadStep(p)
      PROVE  SomeInv'
  BY <1>1, <1>3, ThreadDoes DEF SomeInv
<1> QED BY <1>2, <1>3 DEF Next

LEMMA MetNext ==
  ASSUME MeetInv, Next, SomeInv', OwnInv', TypeOK'
  PROVE  MetInv'
<1>1. SUFFICES ASSUME NEW p \in Caller
               PROVE  /\ met'[p] => thread'[p].pc # "none"
                      /\ thread'[p].pc # "none" =>
                           /\ ~ thread'[p].some => ~ met'[p]
                           /\ \A q \in Caller \ {p} :
                                /\ caller'[q].conn = thread'[p].conn
                                /\ caller'[q].job = "receive"
                                => met'[p]
  BY DEF MetInv
<1>2. met'[p] = /\ thread'[p].pc # "none"
                /\ \/ met[p]
                   \/ \E q \in Caller \ {p} :
                        caller'[q].conn = thread'[p].conn /\ caller'[q].job = "receive"
  BY DEF Next, Meets
<1>3. ASSUME thread'[p].pc # "none", ~ thread'[p].some
      PROVE  ~ met'[p]
  <2>1. thread[p].pc # "none" => ~ thread[p].some
    <3>1. \/ thread'[p] = thread[p]
          \/ thread[p].pc = "none"
          \/ thread[p].some => thread'[p].some
      BY <1>3, CallerThreads, ThreadDoes DEF Next, MeetInv
    <3> QED BY <1>3, <3>1
  <2>2. ~ met[p]
    BY <2>1 DEF MeetInv, MetInv
  <2>3. caller'[p].conn = thread'[p].conn /\ thread'[p].conn # NoConn
    BY <1>3 DEF SomeInv, TypeOK, Threads
  <2>4. \A q \in Caller \ {p} : caller'[q].conn # thread'[p].conn
    BY <2>3 DEF OwnInv
  <2> QED BY <1>2, <2>2, <2>4
<1> QED BY <1>2, <1>3

\* A connection's line changes in an exchange of a receive that has it, as it
\* is opened, and as its thread gives it back or loses it.
LEMMA LineChanges ==
  ASSUME MeetInv, Next, NEW c \in Conn, line'[c] # line[c]
  PROVE  \/ Free(c)
         \/ \E q \in Caller :
              /\ caller[q].conn = c /\ caller[q].job = "receive"
              /\ caller[q].pc \in {"act", "restore"}
         \/ \E q \in Caller :
              /\ thread[q].conn = c /\ ThreadStep(q) /\ Holds(q)
              /\ GiveBack(q) \/ Break(q)
<1>1. line \in [Conn -> Line] /\ JobInv
  BY DEF MeetInv, HolderInv, TypeOK
<1>2. ASSUME NEW p \in Caller,
             CallerStep(p) \/ LastVerdict(p) \/ \E job \in {"send", "receive"} : Begin(p, job)
      PROVE  \/ Free(c)
             \/ /\ caller[p].conn = c /\ caller[p].job = "receive"
                /\ caller[p].pc \in {"act", "restore"}
  <2>1. CASE \E d \in Conn : PoolOpen(p, d)
    BY <1>1, <2>1 DEF PoolOpen
  <2>2. CASE Harvest(p)
    BY <1>1, <2>2 DEF Harvest, Lend, Displace, At
  <2>3. CASE Restore(p)
    BY <1>1, <2>3 DEF Restore, At, JobInv
  <2>4. CASE line' = line
    BY <2>4
  <2> QED BY <1>2, <2>1, <2>2, <2>3, <2>4
          DEF CallerStep, LastVerdict, Begin, PoolTake, PoolOpenFails, Send, Recheck, Listed, Finished
<1>3. ASSUME NEW p \in Caller, ThreadStep(p)
      PROVE  thread[p].conn = c /\ Holds(p) /\ (GiveBack(p) \/ Break(p))
  <2>1. GiveBack(p) \/ Break(p)
    BY <1>3 DEF ThreadStep, TakeSome, TakeNone, WorkFails, AskedToFinish, Closes, CloseFails,
                SayBack, SayBroken
  <2> QED BY <1>1, <2>1 DEF GiveBack, Break, Holds, ThreadAt
<1> QED BY <1>2, <1>3 DEF Next

\* A harvest begins on a connection its caller's receive had.
LEMMA NewHolder ==
  ASSUME MeetInv, Next, NEW q \in Caller, Holds(q)'
  PROVE  \/ Holds(q) /\ thread'[q].conn = thread[q].conn
         \/ /\ caller'[q].conn = thread'[q].conn
            /\ caller'[q].job = "receive" /\ thread'[q].pc = "listing"
<1>1. HolderInv /\ thread[q] \in Threads /\ mail = [r \in Caller |-> mail[r]]
  BY DEF MeetInv, HolderInv, TypeOK
<1>2. ASSUME NEW p \in Caller,
             CallerStep(p) \/ LastVerdict(p) \/ \E job \in {"send", "receive"} : Begin(p, job)
      PROVE  \/ Holds(q) /\ thread'[q].conn = thread[q].conn
             \/ /\ caller'[q].conn = thread'[q].conn
                /\ caller'[q].job = "receive" /\ thread'[q].pc = "listing"
  <2>1. CASE thread'[q] = thread[q]
    BY <2>1 DEF Holds
  <2>2. CASE thread'[q] # thread[q]
    <3>1. /\ p = q /\ thread'[q].conn = caller'[q].conn /\ caller'[q].pc = "listed"
          /\ thread'[q].pc = "listing"
      BY <1>2, <2>2, CallerThreads
    <3>2. caller'[q].job = "receive"
      BY <3>1, OwnNext DEF JobInv
    <3> QED BY <3>1, <3>2
  <2> QED BY <2>1, <2>2
<1>3. ASSUME NEW p \in Caller, ThreadStep(p)
      PROVE  Holds(q) /\ thread'[q].conn = thread[q].conn
  <2>1. CASE p # q
    BY <1>1, <1>3, <2>1, ThreadDoes DEF Holds
  <2>2. CASE p = q
    <3>1. thread'[q].pc # "none"
      BY DEF Holds
    <3>2. thread'[q].conn = thread[q].conn
      BY <1>1, <1>3, <2>2, <3>1, ThreadDoes
    <3>3. thread[q].pc \notin {"returned", "broken"}
      <4>1. thread \in [Caller -> Threads]
        BY <1>1 DEF HolderInv, TypeOK
      <4> QED BY <1>3, <2>2, <3>1, <4>1
              DEF ThreadStep, TakeSome, TakeNone, WorkFails, AskedToFinish, Closes, CloseFails,
                  GiveBack, Break, SayBack, SayBroken, ThreadAt, NoThread
    <3>4. thread[q].pc # "none"
      BY <1>1, <1>3, <2>2, ThreadDoes
    <3> QED BY <1>1, <3>2, <3>3, <3>4 DEF Holds, Threads, ThreadState
  <2> QED BY <2>1, <2>2
<1> QED BY <1>2, <1>3 DEF Next

LEMMA BackNext ==
  ASSUME MeetInv, Next, MetInv'
  PROVE  BackInv'
<1>1. SUFFICES ASSUME NEW p \in Caller, thread'[p].pc = "returned", ~ met'[p]
               PROVE  /\ line'[thread'[p].conn] = "here"
                      /\ \A q \in Caller \ {p} : Holds(q)' => thread'[q].conn # thread'[p].conn
  BY DEF BackInv
<1>2. /\ HolderInv /\ OwnInv /\ MetInv /\ BackInv /\ SaidInv
      /\ line \in [Conn -> Line] /\ thread \in [Caller -> Threads] /\ thread[p] \in Threads
  BY DEF MeetInv, HolderInv, TypeOK
<1>3. \A q \in Caller \ {p} :
        ~ (caller'[q].conn = thread'[p].conn /\ caller'[q].job = "receive")
  BY <1>1 DEF MetInv
<1>4. CASE GiveBack(p)
  <2>1. /\ thread'[p].conn = thread[p].conn /\ line'[thread[p].conn] = "here" /\ Holds(p)
        /\ \A q \in Caller \ {p} : thread'[q] = thread[q]
    BY <1>2, <1>4 DEF GiveBack, ThreadGoes, ThreadAt, Threads, Holds
  <2>2. \A q \in Caller \ {p} : Holds(q) => thread[q].conn # thread[p].conn
    BY <1>2, <2>1 DEF HolderInv, OneHolder
  <2> QED BY <2>1, <2>2 DEF Holds
<1>5. CASE ~ GiveBack(p)
  <2>1. thread'[p] = thread[p]
    <3>1. ASSUME NEW r \in Caller,
                 CallerStep(r) \/ LastVerdict(r) \/ \E job \in {"send", "receive"} : Begin(r, job)
          PROVE  thread'[p] = thread[p]
      BY <1>1, <3>1, CallerThreads
    <3>2. ASSUME NEW r \in Caller, ThreadStep(r)
          PROVE  thread'[p] = thread[p]
      <4>1. CASE r # p
        BY <1>2, <3>2, <4>1, ThreadDoes
      <4>2. CASE r = p
        BY <1>1, <1>2, <1>5, <3>2, <4>2
           DEF ThreadStep, TakeSome, TakeNone, WorkFails, AskedToFinish, Closes, CloseFails,
               Break, SayBack, SayBroken, ThreadGoes, NoThread, Threads
      <4> QED BY <4>1, <4>2
    <3> QED BY <3>1, <3>2 DEF Next
  <2>2. ~ met[p] /\ thread[p].pc = "returned" /\ thread[p].conn \in Conn
    BY <1>1, <1>2, <2>1 DEF Next, Meets, Threads
  <2>3. /\ line[thread[p].conn] = "here"
        /\ \A q \in Caller \ {p} : Holds(q) => thread[q].conn # thread[p].conn
    BY <1>2, <2>2 DEF BackInv
  <2>4. line'[thread[p].conn] = line[thread[p].conn]
    <3>1. SUFFICES ASSUME line'[thread[p].conn] # line[thread[p].conn] PROVE FALSE
      OBVIOUS
    <3>2. ~ Free(thread[p].conn)
      BY DEF Free
    <3>3. ASSUME NEW q \in Caller, caller[q].conn = thread[p].conn, caller[q].job = "receive",
                 caller[q].pc \in {"act", "restore"}
          PROVE  FALSE
      <4>1. q # p
        BY <1>2, <2>2, <3>3 DEF SaidInv
      <4> QED BY <1>2, <2>2, <3>3, <4>1 DEF MetInv
    <3>4. ASSUME NEW q \in Caller, thread[q].conn = thread[p].conn, Holds(q)
          PROVE  FALSE
      BY <2>2, <2>3, <3>4 DEF Holds
    <3> QED BY <2>2, <3>1, <3>2, <3>3, <3>4, LineChanges
  <2>5. ASSUME NEW q \in Caller \ {p}, Holds(q)'
        PROVE  thread'[q].conn # thread'[p].conn
    BY <1>3, <2>1, <2>3, <2>5, NewHolder
  <2> QED BY <2>1, <2>3, <2>4, <2>5
<1> QED BY <1>4, <1>5

LEMMA AlwaysMeetInv == Spec => []MeetInv
<1>1. Init => MeetInv
  BY InitHolderInv
     DEF Init, MeetInv, SaidInv, OwnInv, JobInv, SomeInv, MetInv, BackInv, Without, NoThread
<1>2. MeetInv /\ [Next]_vars => MeetInv'
  <2>1. SUFFICES ASSUME MeetInv, [Next]_vars PROVE MeetInv'
    OBVIOUS
  <2>2. HolderInv' /\ SaidInv' /\ TypeOK'
    BY <2>1, NextHolderInv, SaidNext DEF MeetInv, HolderInv
  <2>3. CASE Next
    <3>1. OwnInv' /\ JobInv' /\ SomeInv'
      BY <2>1, <2>3, OwnNext, SomeNext
    <3>2. MetInv'
      BY <2>1, <2>2, <2>3, <3>1, MetNext
    <3>3. BackInv'
      BY <2>1, <2>3, <3>2, BackNext
    <3> QED BY <2>2, <3>1, <3>2, <3>3 DEF MeetInv
  <2>4. CASE UNCHANGED vars
    <3>1. OwnInv' /\ JobInv' /\ SomeInv'
      BY <2>1, <2>4 DEF vars, MeetInv, OwnInv, JobInv, SomeInv
    <3>2. MetInv' /\ BackInv'
      BY <2>1, <2>4 DEF vars, MeetInv, MetInv, BackInv, Holds
    <3> QED BY <2>2, <3>1, <3>2 DEF MeetInv
  <2> QED BY <2>1, <2>3, <2>4
<1> QED BY <1>1, <1>2, PTL DEF Spec

\* For any callers and connections: who is told that nothing was claimed finds
\* the client back on its line; who is told that its harvest is over does so
\* unless another receive had the connection meanwhile (`harvesting`).
THEOREM ToldOnceBack == Spec => BackWhenSaid
<1>1. MeetInv /\ [Next]_vars =>
        [\A p \in Caller : mail'[p] # mail[p] =>
           /\ mail'[p] = "empty" => line'[thread[p].conn] = "here"
           /\ mail'[p] = "done" => line'[thread[p].conn] = "here" \/ met[p]]_vars
  <2>1. SUFFICES ASSUME MeetInv, Next, NEW p \in Caller, mail'[p] # mail[p],
                        mail'[p] \in {"empty", "done"}
                 PROVE  /\ mail'[p] = "empty" => line'[thread[p].conn] = "here"
                        /\ mail'[p] = "done" => line'[thread[p].conn] = "here" \/ met[p]
    BY DEF vars
  <2>2. HolderInv /\ mail = [q \in Caller |-> mail[q]]
    BY <2>1 DEF MeetInv, HolderInv, TypeOK
  <2>3. ThreadStep(p)
    <3>1. ASSUME NEW q \in Caller,
                 CallerStep(q) \/ LastVerdict(q) \/ \E job \in {"send", "receive"} : Begin(q, job)
          PROVE  FALSE
      BY <2>1, <3>1, CallerThreads
    <3>2. ASSUME NEW q \in Caller, ThreadStep(q)
          PROVE  q = p
      BY <2>1, <2>2, <3>2, ThreadDoes
    <3> QED BY <2>1, <3>1, <3>2 DEF Next
  <2>4. SayBack(p)
    BY <2>1, <2>2, <2>3
       DEF ThreadStep, TakeSome, TakeNone, WorkFails, AskedToFinish, Closes, CloseFails,
           GiveBack, Break, SayBroken, Says
  <2>5. /\ thread[p].pc = "returned" /\ line' = line
        /\ mail'[p] = IF thread[p].some THEN "done" ELSE "empty"
    BY <2>2, <2>4 DEF SayBack, Says, ThreadAt
  <2>6. ~ met[p] => line[thread[p].conn] = "here"
    BY <2>1, <2>5 DEF MeetInv, BackInv
  <2>7. ~ thread[p].some => ~ met[p]
    BY <2>1, <2>5 DEF MeetInv, MetInv
  <2> QED BY <2>5, <2>6, <2>7
<1> QED BY <1>1, AlwaysMeetInv, PTL DEF Spec, BackWhenSaid
=============================================================================
