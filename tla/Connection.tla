----------------------------- MODULE Connection ------------------------------
(***************************************************************************)
(* The kept connections (src/src/connection.rs): the pool hands one to     *)
(* each exchange, a receive lends its client to a harvest thread, and the  *)
(* thread gives the client back after the last verdict.  Each step is what *)
(* happens between two takings of the line's lock, so a caller that finds  *)
(* a connection lent interleaves with the thread that is giving it back.   *)
(*                                                                         *)
(* What happens on the harvest's channel while arrivals await their        *)
(* verdict is module Harvest's; here the thread answers, breaks, or is     *)
(* asked to finish.  The pool is external and modelled from its use: it    *)
(* hands out a kept connection to one exchange at a time, drops it where   *)
(* it is not usable or the exchange failed, and then runs the exchange     *)
(* once more on a connection of its own.                                   *)
(***************************************************************************)
EXTENDS Naturals, FiniteSets

CONSTANTS
  Caller,      \* the runtime's threads that send and receive
  Conn,        \* bound: the connections that exist at once
  NoConn,      \* what who has no connection has
  SpawnFails   \* whether starting the harvest's thread may fail

ASSUME ConnectionAssumption == SpawnFails \in BOOLEAN /\ NoConn \notin Conn

VARIABLES
  line,     \* Connection.0: where each connection's client is
  kept,     \* the connections the pool keeps and nobody has taken
  caller,   \* what each caller is doing
  thread,   \* the harvest thread of each caller's last receive
  mail,     \* what that thread said, on `listed` or on `finished`
  met       \* history: whether another receive had its connection meanwhile

vars == <<line, kept, caller, thread, mail, met>>
-----------------------------------------------------------------------------
Line == {"here", "harvesting", "broken"}

\* exchange: about to take a kept connection; open: about to open its own;
\* act: has one, in its turn; restore, recheck: in harvest's early return;
\* listed: awaits the names; arrivals: has claimed files to tell; finishing:
\* awaits the client's return.
CallerState == {"idle", "exchange", "open", "act", "restore", "recheck",
                "listed", "arrivals", "finishing"}

\* The states in which a caller has a connection the pool handed it.
Exchanging == {"act", "restore", "recheck", "listed"}

\* listing, answering: in with_subsystem's work; closing: the work is done;
\* returning, breaking: with_subsystem is over; returned, broken: the line
\* says so; none: the thread has ended.
ThreadState == {"none", "listing", "answering", "closing", "returning",
                "breaking", "returned", "broken"}

\* A caller has a connection exactly while its exchange runs on one, and a
\* thread exactly until it ends.
Callers ==
  {r \in [pc : CallerState, job : {"send", "receive"}, conn : Conn \cup {NoConn},
          fresh : BOOLEAN, other : Line] :
     r.pc \in Exchanging <=> r.conn # NoConn}

Threads ==
  {r \in [pc : ThreadState, conn : Conn \cup {NoConn}, some : BOOLEAN] :
     r.pc = "none" <=> r.conn = NoConn}

TypeOK ==
  /\ line \in [Conn -> Line]
  /\ kept \subseteq Conn
  /\ caller \in [Caller -> Callers]
  /\ thread \in [Caller -> Threads]
  /\ mail \in [Caller -> {"none", "taken", "empty", "error", "done", "dropped"}]
  /\ met \in [Caller -> BOOLEAN]

\* The thread of p's harvest has the client in its hands.
Holds(p) ==
  thread[p].pc \in {"listing", "answering", "closing", "returning", "breaking"}

\* A connection nobody has.
Free(c) ==
  c \notin kept /\ \A p \in Caller : caller[p].conn # c /\ thread[p].conn # c

\* A caller with a connection from the pool, one without, and no thread.
Handed(job, conn, fresh) ==
  [pc |-> "act", job |-> job, conn |-> conn, fresh |-> fresh, other |-> "broken"]
Without(pc, job) ==
  [pc |-> pc, job |-> job, conn |-> NoConn, fresh |-> FALSE, other |-> "broken"]
NoThread == [pc |-> "none", conn |-> NoConn, some |-> FALSE]

Init ==
  /\ line = [c \in Conn |-> "broken"]
  /\ kept = {}
  /\ caller = [p \in Caller |-> Without("idle", "send")]
  /\ thread = [p \in Caller |-> NoThread]
  /\ mail = [p \in Caller |-> "none"]
  /\ met = [p \in Caller |-> FALSE]

At(p, pc) == caller[p].pc = pc
Goes(p, pc) == caller' = [caller EXCEPT ![p] = [@ EXCEPT !.pc = pc]]

\* The caller hands its connection over, to the pool or to nobody.
Leaves(p, pc) == caller' = [caller EXCEPT ![p] = Without(pc, caller[p].job)]
-----------------------------------------------------------------------------
(***************************************************************************)
(* The pool's exchange.                                                    *)
(***************************************************************************)
\* receive_up_to and send_from.  A caller lets a thread of its own end first.
Begin(p, job) ==
  /\ At(p, "idle")
  /\ thread[p].pc = "none"
  /\ caller' = [caller EXCEPT ![p] = Without("exchange", job)]
  /\ mail' = [mail EXCEPT ![p] = "none"]
  /\ UNCHANGED <<line, kept, thread>>

\* Connection::usable; whether a client that is here is alive is the socket's.
MayBeUsable(c) == line[c] # "broken"
MayBeUnusable(c) == line[c] # "harvesting"

PoolTake(p, c) ==
  /\ At(p, "exchange")
  /\ c \in kept
  /\ kept' = kept \ {c}
  /\ \/ /\ MayBeUsable(c)
        /\ caller' = [caller EXCEPT ![p] = Handed(@.job, c, FALSE)]
     \/ /\ MayBeUnusable(c)
        /\ Leaves(p, "open")
  /\ UNCHANGED <<line, thread, mail>>

PoolOpen(p, c) ==
  /\ At(p, "open") \/ (At(p, "exchange") /\ kept = {})
  /\ Free(c)
  /\ line' = [line EXCEPT ![c] = "here"]
  /\ caller' = [caller EXCEPT ![p] = Handed(@.job, c, TRUE)]
  /\ UNCHANGED <<kept, thread, mail>>

\* SftpTransport::connect fails: the exchange does.
PoolOpenFails(p) ==
  /\ At(p, "open") \/ (At(p, "exchange") /\ kept = {})
  /\ Leaves(p, "idle")
  /\ UNCHANGED <<line, kept, thread, mail>>

\* Fault: the connection is kept and in the caller's hands at once.
SucceedsHolding(p, pc) ==
  /\ kept' = kept \cup {caller[p].conn}
  /\ Goes(p, pc)

\* The exchange's act succeeded: the connection is kept.
Succeeds(p, pc) ==
  /\ kept' = kept \cup {caller[p].conn}
  /\ Leaves(p, pc)

\* It failed: the connection is dropped, and the act run once more on a fresh
\* one where this one had been kept.  A retryable failure, of a connection
\* that is lent, may leave it kept.
Fails(p, retryable) ==
  /\ kept' \in {kept} \cup (IF retryable THEN {kept \cup {caller[p].conn}} ELSE {})
  /\ Leaves(p, IF caller[p].fresh THEN "idle" ELSE "open")
-----------------------------------------------------------------------------
(***************************************************************************)
(* Connection::with and Connection::harvest.                               *)
(***************************************************************************)
\* Fault: with waits for the client to come back.
WithRefusedBroken(p) ==
  /\ line[caller[p].conn] = "broken"
  /\ Fails(p, FALSE)

\* Connection::with where the client is lent or gone.
WithRefused(p) ==
  /\ line[caller[p].conn] # "here"
  /\ Fails(p, line[caller[p].conn] = "harvesting")

\* A send: `with`, the put under the line's lock.
Send(p) ==
  /\ At(p, "act") /\ caller[p].job = "send"
  /\ \/ WithRefused(p)
     \/ line[caller[p].conn] = "here" /\ (Succeeds(p, "idle") \/ Fails(p, FALSE))
  /\ UNCHANGED <<line, thread, mail>>

\* Fault: harvest takes the client and leaves the line saying it is here.
LendUnmarked(p) ==
  /\ line[caller[p].conn] = "here"
  /\ UNCHANGED <<line, kept, mail>>
  /\ thread' = [thread EXCEPT ![p] = [pc |-> "listing", conn |-> caller[p].conn, some |-> FALSE]]
  /\ Goes(p, "listed")

\* harvest: the client moves from the line to the thread that is started.
Lend(p) ==
  /\ line[caller[p].conn] = "here"
  /\ line' = [line EXCEPT ![caller[p].conn] = "harvesting"]
  /\ \/ /\ thread' = [thread EXCEPT ![p] = [pc |-> "listing", conn |-> caller[p].conn,
                                            some |-> FALSE]]
        /\ Goes(p, "listed")
        /\ UNCHANGED kept
     \/ SpawnFails /\ Fails(p, FALSE) /\ UNCHANGED thread
  /\ UNCHANGED mail

\* harvest's first taking of the lock, the client lent or gone.
Displace(p) ==
  /\ line[caller[p].conn] # "here"
  /\ line' = [line EXCEPT ![caller[p].conn] = "harvesting"]
  /\ caller' = [caller EXCEPT ![p] = [@ EXCEPT !.pc = "restore", !.other = line[caller[p].conn]]]
  /\ UNCHANGED <<kept, thread, mail>>

Harvest(p) ==
  /\ At(p, "act") /\ caller[p].job = "receive"
  /\ Lend(p) \/ Displace(p)

\* Its second: what it found goes back.
Restore(p) ==
  /\ At(p, "restore")
  /\ line' = [line EXCEPT ![caller[p].conn] = caller[p].other]
  /\ caller' = [caller EXCEPT ![p] = [@ EXCEPT !.pc = "recheck", !.other = "broken"]]
  /\ UNCHANGED <<kept, thread, mail>>

\* Its third, in `with`: no files, should the client be here by now.
Recheck(p) ==
  /\ At(p, "recheck")
  /\ \/ line[caller[p].conn] = "here" /\ Succeeds(p, "idle")
     \/ WithRefused(p)
  /\ UNCHANGED <<line, thread, mail>>

\* The names the harvest claimed, none, or why it could not.
Listed(p) ==
  /\ At(p, "listed")
  /\ \/ mail[p] = "taken" /\ Succeeds(p, "arrivals")
     \/ mail[p] = "empty" /\ Succeeds(p, "idle")
     \/ mail[p] = "error" /\ Fails(p, FALSE)
  /\ mail' = [mail EXCEPT ![p] = "none"]
  /\ UNCHANGED <<line, thread>>

\* The last arrival's verdict is told, or the last is let go: finish asks.
LastVerdict(p) ==
  /\ At(p, "arrivals")
  /\ Goes(p, "finishing")
  /\ UNCHANGED <<line, kept, thread, mail>>

\* finish returns: told that the client is back, or the harvest's end of the
\* channel is gone.
Finished(p) ==
  /\ At(p, "finishing")
  /\ mail[p] \in {"done", "dropped"} \/ thread[p].pc = "none"
  /\ Leaves(p, "idle")
  /\ UNCHANGED <<line, kept, thread, mail>>
-----------------------------------------------------------------------------
(***************************************************************************)
(* The harvest's thread.                                                   *)
(***************************************************************************)
ThreadAt(p, pc) == thread[p].pc = pc
ThreadGoes(p, pc) == thread' = [thread EXCEPT ![p] = [@ EXCEPT !.pc = pc]]
Says(p, what) == mail' = [mail EXCEPT ![p] = what]

\* Claiming::take claimed some files: their names go out, and the arrivals
\* are answered.
TakeSome(p) ==
  /\ ThreadAt(p, "listing")
  /\ thread' = [thread EXCEPT ![p] = [pc |-> "answering", conn |-> @.conn, some |-> TRUE]]
  /\ Says(p, "taken")
  /\ UNCHANGED <<line, kept, caller>>

\* Fault: a harvest that claimed nothing awaits requests all the same.
TakeNoneAnswering(p) ==
  /\ ThreadAt(p, "listing")
  /\ ThreadGoes(p, "answering")
  /\ UNCHANGED <<line, kept, caller, mail>>

TakeNone(p) ==
  /\ ThreadAt(p, "listing")
  /\ ThreadGoes(p, "closing")
  /\ UNCHANGED <<line, kept, caller, mail>>

\* Opening the channel or listing failed, or a handle's close did.
WorkFails(p) ==
  /\ ThreadAt(p, "listing") \/ ThreadAt(p, "answering")
  /\ ThreadGoes(p, "breaking")
  /\ UNCHANGED <<line, kept, caller, mail>>

AskedToFinish(p) ==
  /\ ThreadAt(p, "answering")
  /\ At(p, "finishing")
  /\ ThreadGoes(p, "closing")
  /\ UNCHANGED <<line, kept, caller, mail>>

Closes(p) ==
  /\ ThreadAt(p, "closing")
  /\ ThreadGoes(p, "returning")
  /\ UNCHANGED <<line, kept, caller, mail>>

\* with_subsystem returns the error and drops its outcome, the sender finish
\* waits on with it.
CloseFails(p) ==
  /\ ThreadAt(p, "closing")
  /\ ThreadGoes(p, "breaking")
  /\ IF thread[p].some THEN Says(p, "dropped") ELSE UNCHANGED mail
  /\ UNCHANGED <<line, kept, caller>>

\* Fault: the waiting side is told before the client is back.
GiveBackLast(p) ==
  /\ ThreadAt(p, "returning")
  /\ Says(p, IF thread[p].some THEN "done" ELSE "empty")
  /\ UNCHANGED <<line, kept, caller, thread>>

GiveBack(p) ==
  /\ ThreadAt(p, "returning")
  /\ line' = [line EXCEPT ![thread[p].conn] = "here"]
  /\ ThreadGoes(p, "returned")
  /\ UNCHANGED <<kept, caller, mail>>

SayBack(p) ==
  /\ ThreadAt(p, "returned")
  /\ Says(p, IF thread[p].some THEN "done" ELSE "empty")
  /\ thread' = [thread EXCEPT ![p] = NoThread]
  /\ UNCHANGED <<line, kept, caller>>

Break(p) ==
  /\ ThreadAt(p, "breaking")
  /\ line' = [line EXCEPT ![thread[p].conn] = "broken"]
  /\ ThreadGoes(p, "broken")
  /\ UNCHANGED <<kept, caller, mail>>

SayBroken(p) ==
  /\ ThreadAt(p, "broken")
  /\ IF thread[p].some THEN UNCHANGED mail ELSE Says(p, "error")
  /\ thread' = [thread EXCEPT ![p] = NoThread]
  /\ UNCHANGED <<line, kept, caller>>
-----------------------------------------------------------------------------
\* The steps of an exchange, and of a finish, that are the caller's own.
CallerStep(p) ==
  \/ \E c \in Conn : PoolTake(p, c) \/ PoolOpen(p, c)
  \/ PoolOpenFails(p)
  \/ Send(p) \/ Harvest(p) \/ Restore(p) \/ Recheck(p) \/ Listed(p)
  \/ Finished(p)

ThreadStep(p) ==
  \/ TakeSome(p) \/ TakeNone(p) \/ WorkFails(p) \/ AskedToFinish(p)
  \/ Closes(p) \/ CloseFails(p)
  \/ GiveBack(p) \/ SayBack(p) \/ Break(p) \/ SayBroken(p)

\* History: another caller's receive has the connection of p's thread.
Meets ==
  met' = [p \in Caller |->
            /\ thread'[p].pc # "none"
            /\ \/ met[p]
               \/ \E q \in Caller \ {p} :
                    caller'[q].conn = thread'[p].conn /\ caller'[q].job = "receive"]

Next ==
  /\ \E p \in Caller :
       \/ \E job \in {"send", "receive"} : Begin(p, job)
       \/ LastVerdict(p)
       \/ CallerStep(p)
       \/ ThreadStep(p)
  /\ Meets

Spec == Init /\ [][Next]_vars

\* An exchange under way and a harvest's thread are running threads.  That a
\* caller begins, or ever gives its last verdict, nobody promises; nor that a
\* harvest that awaits requests fails.
Fairness ==
  \A p \in Caller :
    /\ WF_vars(CallerStep(p) /\ Meets)
    /\ WF_vars(ThreadStep(p) /\ ~ ThreadAt(p, "answering") /\ Meets)
    /\ WF_vars((AskedToFinish(p) \/ (At(p, "finishing") /\ WorkFails(p))) /\ Meets)

FairSpec == Spec /\ Fairness
-----------------------------------------------------------------------------
(***************************************************************************)
(* Properties.                                                             *)
(***************************************************************************)
\* A client is in one place: no two harvests have one connection's client,
\* and none has it while the line says it is here for the next exchange.
OneHolder ==
  \A p \in Caller : Holds(p) =>
    /\ line[thread[p].conn] # "here"
    /\ \A q \in Caller \ {p} : Holds(q) => thread[q].conn # thread[p].conn

\* Who is told that nothing was claimed finds the client back on its line as
\* it is told, whatever the other callers do; who is told that its harvest is
\* over does so too, unless another receive was handed the connection while it
\* was lent, and lent it again or put back what it had found (harvesting:
\* "answered once the client is back, so the next receive finds it").
BackWhenSaid ==
  [][\A p \in Caller : mail'[p] # mail[p] =>
       /\ mail'[p] = "empty" => line'[thread[p].conn] = "here"
       /\ mail'[p] = "done" => line'[thread[p].conn] = "here" \/ met[p]]_vars

\* A send comes back, with the file put or an error, though every harvest
\* hold its connection for ever: it opens a connection of its own.
SendReturns ==
  \A p \in Caller :
    caller[p].job = "send" /\ ~ At(p, "idle") ~> At(p, "idle")

\* A receive comes back, with files, none or an error, whatever becomes of
\* its harvest's channel; and a last verdict comes back after it.
ReceiveReturns ==
  \A p \in Caller :
    caller[p].job = "receive" /\ ~ At(p, "idle") ~> At(p, "idle") \/ At(p, "arrivals")

\* A client that is here leaves the line only into a harvest's hands, so one
\* a harvest gave back is found ("A connection lent to a harvest is kept: it
\* comes back when the harvest's arrivals are let go", Connection::usable).
ClientNotLost ==
  [][\A c \in Conn : line[c] = "here" /\ line'[c] = "harvesting" =>
       \E p \in Caller : Holds(p)' /\ thread'[p].conn = c]_vars
=============================================================================
