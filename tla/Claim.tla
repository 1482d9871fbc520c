-------------------------------- MODULE Claim --------------------------------
(***************************************************************************)
(* Several nodes receiving from one directory (src/src/site.rs): each step *)
(* is one SFTP request of one node, or of a sender putting a file, so every*)
(* interleaving of the nodes' claims, their verdicts, crashes, restarts    *)
(* and slow senders is a behaviour.                                        *)
(*                                                                         *)
(* The order of the requests is `transport::claim`'s, external, modelled   *)
(* from the operations SftpSite gives it, from the README's section on the *)
(* claim and from the tests.  What one request does to the directory is    *)
(* the far end's (Directory): OPEN with EXCL and RENAME are refused on a   *)
(* name that exists, WRITE makes a file that is gone.                      *)
(*                                                                         *)
(* A request under way when its connection breaks or its node dies was     *)
(* answered or never is: one that the far end would answer later still,    *)
(* after its node recovered, is not modelled.                              *)
(*                                                                         *)
(* A file is the write that last changed it, a number of its own: by       *)
(* FarEnd's StampSound its stamp tells it from every other.                *)
(***************************************************************************)
EXTENDS Naturals, FiniteSets

CONSTANTS
  Node,        \* the receiving nodes, by the name their claims carry
  Name,        \* the names files are dropped under
  Nobody,      \* what an empty turn names
  MaxWrites,   \* bound: the writes of all senders
  MaxFailures  \* bound: the crashes of the nodes, and the answers that are lost

ASSUME ClaimAssumption ==
  MaxWrites \in Nat \ {0} /\ MaxFailures \in Nat /\ Nobody \notin Node /\ Name # {}

VARIABLES
  dropped,    \* the files under their dropped names
  turn,       \* the turns, <name>.xmip-claim: whom each names, who made it
  claimed,    \* the claimed files, <name>.xmip-claim.<node>.<nanoseconds>
  writing,    \* the names senders have open for writing
  writes,     \* the writes so far
  due,        \* history: the files finished, not written over and not accepted
  pc,         \* where each node's receive is
  at,         \* the name whose turn it is concerned with
  todo,       \* the names it still has to look at, and each one's stamp
  known,      \* Claiming: the stamps of its last listing
  refused,    \* Claiming: the stamps of the files it refused
  arrivals,   \* the claims it handed to its runtime, verdict to come
  held,       \* the claims it has still to return
  recovered,  \* whether it has returned what its name held before it started
  failures    \* the crashes and the lost answers so far

dirVars == <<dropped, turn, claimed>>
senderVars == <<writing, writes>>
receiveVars == <<pc, at, todo>>
memory == <<known, refused, arrivals, held, recovered>>
vars == <<dirVars, senderVars, due, receiveVars, memory, failures>>
-----------------------------------------------------------------------------
File == 1 .. MaxWrites

\* A claim's name: the node, the dropped name and the nanosecond.  There are
\* more of them than claims a node can remember.
Nanos == 1 .. 2 * MaxWrites + MaxFailures
ClaimName == [node : Node, name : Name, nanos : Nanos]

IsMap(map, keys, values) == DOMAIN map \subseteq keys /\ map \in [DOMAIN map -> values]
Insert(map, key, value) ==
  [k \in DOMAIN map \cup {key} |-> IF k = key THEN value ELSE map[k]]
Without(map, key) == [k \in DOMAIN map \ {key} |-> map[k]]
Empty == [k \in {} |-> 0]

\* idle; recover, unturn: returning what its name left; list; claim: choosing
\* among the files listed; then, for one, the requests in order.
State == {"idle", "recover", "unturn", "list", "claim", "sign", "check", "rename",
          "leave"}

\* For each node, names and the stamps they had.
Stamps(maps) == DOMAIN maps = Node /\ \A i \in Node : IsMap(maps[i], Name, File)

TypeOK ==
  /\ IsMap(dropped, Name, File)
  /\ IsMap(turn, Name, [holder : Node \cup {Nobody}, maker : Node])
  /\ IsMap(claimed, ClaimName, File)
  /\ writing \subseteq Name
  /\ writes \in 0 .. MaxWrites
  /\ due \subseteq File
  /\ pc \in [Node -> State]
  /\ at \in [Node -> Name]
  /\ Stamps(todo) /\ Stamps(known) /\ Stamps(refused)
  /\ arrivals \in [Node -> SUBSET ClaimName]
  /\ held \in [Node -> SUBSET ClaimName]
  /\ recovered \in [Node -> BOOLEAN]
  /\ failures \in 0 .. MaxFailures

AnyName == CHOOSE n \in Name : TRUE

Init ==
  /\ dropped = Empty /\ turn = Empty /\ claimed = Empty
  /\ writing = {} /\ writes = 0 /\ due = {}
  /\ pc = [i \in Node |-> "idle"]
  /\ at = [i \in Node |-> AnyName]
  /\ todo = [i \in Node |-> Empty]
  /\ known = [i \in Node |-> Empty]
  /\ refused = [i \in Node |-> Empty]
  /\ arrivals = [i \in Node |-> {}]
  /\ held = [i \in Node |-> {}]
  /\ recovered = [i \in Node |-> FALSE]
  /\ failures = 0
-----------------------------------------------------------------------------
(***************************************************************************)
(* A sender's put: OPEN with TRUNC, WRITEs, CLOSE.                         *)
(***************************************************************************)
\* The file under a name, if there is one.
Under(n) == {dropped[m] : m \in DOMAIN dropped \cap {n}}

\* OPEN with TRUNC: the sender replaces what is there.
PutOpen(n) ==
  /\ n \notin writing /\ writes < MaxWrites
  /\ writing' = writing \cup {n}
  /\ writes' = writes + 1
  /\ dropped' = Insert(dropped, n, writes')
  /\ due' = due \ Under(n)
  /\ UNCHANGED <<turn, claimed, receiveVars, memory, failures>>

\* Through a handle that is a name: a file claimed meanwhile is made anew, and
\* one that lies there, be it an older one returned meanwhile, is written over.
\* That one may be finished: it is lost, and no more due.
PutWrite(n) ==
  /\ n \in writing /\ writes < MaxWrites
  /\ writes' = writes + 1
  /\ dropped' = Insert(dropped, n, writes')
  /\ due' = due \ Under(n)
  /\ UNCHANGED <<turn, claimed, writing, receiveVars, memory, failures>>

PutClose(n) ==
  /\ n \in writing
  /\ writing' = writing \ {n}
  /\ due' = IF n \in DOMAIN dropped THEN due \cup {dropped[n]} ELSE due
  /\ UNCHANGED <<dirVars, writes, receiveVars, memory, failures>>
-----------------------------------------------------------------------------
(***************************************************************************)
(* A receive.                                                              *)
(***************************************************************************)
At(i, state) == pc[i] = state
Goes(i, state) == pc' = [pc EXCEPT ![i] = state]

Receive(i) ==
  /\ At(i, "idle")
  /\ Goes(i, IF recovered[i] THEN "list" ELSE "recover")
  /\ UNCHANGED <<dirVars, senderVars, due, at, todo, memory, failures>>

\* The claims of this node's name.  (Fault: of any.)
OwnAny(i) == DOMAIN claimed
Own(i) == {claim \in DOMAIN claimed : claim.node = i}

\* The listing of a starting node: the claims of its name go back, and every
\* turn is looked at.
RecoverList(i) ==
  /\ At(i, "recover")
  /\ Goes(i, "unturn")
  /\ held' = [held EXCEPT ![i] = Own(i)]
  /\ todo' = [todo EXCEPT ![i] = [n \in DOMAIN turn |-> 1]]
  /\ UNCHANGED <<dirVars, senderVars, due, at, known, refused, arrivals, recovered, failures>>

\* A turn that names this node.  (Fault: any.)
MineAny(i, n) == n \in DOMAIN turn
Mine(i, n) == n \in DOMAIN turn /\ turn[n].holder = i

\* SftpSite::holder, and the removal of a turn that names this node.  Between
\* the two nobody else's request can touch that turn.
RecoverTurn(i, n) ==
  /\ At(i, "unturn")
  /\ n \in DOMAIN todo[i]
  /\ todo' = [todo EXCEPT ![i] = Without(@, n)]
  /\ turn' = IF Mine(i, n) THEN Without(turn, n) ELSE turn
  /\ UNCHANGED <<dropped, claimed, senderVars, due, pc, at, memory, failures>>

Recovered(i) ==
  /\ At(i, "unturn")
  /\ DOMAIN todo[i] = {}
  /\ Goes(i, "list")
  /\ recovered' = [recovered EXCEPT ![i] = TRUE]
  /\ UNCHANGED <<dirVars, senderVars, due, at, todo, known, refused, arrivals, held, failures>>

\* Fault: what was refused is forgotten.
StableRefused(i) == {n \in DOMAIN dropped \cap DOMAIN known[i] : dropped[n] = known[i][n]}

\* The files as they were at the listing before, and not refused as they are.
Stable(i) ==
  {n \in DOMAIN dropped \cap DOMAIN known[i] :
     /\ dropped[n] = known[i][n]
     /\ n \in DOMAIN refused[i] => refused[i][n] # dropped[n]}

\* SftpSite::listed, and the stability check.
List(i) ==
  /\ At(i, "list")
  /\ Goes(i, "claim")
  /\ known' = [known EXCEPT ![i] = dropped]
  /\ todo' = [todo EXCEPT ![i] = [n \in Stable(i) |-> dropped[n]]]
  /\ UNCHANGED <<dirVars, senderVars, due, at, refused, arrivals, held, recovered, failures>>

ListDone(i) ==
  /\ At(i, "claim")
  /\ DOMAIN todo[i] = {}
  /\ Goes(i, "idle")
  /\ UNCHANGED <<dirVars, senderVars, due, at, todo, memory, failures>>

\* create_exclusive: OPEN with CREAT and EXCL.
TurnOpen(i, n) ==
  /\ At(i, "claim")
  /\ n \in DOMAIN todo[i]
  /\ \/ /\ n \in DOMAIN turn
        /\ todo' = [todo EXCEPT ![i] = Without(@, n)]
        /\ UNCHANGED <<turn, pc, at>>
     \/ /\ n \notin DOMAIN turn
        /\ turn' = Insert(turn, n, [holder |-> Nobody, maker |-> i])
        /\ at' = [at EXCEPT ![i] = n]
        /\ Goes(i, "sign")
        /\ UNCHANGED todo
  /\ UNCHANGED <<dropped, claimed, senderVars, due, memory, failures>>

\* What a turn holds once its maker wrote it.  (Fault: the file's name.)
SignedName(i) == [holder |-> at[i], maker |-> i]
Signed(i) == [holder |-> i, maker |-> i]

\* create_exclusive: WRITE of the claimant's name, and CLOSE.
TurnWrite(i) ==
  /\ At(i, "sign")
  /\ turn' = Insert(turn, at[i], Signed(i))
  /\ Goes(i, "check")
  /\ UNCHANGED <<dropped, claimed, senderVars, due, at, todo, memory, failures>>

\* SftpSite::stamp, once the turn is held.
Check(i) ==
  /\ At(i, "check")
  /\ LET n == at[i]
     IN  Goes(i, IF n \in DOMAIN dropped /\ dropped[n] = todo[i][n]
                   THEN "rename" ELSE "leave")
  /\ UNCHANGED <<dirVars, senderVars, due, at, todo, memory, failures>>

\* The name of the next claim.  A nanosecond does not come again: here, not
\* while a claim of it is there or still to be returned; which of the others
\* it is tells nothing, and the first from the file's own number on is taken.
NextClaim(i, n) ==
  LET claim(k) == [node |-> i, name |-> n, nanos |-> k]
      free == {k \in Nanos : k >= dropped[n] /\ claim(k) \notin DOMAIN claimed \cup held[i]}
  IN  {claim(k) : k \in {k \in free : \A l \in free : k <= l}}

\* What a claim leaves of the dropped files.  (Fault: a copy.)
LeftCopied(n) == dropped
Left(n) == Without(dropped, n)

\* SftpSite::rename: the claim, where the file is still there.  The rest of
\* the listing is left where the runtime has no more room.
Rename(i) ==
  /\ At(i, "rename")
  /\ LET n == at[i]
     IN  \/ /\ n \in DOMAIN dropped
            /\ \E claim \in NextClaim(i, n) :
                 /\ claimed' = Insert(claimed, claim, dropped[n])
                 /\ arrivals' = [arrivals EXCEPT ![i] = @ \cup {claim}]
            /\ dropped' = Left(n)
            /\ todo' \in {todo, [todo EXCEPT ![i] = Empty]}
         \/ n \notin DOMAIN dropped /\ UNCHANGED <<claimed, arrivals, dropped, todo>>
  /\ Goes(i, "leave")
  /\ UNCHANGED <<turn, senderVars, due, at, known, refused, held, recovered, failures>>

\* The turns without this one.  (Fault: a claim that was lost leaves its.)
TurnsButWon(i) == IF at[i] \in DOMAIN dropped THEN turn ELSE Without(turn, at[i])
TurnsBut(i) == Without(turn, at[i])

\* SftpSite::drop_turn: whoever it names.
DropTurn(i) ==
  /\ At(i, "leave")
  /\ turn' = TurnsBut(i)
  /\ todo' = [todo EXCEPT ![i] = Without(@, at[i])]
  /\ Goes(i, "claim")
  /\ UNCHANGED <<dropped, claimed, senderVars, due, at, memory, failures>>
-----------------------------------------------------------------------------
(***************************************************************************)
(* Verdicts, returns and failures.                                          *)
(***************************************************************************)
\* Accepted: SftpSite::delete of the claimed file.
Accept(i, claim) ==
  /\ claim \in arrivals[i]
  /\ arrivals' = [arrivals EXCEPT ![i] = @ \ {claim}]
  /\ due' = IF claim \in DOMAIN claimed THEN due \ {claimed[claim]} ELSE due
  /\ claimed' = Without(claimed, claim)
  /\ UNCHANGED <<dropped, turn, senderVars, receiveVars, known, refused, held, recovered, failures>>

\* Refused, Failed or let go: to be returned; Refused is remembered as it lies.
GiveBack(i, claim, remembered) ==
  /\ claim \in arrivals[i]
  /\ arrivals' = [arrivals EXCEPT ![i] = @ \ {claim}]
  /\ held' = [held EXCEPT ![i] = @ \cup {claim}]
  /\ refused' = IF remembered /\ claim \in DOMAIN claimed
                  THEN [refused EXCEPT ![i] = Insert(@, claim.name, claimed[claim])]
                  ELSE refused
  /\ UNCHANGED <<dirVars, senderVars, due, receiveVars, known, recovered, failures>>

\* The harvest broke: nobody is told, and the file stays claimed.
VerdictLost(i, claim) ==
  /\ claim \in arrivals[i]
  /\ arrivals' = [arrivals EXCEPT ![i] = @ \ {claim}]
  /\ UNCHANGED <<dirVars, senderVars, due, receiveVars, known, refused, held, recovered, failures>>

\* on_rename would not refuse the return.  (Fault: it replaces.)
ReturnableAlways(claim) == claim \in DOMAIN claimed
Returnable(claim) == claim \in DOMAIN claimed /\ claim.name \notin DOMAIN dropped

Returned(claim) ==
  /\ Returnable(claim)
  /\ dropped' = Insert(dropped, claim.name, claimed[claim])
  /\ claimed' = Without(claimed, claim)

\* SftpSite::restore: back, or gone already; kept, and tried again, where the
\* rename is refused.
Restore(i, claim) ==
  /\ claim \in held[i]
  /\ Returned(claim) \/ (claim \notin DOMAIN claimed /\ UNCHANGED <<dropped, claimed>>)
  /\ held' = [held EXCEPT ![i] = @ \ {claim}]
  /\ UNCHANGED <<turn, senderVars, due, receiveVars, known, refused, arrivals, recovered, failures>>

\* The same, with the answer lost: the claim is still to be returned.
RestoreUnheard(i, claim) ==
  /\ failures < MaxFailures /\ claim \in held[i]
  /\ failures' = failures + 1
  /\ Returned(claim)
  /\ UNCHANGED <<turn, senderVars, due, receiveVars, memory>>

\* The connection breaks in the middle of a receive: harvest fails, what it
\* has claimed is in no hand, and the turn it took stays.  Which of the
\* claims are this receive's is left open.
BreakOff(i) ==
  /\ failures < MaxFailures /\ ~ At(i, "idle")
  /\ failures' = failures + 1
  /\ pc' = [pc EXCEPT ![i] = "idle"]
  /\ todo' = [todo EXCEPT ![i] = Empty]
  /\ \E kept \in SUBSET arrivals[i] : arrivals' = [arrivals EXCEPT ![i] = kept]
  /\ UNCHANGED <<dirVars, senderVars, due, at, known, refused, held, recovered>>

\* The node dies and is started again: nothing it remembered is left.
Crash(i) ==
  /\ failures < MaxFailures
  /\ failures' = failures + 1
  /\ pc' = [pc EXCEPT ![i] = "idle"]
  /\ at' = [at EXCEPT ![i] = AnyName]
  /\ todo' = [todo EXCEPT ![i] = Empty]
  /\ known' = [known EXCEPT ![i] = Empty]
  /\ refused' = [refused EXCEPT ![i] = Empty]
  /\ arrivals' = [arrivals EXCEPT ![i] = {}]
  /\ held' = [held EXCEPT ![i] = {}]
  /\ recovered' = [recovered EXCEPT ![i] = FALSE]
  /\ UNCHANGED <<dirVars, senderVars, due>>
-----------------------------------------------------------------------------
Receiving(i) ==
  \/ Receive(i) \/ RecoverList(i) \/ Recovered(i) \/ List(i) \/ ListDone(i)
  \/ TurnWrite(i) \/ Check(i) \/ Rename(i) \/ DropTurn(i)
  \/ \E n \in Name : RecoverTurn(i, n) \/ TurnOpen(i, n)

Verdicts(i) ==
  \E claim \in arrivals[i] :
    \/ Accept(i, claim)
    \/ \E remembered \in BOOLEAN : GiveBack(i, claim, remembered)
    \/ VerdictLost(i, claim)

Returning(i) == \E claim \in held[i] : Restore(i, claim)

Failing(i) == Crash(i) \/ BreakOff(i) \/ \E claim \in held[i] : RestoreUnheard(i, claim)

Next ==
  \/ \E n \in Name : PutOpen(n) \/ PutWrite(n) \/ PutClose(n)
  \/ \E i \in Node : Receiving(i) \/ Verdicts(i) \/ Returning(i) \/ Failing(i)

Spec == Init /\ [][Next]_vars

\* A node polls, and a receive under way goes on; it tries what it holds at
\* each receive.  Senders, verdicts and failures promise nothing.
FairSpec == Spec /\ \A i \in Node : WF_vars(Receiving(i)) /\ WF_vars(Returning(i))
-----------------------------------------------------------------------------
(***************************************************************************)
(* Properties.                                                             *)
(***************************************************************************)
\* A claimed file a runtime has in hand is there until its own verdict: no
\* other node, starting or listing, returns it or takes it.
ArrivalsKept == \A i \in Node : arrivals[i] \subseteq DOMAIN claimed

\* Who checks a file's stamp and renames it on the strength of it holds the
\* file's turn, through every other node's crash, restart and recovery.
TurnHeld ==
  \A i \in Node : pc[i] \in {"check", "rename", "leave"} =>
    at[i] \in DOMAIN turn /\ turn[at[i]] = [holder |-> i, maker |-> i]

\* A finished file is somewhere in the directory until a runtime accepts it,
\* a put opens its name and replaces it, or a put that has its name open
\* writes over it, which on_write does to a file returned meanwhile: claims,
\* returns, crashes and recoveries of themselves lose none ("the file is the
\* only copy", README on Refused).
NothingLost ==
  \A f \in due :
    \/ \E n \in DOMAIN dropped : dropped[n] = f
    \/ \E claim \in DOMAIN claimed : claimed[claim] = f

\* Of two claims one file is never the prize: no file is in two places.
OnePlace ==
  /\ \A m, n \in DOMAIN dropped : m # n => dropped[m] # dropped[n]
  /\ \A c, d \in DOMAIN claimed : c # d => claimed[c] # claimed[d]
  /\ \A n \in DOMAIN dropped, c \in DOMAIN claimed : dropped[n] # claimed[c]

\* The files of a map.
Files(map) == {map[k] : k \in DOMAIN map}

Promised == INSTANCE Intake WITH
  waiting <- Files(dropped),
  taken <- Files(claimed),
  hand <- [i \in Node |-> {claimed[claim] : claim \in arrivals[i]}],
  made <- writes

\* The nodes' requests together do what Intake promises (site.rs, over the far
\* end): a file goes from waiting to one node's hand and from there to its
\* acceptance, or back once it is in no hand; every other step of a receive,
\* a recovery, a turn or a return shows nothing.
ImplementsIntake == Promised!Spec

\* A node does not receive again what it refused, while it is unchanged.
RefusedStays ==
  [][\A i \in Node : \A claim \in arrivals'[i] \ arrivals[i] :
       claim.name \in DOMAIN refused[i] => refused[i][claim.name] # claimed'[claim]]_vars

\* A file left as it is, which not every node has refused, is taken.
TakenEventually ==
  \A n \in Name, f \in File :
    n \in DOMAIN dropped /\ dropped[n] = f
      ~> \/ n \notin DOMAIN dropped \/ dropped[n] # f
         \/ \A i \in Node : n \in DOMAIN refused[i] /\ refused[i][n] = f

\* A node "removes its turns, at its first receive that reaches the server"
\* (README): once it has, none it made is left.
TurnsRemoved ==
  [][\A i \in Node : recovered'[i] /\ ~ recovered[i] =>
       \A n \in DOMAIN turn' : turn'[n].maker # i]_vars
=============================================================================
