----------------------------- MODULE ClaimProofs -----------------------------
(***************************************************************************)
(* What TLAPS proves of the claim, for any nodes, names, number of writes  *)
(* and number of failures.  Each invariant is proved from the one before:   *)
(*   - TypeOK;                                                             *)
(*   - TurnInv: a node about a file made the file's turn, and a turn names *)
(*     nobody but its maker, so no recovery removes it;                    *)
(*   - PlaceInv: a file is in one place, none is of a write to come, and   *)
(*     what is due is there;                                               *)
(*   - HandInv: a node has in hand, and to return, claims of its own, never *)
(*     the same one, and none in hand before it has recovered;             *)
(*   - FreshInv: what a node is about to claim is neither a file it refused *)
(*     nor one in its hand that it may refuse yet.                         *)
(* That Claim implements Intake follows from these.                        *)
(***************************************************************************)
EXTENDS Claim, TLAPS

LEMMA AFile == 1 \in File
BY ClaimAssumption DEF File

LEMMA InitTyped == Init => TypeOK
BY ClaimAssumption DEF Init, TypeOK, Stamps, IsMap, Empty, AnyName, State

\* One node's stamps changed for others.
LEMMA StampsExcept ==
  ASSUME NEW maps, Stamps(maps), NEW i \in Node, NEW map, IsMap(map, Name, File)
  PROVE  Stamps([maps EXCEPT ![i] = map])
BY DEF Stamps

\* What a node's record of stamps loses.
LEMMA StampsLess ==
  ASSUME NEW maps, Stamps(maps), NEW i \in Node, NEW n
  PROVE  Stamps([maps EXCEPT ![i] = Without(@, n)])
<1>1. IsMap(Without(maps[i], n), Name, File)
  BY DEF Stamps, IsMap, Without
<1>2. [maps EXCEPT ![i] = Without(@, n)] = [maps EXCEPT ![i] = Without(maps[i], n)]
  BY Zenon
<1> QED BY <1>1, <1>2, StampsExcept

\* A record of nothing.
LEMMA EmptyStamps == IsMap(Empty, Name, File)
BY DEF IsMap, Empty

\* What is put in, and taken out of, a map of a type leaves it of the type.
LEMMA MapInsert ==
  ASSUME NEW map, NEW keys, NEW values, IsMap(map, keys, values),
         NEW key \in keys, NEW value \in values
  PROVE  IsMap(Insert(map, key, value), keys, values)
BY DEF IsMap, Insert

LEMMA MapWithout ==
  ASSUME NEW map, NEW keys, NEW values, IsMap(map, keys, values), NEW key
  PROVE  IsMap(Without(map, key), keys, values)
BY DEF IsMap, Without

Turn == [holder : Node \cup {Nobody}, maker : Node]

\* Each step of a sender keeps the types.
LEMMA SenderTyped ==
  ASSUME TypeOK, NEW n \in Name, PutOpen(n) \/ PutWrite(n) \/ PutClose(n)
  PROVE  TypeOK'
<1> USE DEF TypeOK, File, senderVars, receiveVars, memory, dirVars
<1>1. CASE PutOpen(n) \/ PutWrite(n)
  <2>1. writes' \in File /\ writes' \in 0 .. MaxWrites
    BY <1>1, ClaimAssumption DEF PutOpen, PutWrite
  <2>2. IsMap(dropped', Name, File)
    <3>1. dropped' = Insert(dropped, n, writes')
      BY <1>1 DEF PutOpen, PutWrite
    <3> QED BY <2>1, <3>1, MapInsert
  <2>3. due' \subseteq File /\ writing' \subseteq Name
    BY <1>1 DEF PutOpen, PutWrite
  <2> QED BY <1>1, <2>1, <2>2, <2>3 DEF PutOpen, PutWrite
<1>2. CASE PutClose(n)
  <2>1. due' \subseteq File /\ writing' \subseteq Name
    BY <1>2 DEF PutClose, IsMap
  <2> QED BY <1>2, <2>1 DEF PutClose
<1> QED BY <1>1, <1>2

\* A new claim is of its node, and is no claim that is there or to be returned.
LEMMA NextClaimNew ==
  ASSUME NEW i \in Node, NEW n \in Name, NEW claim \in NextClaim(i, n)
  PROVE  /\ claim \in ClaimName /\ claim.node = i /\ claim.name = n
         /\ claim \notin DOMAIN claimed /\ claim \notin held[i]
<1>1. PICK k \in Nanos : /\ claim = [node |-> i, name |-> n, nanos |-> k]
                         /\ claim \notin DOMAIN claimed \cup held[i]
  BY Zenon DEF NextClaim
<1> QED BY <1>1 DEF ClaimName

\* Each request of a receive keeps the types.
LEMMA ReceivingTyped ==
  ASSUME TypeOK, NEW i \in Node, Receiving(i)
  PROVE  TypeOK'
<1> USE DEF TypeOK, senderVars, receiveVars, memory, dirVars, At, Goes, State
<1>1. CASE Receive(i)
  BY <1>1 DEF Receive
<1>2. CASE RecoverList(i)
  <2>1. IsMap([n \in DOMAIN turn |-> 1], Name, File)
    <3>1. DOMAIN turn \subseteq Name
      BY DEF IsMap
    <3> QED BY <3>1, AFile DEF IsMap
  <2>2. Stamps(todo')
    BY <1>2, <2>1, StampsExcept DEF RecoverList
  <2>3. Own(i) \in SUBSET ClaimName
    BY DEF IsMap, Own
  <2>4. held' \in [Node -> SUBSET ClaimName]
    BY <1>2, <2>3 DEF RecoverList
  <2> QED BY <1>2, <2>2, <2>4 DEF RecoverList
<1>3. CASE Recovered(i)
  BY <1>3 DEF Recovered
<1>4. CASE List(i)
  <2>1. IsMap([n \in Stable(i) |-> dropped[n]], Name, File)
    BY DEF IsMap, Stable
  <2>2. Stamps(todo') /\ Stamps(known')
    BY <1>4, <2>1, StampsExcept DEF List
  <2> QED BY <1>4, <2>2 DEF List
<1>5. CASE ListDone(i)
  BY <1>5 DEF ListDone
<1>6. CASE TurnWrite(i)
  <2>1. at[i] \in Name /\ [holder |-> i, maker |-> i] \in Turn
    BY DEF Turn
  <2>2. IsMap(turn', Name, Turn)
    BY <1>6, <2>1, MapInsert DEF TurnWrite, Signed, Turn
  <2> QED BY <1>6, <2>2 DEF TurnWrite, Turn
<1>7. CASE Check(i)
  BY <1>7 DEF Check
<1>8. CASE Rename(i)
  <2>1. CASE at[i] \in DOMAIN dropped
    <3>1. PICK claim \in NextClaim(i, at[i]) :
            /\ claimed' = Insert(claimed, claim, dropped[at[i]])
            /\ arrivals' = [arrivals EXCEPT ![i] = @ \cup {claim}]
      BY <1>8, <2>1 DEF Rename
    <3>2. /\ dropped' = Without(dropped, at[i])
          /\ todo' \in {todo, [todo EXCEPT ![i] = Empty]}
      BY <1>8, <2>1 DEF Rename, Left
    <3>7. claim \in ClaimName /\ dropped[at[i]] \in File
      BY <2>1, NextClaimNew DEF IsMap
    <3>3. IsMap(claimed', ClaimName, File) /\ IsMap(dropped', Name, File)
      BY <3>1, <3>2, <3>7, MapInsert, MapWithout
    <3>4. arrivals' \in [Node -> SUBSET ClaimName]
      BY <3>1, <3>7
    <3>5. Stamps(todo')
      <4>1. Stamps([todo EXCEPT ![i] = Empty])
        BY EmptyStamps, StampsExcept
      <4> QED BY <3>2, <4>1
    <3>6. UNCHANGED <<turn, senderVars, due, at, known, refused, held, recovered, failures>> /\ Goes(i, "leave")
      BY <1>8 DEF Rename
    <3> QED BY <3>3, <3>4, <3>5, <3>6
  <2>2. CASE at[i] \notin DOMAIN dropped
    <3>1. UNCHANGED <<dirVars, senderVars, due, at, todo, memory, failures>> /\ Goes(i, "leave")
      BY <1>8, <2>2 DEF Rename
    <3> QED BY <3>1
  <2> QED BY <2>1, <2>2
<1>9. CASE DropTurn(i)
  <2>1. Stamps(todo') /\ IsMap(turn', Name, Turn)
    BY <1>9, StampsLess, MapWithout DEF DropTurn, TurnsBut, Turn
  <2> QED BY <1>9, <2>1 DEF DropTurn, Turn
<1>10. ASSUME NEW n \in Name, RecoverTurn(i, n)
       PROVE  TypeOK'
  <2>1. Stamps(todo') /\ IsMap(turn', Name, Turn)
    BY <1>10, StampsLess, MapWithout DEF RecoverTurn, Turn
  <2> QED BY <1>10, <2>1 DEF RecoverTurn, Turn
<1>11. ASSUME NEW n \in Name, TurnOpen(i, n)
       PROVE  TypeOK'
  <2>1. [holder |-> Nobody, maker |-> i] \in Turn
    BY DEF Turn
  <2>2. Stamps(todo') /\ IsMap(turn', Name, Turn)
    <3>1. CASE n \in DOMAIN turn
      <4>1. todo' = [todo EXCEPT ![i] = Without(@, n)] /\ turn' = turn
        BY <1>11, <3>1 DEF TurnOpen
      <4> QED BY <4>1, StampsLess DEF Turn
    <3>2. CASE n \notin DOMAIN turn
      <4>1. turn' = Insert(turn, n, [holder |-> Nobody, maker |-> i]) /\ todo' = todo
        BY <1>11, <3>2 DEF TurnOpen
      <4> QED BY <2>1, <4>1, MapInsert DEF Turn
    <3> QED BY <3>1, <3>2
  <2> QED BY <1>11, <2>2 DEF TurnOpen, Turn
<1> HIDE DEF TypeOK
<1> QED BY <1>1, <1>2, <1>3, <1>4, <1>5, <1>6, <1>7, <1>8, <1>9, <1>10, <1>11
           DEF Receiving

\* Verdicts, returns and failures keep the types.
LEMMA VerdictsTyped ==
  ASSUME TypeOK, NEW i \in Node, Verdicts(i) \/ Returning(i) \/ Failing(i)
  PROVE  TypeOK'
<1> USE DEF TypeOK, senderVars, receiveVars, memory, dirVars
<1>1. ASSUME NEW claim \in arrivals[i], Accept(i, claim)
      PROVE  TypeOK'
  <2>1. IsMap(claimed', ClaimName, File) /\ due' \subseteq File
    BY <1>1, MapWithout DEF Accept
  <2> QED BY <1>1, <2>1 DEF Accept
<1>2. ASSUME NEW claim \in arrivals[i], NEW remembered \in BOOLEAN, GiveBack(i, claim, remembered)
      PROVE  TypeOK'
  <2>1. claim \in ClaimName /\ claim.name \in Name
    BY DEF ClaimName
  <2>2. ASSUME claim \in DOMAIN claimed
        PROVE  Stamps([refused EXCEPT ![i] = Insert(@, claim.name, claimed[claim])])
    <3>1. IsMap(Insert(refused[i], claim.name, claimed[claim]), Name, File)
      BY <2>1, <2>2, MapInsert DEF Stamps, IsMap
    <3> QED BY <3>1, StampsExcept
  <2>3. Stamps(refused')
    BY <1>2, <2>2 DEF GiveBack
  <2>4. arrivals' \in [Node -> SUBSET ClaimName] /\ held' \in [Node -> SUBSET ClaimName]
    BY <1>2, <2>1 DEF GiveBack
  <2> QED BY <1>2, <2>3, <2>4 DEF GiveBack
<1>3. ASSUME NEW claim \in arrivals[i], VerdictLost(i, claim)
      PROVE  TypeOK'
  BY <1>3 DEF VerdictLost
<1>4. ASSUME NEW claim \in held[i], Restore(i, claim) \/ RestoreUnheard(i, claim)
      PROVE  TypeOK'
  <2>1. claim.name \in Name /\ (claim \in DOMAIN claimed => claimed[claim] \in File)
    BY DEF ClaimName, IsMap
  <2>2. IsMap(claimed', ClaimName, File) /\ IsMap(dropped', Name, File)
    <3>1. CASE Returned(claim)
      BY <2>1, <3>1, MapInsert, MapWithout DEF Returned, Returnable
    <3>2. CASE UNCHANGED <<dropped, claimed>>
      BY <3>2
    <3> QED BY <1>4, <3>1, <3>2 DEF Restore, RestoreUnheard
  <2>3. failures' \in 0 .. MaxFailures
    BY <1>4, ClaimAssumption DEF Restore, RestoreUnheard
  <2> QED BY <1>4, <2>2, <2>3 DEF Restore, RestoreUnheard
<1>5. CASE Crash(i)
  <2>1. Stamps(todo') /\ Stamps(known') /\ Stamps(refused')
    BY <1>5, EmptyStamps, StampsExcept DEF Crash
  <2>2. AnyName \in Name
    BY ClaimAssumption DEF AnyName
  <2>3. pc' \in [Node -> State] /\ at' \in [Node -> Name]
    BY <1>5, <2>2 DEF Crash, State
  <2>5. failures' \in 0 .. MaxFailures
    BY <1>5, ClaimAssumption DEF Crash
  <2>4. /\ arrivals' \in [Node -> SUBSET ClaimName] /\ held' \in [Node -> SUBSET ClaimName]
        /\ recovered' \in [Node -> BOOLEAN]
    BY <1>5 DEF Crash
  <2> QED BY <1>5, <2>1, <2>3, <2>4, <2>5 DEF Crash
<1>6. CASE BreakOff(i)
  <2>1. Stamps(todo') /\ pc' \in [Node -> State]
    BY <1>6, EmptyStamps, StampsExcept DEF BreakOff, State
  <2>2. failures' \in 0 .. MaxFailures
    BY <1>6, ClaimAssumption DEF BreakOff
  <2>3. arrivals' \in [Node -> SUBSET ClaimName]
    <3>1. PICK kept \in SUBSET arrivals[i] : arrivals' = [arrivals EXCEPT ![i] = kept]
      BY <1>6 DEF BreakOff
    <3> QED BY <3>1
  <2> QED BY <1>6, <2>1, <2>2, <2>3 DEF BreakOff
<1> HIDE DEF TypeOK
<1> QED BY <1>1, <1>2, <1>3, <1>4, <1>5, <1>6 DEF Verdicts, Returning, Failing

LEMMA NextTyped == TypeOK /\ [Next]_vars => TypeOK'
<1> SUFFICES ASSUME TypeOK, [Next]_vars PROVE TypeOK'
  OBVIOUS
<1>1. CASE UNCHANGED vars
  BY <1>1 DEF vars, TypeOK, senderVars, receiveVars, memory, dirVars
<1> QED BY <1>1, SenderTyped, ReceivingTyped, VerdictsTyped DEF Next

\* Every variable of the claim keeps its type.
THEOREM ClaimTypeCorrect == Spec => []TypeOK
BY InitTyped, NextTyped, PTL DEF Spec
-----------------------------------------------------------------------------
(***************************************************************************)
(* Turns.                                                                  *)
(***************************************************************************)
Busy(i) == pc[i] \in {"sign", "check", "rename", "leave"}
Sure(i) == pc[i] \in {"check", "rename", "leave"}

\* A node about a file made the turn that is there, and once it has written
\* its name the turn holds it; no turn names anyone but its maker.
TurnInv ==
  /\ \A i \in Node : Busy(i) => at[i] \in DOMAIN turn /\ turn[at[i]].maker = i
  /\ \A i \in Node : Sure(i) => turn[at[i]].holder = i
  /\ \A n \in DOMAIN turn : turn[n].holder \in {Nobody, turn[n].maker}

\* A step that leaves the turns, and brings nobody to one.
LEMMA TurnsLeft ==
  ASSUME TurnInv, turn' = turn,
         \A i \in Node : Busy(i)' => /\ Busy(i) /\ at'[i] = at[i]
                                     /\ (Sure(i)' => Sure(i))
  PROVE  TurnInv'
BY DEF TurnInv, Busy, Sure

\* A step that changes one turn, of no node but the one that takes the step.
OtherTurns(i, n) ==
  /\ \A j \in Node : j # i => pc'[j] = pc[j] /\ at'[j] = at[j]
  /\ \A m \in DOMAIN turn : m # n => m \in DOMAIN turn' /\ turn'[m] = turn[m]
  /\ \A m \in DOMAIN turn' : m # n => m \in DOMAIN turn

LEMMA OneTurn ==
  ASSUME TurnInv, NEW i \in Node, NEW n, OtherTurns(i, n),
         \A j \in Node : j # i /\ Busy(j) => at[j] # n,
         n \in DOMAIN turn' => turn'[n].holder \in {Nobody, turn'[n].maker},
         Busy(i)' => at'[i] \in DOMAIN turn' /\ turn'[at'[i]].maker = i,
         Sure(i)' => turn'[at'[i]].holder = i
  PROVE  TurnInv'
<1> USE DEF OtherTurns
<1>1. ASSUME NEW j \in Node, Busy(j)'
      PROVE  at'[j] \in DOMAIN turn' /\ turn'[at'[j]].maker = j
  <2>1. CASE j = i
    BY <1>1, <2>1
  <2>2. CASE j # i
    <3>1. Busy(j) /\ at'[j] = at[j]
      BY <1>1, <2>2 DEF Busy
    <3>2. at[j] \in DOMAIN turn /\ turn[at[j]].maker = j /\ at[j] # n
      BY <2>2, <3>1 DEF TurnInv
    <3> QED BY <3>1, <3>2
  <2> QED BY <2>1, <2>2
<1>2. ASSUME NEW j \in Node, Sure(j)'
      PROVE  turn'[at'[j]].holder = j
  <2>1. CASE j = i
    BY <1>2, <2>1
  <2>2. CASE j # i
    <3>1. Sure(j) /\ Busy(j) /\ at'[j] = at[j]
      BY <1>2, <2>2 DEF Sure, Busy
    <3>2. at[j] \in DOMAIN turn /\ turn[at[j]].holder = j /\ at[j] # n
      BY <2>2, <3>1 DEF TurnInv
    <3> QED BY <3>1, <3>2
  <2> QED BY <2>1, <2>2
<1>3. ASSUME NEW m \in DOMAIN turn'
      PROVE  turn'[m].holder \in {Nobody, turn'[m].maker}
  <2>1. CASE m = n
    BY <1>3, <2>1
  <2>2. CASE m # n
    <3>1. m \in DOMAIN turn /\ turn'[m] = turn[m]
      BY <1>3, <2>2
    <3>2. turn[m].holder \in {Nobody, turn[m].maker}
      BY <3>1 DEF TurnInv
    <3> QED BY <3>1, <3>2
  <2> QED BY <2>1, <2>2
<1> QED BY <1>1, <1>2, <1>3 DEF TurnInv

\* Whoever else is about a file is not about one whose turn this node made.
LEMMA OthersTurns ==
  ASSUME TurnInv, NEW i \in Node, NEW n \in DOMAIN turn, turn[n].maker = i
  PROVE  \A j \in Node : j # i /\ Busy(j) => at[j] # n
BY DEF TurnInv

LEMMA TurnNext == TypeOK /\ TurnInv /\ [Next]_vars => TurnInv'
<1> SUFFICES ASSUME TypeOK, TurnInv, [Next]_vars PROVE TurnInv'
  OBVIOUS
<1>0. pc \in [Node -> State] /\ at \in [Node -> Name]
  BY DEF TypeOK
<1>1. ASSUME NEW i \in Node, NEW n \in Name, TurnOpen(i, n), n \notin DOMAIN turn
      PROVE  TurnInv'
  <2>1. /\ turn' = Insert(turn, n, [holder |-> Nobody, maker |-> i])
        /\ pc'[i] = "sign" /\ at'[i] = n
        /\ \A j \in Node : j # i => pc'[j] = pc[j] /\ at'[j] = at[j]
    BY <1>0, <1>1 DEF TurnOpen, Goes
  <2>2. /\ DOMAIN turn' = DOMAIN turn \cup {n}
        /\ turn'[n].holder = Nobody /\ turn'[n].maker = i
        /\ \A m \in DOMAIN turn : m # n => turn'[m] = turn[m]
    BY <2>1 DEF Insert
  <2>3. \A j \in Node : j # i /\ Busy(j) => at[j] # n
    BY <1>1 DEF TurnInv
  <2>4. ~ Sure(i)'
    BY <2>1 DEF Sure
  <2>5. /\ at'[i] \in DOMAIN turn' /\ turn'[at'[i]].maker = i
        /\ turn'[n].holder \in {Nobody, turn'[n].maker}
    BY <2>1, <2>2
  <2>6. OtherTurns(i, n)
    BY <2>1, <2>2 DEF OtherTurns
  <2> QED BY <2>3, <2>4, <2>5, <2>6, OneTurn
<1>2. ASSUME NEW i \in Node, TurnWrite(i)
      PROVE  TurnInv'
  <2>1. /\ turn' = Insert(turn, at[i], [holder |-> i, maker |-> i])
        /\ at' = at /\ pc[i] = "sign"
        /\ \A j \in Node : j # i => pc'[j] = pc[j]
    BY <1>0, <1>2 DEF TurnWrite, Signed, Goes, At
  <2>2. at[i] \in DOMAIN turn /\ turn[at[i]].maker = i
    BY <2>1 DEF TurnInv, Busy
  <2>3. /\ DOMAIN turn' = DOMAIN turn
        /\ turn'[at[i]].holder = i /\ turn'[at[i]].maker = i
        /\ \A m \in DOMAIN turn : m # at[i] => turn'[m] = turn[m]
    BY <2>1, <2>2 DEF Insert
  <2>4. \A j \in Node : j # i /\ Busy(j) => at[j] # at[i]
    BY <2>2, OthersTurns
  <2>5. /\ Busy(i)' => at'[i] \in DOMAIN turn' /\ turn'[at'[i]].maker = i
        /\ Sure(i)' => turn'[at'[i]].holder = i
        /\ at[i] \in DOMAIN turn' => turn'[at[i]].holder \in {Nobody, turn'[at[i]].maker}
    BY <2>1, <2>2, <2>3
  <2>6. OtherTurns(i, at[i])
    BY <2>1, <2>2, <2>3 DEF OtherTurns
  <2> QED BY <2>4, <2>5, <2>6, OneTurn
<1>3. ASSUME NEW i \in Node, DropTurn(i)
      PROVE  TurnInv'
  <2>1. /\ turn' = Without(turn, at[i])
        /\ at' = at /\ pc[i] = "leave" /\ pc'[i] = "claim"
        /\ \A j \in Node : j # i => pc'[j] = pc[j]
    BY <1>0, <1>3 DEF DropTurn, TurnsBut, Goes, At
  <2>2. at[i] \in DOMAIN turn /\ turn[at[i]].maker = i
    BY <2>1 DEF TurnInv, Busy
  <2>3. /\ DOMAIN turn' = DOMAIN turn \ {at[i]}
        /\ \A m \in DOMAIN turn : m # at[i] => turn'[m] = turn[m]
    BY <2>1 DEF Without
  <2>4. ~ Busy(i)' /\ ~ Sure(i)'
    BY <2>1 DEF Busy, Sure
  <2>5. \A j \in Node : j # i /\ Busy(j) => at[j] # at[i]
    BY <2>2, OthersTurns
  <2>6. at[i] \notin DOMAIN turn' /\ OtherTurns(i, at[i])
    BY <2>1, <2>3 DEF OtherTurns
  <2> QED BY <2>4, <2>5, <2>6, OneTurn
<1>4. ASSUME NEW i \in Node, NEW n \in Name, RecoverTurn(i, n)
      PROVE  TurnInv'
  <2>0. pc' = pc /\ at' = at /\ pc[i] = "unturn"
    BY <1>4 DEF RecoverTurn, At
  <2>1. CASE Mine(i, n)
    <3>1. turn' = Without(turn, n) /\ n \in DOMAIN turn
      BY <1>4, <2>1 DEF RecoverTurn, Mine
    <3>2. turn[n].maker = i
      BY <2>1, ClaimAssumption DEF TurnInv, Mine
    <3>3. /\ DOMAIN turn' = DOMAIN turn \ {n}
          /\ \A m \in DOMAIN turn : m # n => turn'[m] = turn[m]
      BY <3>1 DEF Without
    <3>4. ~ Busy(i)' /\ ~ Sure(i)'
      BY <2>0 DEF Busy, Sure
    <3>5. n \notin DOMAIN turn' /\ OtherTurns(i, n)
      BY <2>0, <3>3 DEF OtherTurns
    <3> QED BY <3>1, <3>2, <3>4, <3>5, OneTurn, OthersTurns
  <2>2. CASE ~ Mine(i, n)
    <3>1. turn' = turn
      BY <1>4, <2>2 DEF RecoverTurn
    <3> QED BY <2>0, <3>1, TurnsLeft DEF Busy, Sure
  <2> QED BY <2>1, <2>2
<1>5. ASSUME NEW i \in Node,
             \/ Receive(i) \/ RecoverList(i) \/ Recovered(i) \/ List(i) \/ ListDone(i)
             \/ Check(i) \/ Rename(i)
      PROVE  TurnInv'
  <2>1. /\ turn' = turn /\ at' = at
        /\ \A j \in Node \ {i} : pc'[j] = pc[j]
        /\ Busy(i)' => Busy(i) /\ (Sure(i)' => Sure(i))
    BY <1>0, <1>5 DEF Receive, RecoverList, Recovered, List, ListDone, Check, Rename,
                      Goes, At, Busy, Sure, dirVars
  <2> QED BY <2>1, TurnsLeft DEF Busy, Sure
<1>6. ASSUME NEW i \in Node, Crash(i) \/ BreakOff(i)
      PROVE  TurnInv'
  <2>1. /\ turn' = turn /\ pc'[i] = "idle"
        /\ \A j \in Node \ {i} : pc'[j] = pc[j] /\ at'[j] = at[j]
    BY <1>0, <1>6 DEF Crash, BreakOff, dirVars
  <2> QED BY <2>1, TurnsLeft DEF Busy, Sure
<1>7. ASSUME turn' = turn, pc' = pc, at' = at
      PROVE  TurnInv'
  BY <1>7, TurnsLeft DEF Busy, Sure
<1>8. ASSUME NEW n \in Name, PutOpen(n) \/ PutWrite(n) \/ PutClose(n)
      PROVE  TurnInv'
  BY <1>7, <1>8 DEF PutOpen, PutWrite, PutClose, dirVars, receiveVars
<1>9. ASSUME NEW i \in Node, NEW n \in Name, TurnOpen(i, n)
      PROVE  TurnInv'
  <2>1. CASE n \in DOMAIN turn
    BY <1>7, <1>9, <2>1 DEF TurnOpen
  <2>2. CASE n \notin DOMAIN turn
    BY <1>1, <1>9, <2>2
  <2> QED BY <2>1, <2>2
<1>10. ASSUME NEW i \in Node, Verdicts(i) \/ Returning(i)
       PROVE  TurnInv'
  BY <1>7, <1>10 DEF Verdicts, Returning, Accept, GiveBack, VerdictLost, Restore,
                     dirVars, receiveVars
<1>11. ASSUME NEW i \in Node, Failing(i)
       PROVE  TurnInv'
  BY <1>6, <1>7, <1>11 DEF Failing, RestoreUnheard, receiveVars
<1>12. CASE UNCHANGED vars
  BY <1>7, <1>12 DEF vars, dirVars, receiveVars
<1> QED BY <1>2, <1>3, <1>4, <1>5, <1>8, <1>9, <1>10, <1>11, <1>12 DEF Next, Receiving

LEMMA TurnAlways == Spec => []TurnInv
<1>1. Init => TurnInv
  BY DEF Init, TurnInv, Busy, Sure, Empty
<1> QED BY <1>1, TurnNext, ClaimTypeCorrect, PTL DEF Spec

\* Two nodes are never both past the turn of one file: through every crash,
\* restart and recovery, who checks and renames a file holds its turn.
THEOREM TurnIsExclusive == Spec => []TurnHeld
<1>1. TypeOK /\ TurnInv => TurnHeld
  <2> SUFFICES ASSUME TypeOK, TurnInv, NEW i \in Node, Sure(i)
               PROVE  at[i] \in DOMAIN turn /\ turn[at[i]] = [holder |-> i, maker |-> i]
    BY DEF TurnHeld, Sure
  <2>1. at[i] \in DOMAIN turn /\ turn[at[i]].maker = i /\ turn[at[i]].holder = i
    BY DEF TurnInv, Busy, Sure
  <2>2. turn[at[i]] \in [holder : Node \cup {Nobody}, maker : Node]
    BY <2>1 DEF TypeOK, IsMap
  <2> QED BY <2>1, <2>2
<1> QED BY <1>1, TurnAlways, ClaimTypeCorrect, PTL
-----------------------------------------------------------------------------
(***************************************************************************)
(* Files.  What a request does to the directory is one of five changes.    *)
(***************************************************************************)
\* A file is in one place, no file is of a write to come, and what is due is
\* there.
PlaceInv ==
  /\ OnePlace
  /\ NothingLost
  /\ \A n \in DOMAIN dropped : dropped[n] <= writes
  /\ \A c \in DOMAIN claimed : claimed[c] <= writes

\* A sender's request makes a file, in the place of the one under the name.
LEMMA FileWritten ==
  ASSUME TypeOK, PlaceInv, NEW n \in Name,
         writes' = writes + 1, dropped' = Insert(dropped, n, writes'),
         due' = due \ Under(n), claimed' = claimed
  PROVE  PlaceInv'
<1>0. /\ writes \in Nat
      /\ \A m \in DOMAIN dropped : dropped[m] \in Nat
      /\ \A c \in DOMAIN claimed : claimed[c] \in Nat
  BY ClaimAssumption DEF TypeOK, IsMap, File
<1>1. /\ DOMAIN dropped' = DOMAIN dropped \cup {n} /\ dropped'[n] = writes + 1
      /\ \A m \in DOMAIN dropped : m # n => dropped'[m] = dropped[m]
  BY DEF Insert
<1>2. OnePlace'
  <2>1. OnePlace /\ \A m \in DOMAIN dropped : dropped[m] # writes + 1
    BY <1>0 DEF PlaceInv
  <2>2. \A c \in DOMAIN claimed : claimed[c] # writes + 1
    BY <1>0 DEF PlaceInv
  <2>3. ASSUME NEW k \in DOMAIN dropped', NEW m \in DOMAIN dropped', k # m
        PROVE  dropped'[k] # dropped'[m]
    BY <1>1, <2>1, <2>3 DEF OnePlace
  <2>4. ASSUME NEW m \in DOMAIN dropped', NEW c \in DOMAIN claimed
        PROVE  dropped'[m] # claimed[c]
    <3>1. CASE m = n
      BY <1>1, <2>2, <3>1
    <3>2. CASE m # n
      BY <1>1, <2>1, <2>4, <3>2 DEF OnePlace
    <3> QED BY <3>1, <3>2
  <2> QED BY <2>1, <2>3, <2>4 DEF OnePlace
<1>3. NothingLost'
  <2> SUFFICES ASSUME NEW f \in due'
               PROVE  \/ \E m \in DOMAIN dropped' : dropped'[m] = f
                      \/ \E c \in DOMAIN claimed : claimed[c] = f
    BY DEF NothingLost
  <2>1. f \in due /\ (n \in DOMAIN dropped => f # dropped[n])
    BY DEF Under
  <2> QED BY <1>1, <2>1 DEF PlaceInv, NothingLost
<1> QED BY <1>0, <1>1, <1>2, <1>3 DEF PlaceInv

\* A claim moves a file out of the dropped names.
LEMMA FileClaimed ==
  ASSUME PlaceInv, NEW n \in DOMAIN dropped, NEW claim, claim \notin DOMAIN claimed,
         dropped' = Without(dropped, n), claimed' = Insert(claimed, claim, dropped[n]),
         due' = due, writes' = writes
  PROVE  PlaceInv'
<1>1. /\ DOMAIN dropped' = DOMAIN dropped \ {n}
      /\ \A m \in DOMAIN dropped : m # n => dropped'[m] = dropped[m]
  BY DEF Without
<1>2. /\ DOMAIN claimed' = DOMAIN claimed \cup {claim} /\ claimed'[claim] = dropped[n]
      /\ \A c \in DOMAIN claimed : claimed'[c] = claimed[c]
  BY DEF Insert
<1>3. OnePlace'
  <2>1. OnePlace
    BY DEF PlaceInv
  <2>2. ASSUME NEW k \in DOMAIN dropped', NEW m \in DOMAIN dropped', k # m
        PROVE  dropped'[k] # dropped'[m]
    BY <1>1, <2>1, <2>2 DEF OnePlace
  <2>3. ASSUME NEW c \in DOMAIN claimed', NEW d \in DOMAIN claimed', c # d
        PROVE  claimed'[c] # claimed'[d]
    <3>1. CASE c # claim /\ d # claim
      BY <1>2, <2>1, <2>3, <3>1 DEF OnePlace
    <3>2. CASE c = claim \/ d = claim
      <4>1. \A e \in DOMAIN claimed : claimed[e] # dropped[n]
        BY <2>1 DEF OnePlace
      <4> QED BY <1>2, <2>3, <3>2, <4>1
    <3> QED BY <3>1, <3>2
  <2>4. ASSUME NEW m \in DOMAIN dropped', NEW c \in DOMAIN claimed'
        PROVE  dropped'[m] # claimed'[c]
    <3>1. m \in DOMAIN dropped /\ m # n /\ dropped'[m] = dropped[m]
      BY <1>1, <2>4
    <3>2. CASE c = claim
      BY <1>2, <2>1, <3>1, <3>2 DEF OnePlace
    <3>3. CASE c # claim
      BY <1>2, <2>1, <2>4, <3>1, <3>3 DEF OnePlace
    <3> QED BY <3>2, <3>3
  <2> QED BY <2>2, <2>3, <2>4 DEF OnePlace
<1>4. NothingLost'
  <2> SUFFICES ASSUME NEW f \in due
               PROVE  \/ \E m \in DOMAIN dropped' : dropped'[m] = f
                      \/ \E c \in DOMAIN claimed' : claimed'[c] = f
    BY DEF NothingLost
  <2>1. CASE \E m \in DOMAIN dropped : dropped[m] = f
    BY <1>1, <1>2, <2>1
  <2>2. CASE \E c \in DOMAIN claimed : claimed[c] = f
    BY <1>1, <1>2, <2>2
  <2> QED BY <2>1, <2>2 DEF PlaceInv, NothingLost
<1> QED BY <1>1, <1>2, <1>3, <1>4 DEF PlaceInv

\* A return moves it back, where the name is free.
LEMMA FileReturned ==
  ASSUME PlaceInv, NEW claim \in DOMAIN claimed, NEW n, n \notin DOMAIN dropped,
         dropped' = Insert(dropped, n, claimed[claim]), claimed' = Without(claimed, claim),
         due' = due, writes' = writes
  PROVE  PlaceInv'
<1>1. /\ DOMAIN dropped' = DOMAIN dropped \cup {n} /\ dropped'[n] = claimed[claim]
      /\ \A m \in DOMAIN dropped : dropped'[m] = dropped[m]
  BY DEF Insert
<1>2. /\ DOMAIN claimed' = DOMAIN claimed \ {claim}
      /\ \A c \in DOMAIN claimed : c # claim => claimed'[c] = claimed[c]
  BY DEF Without
<1>3. OnePlace'
  <2>1. OnePlace
    BY DEF PlaceInv
  <2>2. ASSUME NEW k \in DOMAIN dropped', NEW m \in DOMAIN dropped', k # m
        PROVE  dropped'[k] # dropped'[m]
    <3>1. \A l \in DOMAIN dropped : dropped[l] # claimed[claim]
      BY <2>1 DEF OnePlace
    <3>2. CASE k = n \/ m = n
      BY <1>1, <2>2, <3>1, <3>2
    <3>3. CASE k # n /\ m # n
      BY <1>1, <2>1, <2>2, <3>3 DEF OnePlace
    <3> QED BY <3>2, <3>3
  <2>3. ASSUME NEW c \in DOMAIN claimed', NEW d \in DOMAIN claimed', c # d
        PROVE  claimed'[c] # claimed'[d]
    BY <1>2, <2>1, <2>3 DEF OnePlace
  <2>4. ASSUME NEW m \in DOMAIN dropped', NEW c \in DOMAIN claimed'
        PROVE  dropped'[m] # claimed'[c]
    <3>1. c \in DOMAIN claimed /\ c # claim /\ claimed'[c] = claimed[c]
      BY <1>2, <2>4
    <3>2. CASE m = n
      BY <1>1, <2>1, <3>1, <3>2 DEF OnePlace
    <3>3. CASE m # n
      BY <1>1, <2>1, <2>4, <3>1, <3>3 DEF OnePlace
    <3> QED BY <3>2, <3>3
  <2> QED BY <2>2, <2>3, <2>4 DEF OnePlace
<1>4. NothingLost'
  <2> SUFFICES ASSUME NEW f \in due
               PROVE  \/ \E m \in DOMAIN dropped' : dropped'[m] = f
                      \/ \E c \in DOMAIN claimed' : claimed'[c] = f
    BY DEF NothingLost
  <2>1. CASE \E m \in DOMAIN dropped : dropped[m] = f
    BY <1>1, <1>2, <2>1
  <2>2. CASE \E c \in DOMAIN claimed : claimed[c] = f
    BY <1>1, <1>2, <2>2
  <2> QED BY <2>1, <2>2 DEF PlaceInv, NothingLost
<1> QED BY <1>1, <1>2, <1>3, <1>4 DEF PlaceInv

\* An accepted file is deleted, and due no more.
LEMMA FileAccepted ==
  ASSUME PlaceInv, NEW claim,
         due' = IF claim \in DOMAIN claimed THEN due \ {claimed[claim]} ELSE due,
         claimed' = Without(claimed, claim), dropped' = dropped, writes' = writes
  PROVE  PlaceInv'
<1>1. /\ DOMAIN claimed' = DOMAIN claimed \ {claim}
      /\ \A c \in DOMAIN claimed : c # claim => claimed'[c] = claimed[c]
  BY DEF Without
<1>2. OnePlace'
  BY <1>1 DEF PlaceInv, OnePlace
<1>3. NothingLost'
  BY <1>1 DEF PlaceInv, NothingLost
<1> QED BY <1>1, <1>2, <1>3 DEF PlaceInv

\* Everything else leaves the files.
LEMMA FilesLeft ==
  ASSUME PlaceInv, dropped' = dropped, claimed' = claimed, writes' = writes,
         \A f \in due' : f \in due \/ \E n \in DOMAIN dropped : dropped[n] = f
  PROVE  PlaceInv'
BY DEF PlaceInv, OnePlace, NothingLost

LEMMA PlaceNext == TypeOK /\ PlaceInv /\ [Next]_vars => PlaceInv'
<1> SUFFICES ASSUME TypeOK, PlaceInv, [Next]_vars PROVE PlaceInv'
  OBVIOUS
<1> USE DEF dirVars, senderVars
<1>1. ASSUME NEW n \in Name, PutOpen(n) \/ PutWrite(n)
      PROVE  PlaceInv'
  BY <1>1, FileWritten DEF PutOpen, PutWrite
<1>2. ASSUME NEW n \in Name, PutClose(n)
      PROVE  PlaceInv'
  BY <1>2, FilesLeft DEF PutClose
<1>3. ASSUME dropped' = dropped, claimed' = claimed, writes' = writes, due' = due
      PROVE  PlaceInv'
  BY <1>3, FilesLeft
<1>4. ASSUME NEW i \in Node, Rename(i)
      PROVE  PlaceInv'
  <2>1. CASE at[i] \in DOMAIN dropped
    <3>1. PICK claim \in NextClaim(i, at[i]) : claimed' = Insert(claimed, claim, dropped[at[i]])
      BY <1>4, <2>1 DEF Rename
    <3>2. claim \notin DOMAIN claimed
      <4>1. at[i] \in Name
        BY DEF TypeOK
      <4> QED BY <4>1, NextClaimNew
    <3>3. dropped' = Without(dropped, at[i]) /\ due' = due /\ writes' = writes
      BY <1>4, <2>1 DEF Rename, Left
    <3> QED BY <2>1, <3>1, <3>2, <3>3, FileClaimed
  <2>2. CASE at[i] \notin DOMAIN dropped
    BY <1>3, <1>4, <2>2 DEF Rename
  <2> QED BY <2>1, <2>2
<1>5. ASSUME NEW i \in Node, Receiving(i)
      PROVE  PlaceInv'
  BY <1>3, <1>4, <1>5 DEF Receiving, Receive, RecoverList, Recovered, List, ListDone,
                          TurnWrite, Check, DropTurn, RecoverTurn, TurnOpen
<1>6. ASSUME NEW i \in Node, Verdicts(i)
      PROVE  PlaceInv'
  <2>1. ASSUME NEW claim \in arrivals[i], Accept(i, claim)
        PROVE  PlaceInv'
    BY <2>1, FileAccepted DEF Accept
  <2> QED BY <1>3, <1>6, <2>1 DEF Verdicts, GiveBack, VerdictLost
<1>7. ASSUME NEW i \in Node, NEW claim \in held[i], Restore(i, claim) \/ RestoreUnheard(i, claim)
      PROVE  PlaceInv'
  <2>0. due' = due /\ writes' = writes
    BY <1>7 DEF Restore, RestoreUnheard
  <2>1. CASE Returned(claim)
    BY <2>0, <2>1, FileReturned DEF Returned, Returnable
  <2>2. CASE UNCHANGED <<dropped, claimed>>
    BY <1>3, <2>0, <2>2
  <2> QED BY <1>7, <2>1, <2>2 DEF Restore, RestoreUnheard
<1>8. ASSUME NEW i \in Node, Crash(i) \/ BreakOff(i)
      PROVE  PlaceInv'
  BY <1>3, <1>8 DEF Crash, BreakOff
<1>9. CASE UNCHANGED vars
  BY <1>3, <1>9 DEF vars
<1> QED BY <1>1, <1>2, <1>5, <1>6, <1>7, <1>8, <1>9 DEF Next, Returning, Failing

LEMMA PlaceAlways == Spec => []PlaceInv
<1>1. Init => PlaceInv
  BY DEF Init, PlaceInv, OnePlace, NothingLost, Empty
<1> QED BY <1>1, PlaceNext, ClaimTypeCorrect, PTL DEF Spec

\* A finished file is in the directory until it is accepted, replaced by a put
\* that opens its name or written over by one that has it open, whatever
\* crashes, answers are lost and returns are refused.
THEOREM NoFileIsLost == Spec => []NothingLost
<1>1. PlaceInv => NothingLost
  BY DEF PlaceInv
<1> QED BY <1>1, PlaceAlways, PTL

\* No file is claimed by two nodes, nor claimed and dropped at once.
THEOREM FileInOnePlace == Spec => []OnePlace
<1>1. PlaceInv => OnePlace
  BY DEF PlaceInv
<1> QED BY <1>1, PlaceAlways, PTL
-----------------------------------------------------------------------------
(***************************************************************************)
(* Claims in hand.                                                         *)
(***************************************************************************)
\* A node has in hand, and to return, claims of its own, never the same one;
\* and before it has recovered it has none in hand, so recovery takes none.
HandInv ==
  /\ ArrivalsKept
  /\ \A i \in Node : \A c \in arrivals[i] : c.node = i /\ c \notin held[i]
  /\ \A i \in Node : \A c \in held[i] : c.node = i
  /\ \A i \in Node : ~recovered[i] => arrivals[i] = {}
  /\ \A i \in Node : pc[i] \in {"recover", "unturn"} => ~recovered[i]
  /\ \A i \in Node : pc[i] \in {"list", "claim"} \/ Busy(i) => recovered[i]

\* What concerns one node.
HandOf(i) ==
  /\ arrivals[i] \subseteq DOMAIN claimed
  /\ \A c \in arrivals[i] : c.node = i /\ c \notin held[i]
  /\ \A c \in held[i] : c.node = i
  /\ ~recovered[i] => arrivals[i] = {}
  /\ pc[i] \in {"recover", "unturn"} => ~recovered[i]
  /\ pc[i] \in {"list", "claim"} \/ Busy(i) => recovered[i]

\* A step of one node, after which the claims of the others are there.
LEMMA OneHand ==
  ASSUME HandInv, NEW i \in Node, HandOf(i)',
         \A j \in Node \ {i} : /\ arrivals'[j] = arrivals[j] /\ held'[j] = held[j]
                               /\ recovered'[j] = recovered[j] /\ pc'[j] = pc[j],
         \A c \in DOMAIN claimed : c.node # i => c \in DOMAIN claimed'
  PROVE  HandInv'
<1> SUFFICES ASSUME NEW j \in Node PROVE HandOf(j)'
  BY DEF HandInv, HandOf, ArrivalsKept
<1>1. CASE j = i
  BY <1>1
<1>2. CASE j # i
  <2>1. HandOf(j)
    BY DEF HandInv, HandOf, ArrivalsKept
  <2>2. arrivals[j] \subseteq DOMAIN claimed'
    <3> SUFFICES ASSUME NEW c \in arrivals[j] PROVE c \in DOMAIN claimed'
      OBVIOUS
    <3>1. c \in DOMAIN claimed /\ c.node = j
      BY <2>1 DEF HandOf
    <3> QED BY <1>2, <3>1
  <2> QED BY <1>2, <2>1, <2>2 DEF HandOf, Busy
<1> QED BY <1>1, <1>2

LEMMA HandNext == TypeOK /\ HandInv /\ [Next]_vars => HandInv'
<1> SUFFICES ASSUME TypeOK, HandInv, [Next]_vars PROVE HandInv'
  OBVIOUS
<1>0. /\ pc \in [Node -> State] /\ at \in [Node -> Name] /\ recovered \in [Node -> BOOLEAN]
      /\ arrivals \in [Node -> SUBSET ClaimName] /\ held \in [Node -> SUBSET ClaimName]
      /\ \A i \in Node : HandOf(i)
  BY DEF TypeOK, HandInv, HandOf, ArrivalsKept
<1> USE DEF dirVars, senderVars, receiveVars, memory, At, Goes
<1>1. ASSUME pc' = pc, arrivals' = arrivals, held' = held, recovered' = recovered, claimed' = claimed
      PROVE  HandInv'
  BY <1>1 DEF HandInv, ArrivalsKept, Busy
<1>2. ASSUME NEW n \in Name, PutOpen(n) \/ PutWrite(n) \/ PutClose(n)
      PROVE  HandInv'
  BY <1>1, <1>2 DEF PutOpen, PutWrite, PutClose
<1>3. ASSUME NEW i \in Node, Receiving(i)
      PROVE  HandInv'
  <2>1. CASE RecoverList(i)
    <3>1. /\ held'[i] = {c \in DOMAIN claimed : c.node = i} /\ pc'[i] = "unturn"
          /\ arrivals' = arrivals /\ recovered' = recovered /\ claimed' = claimed
          /\ pc[i] = "recover"
      BY <1>0, <2>1 DEF RecoverList, Own
    <3>2. HandOf(i)'
      BY <1>0, <3>1 DEF HandOf, Busy
    <3>3. \A j \in Node \ {i} : held'[j] = held[j] /\ pc'[j] = pc[j]
      BY <1>0, <2>1 DEF RecoverList
    <3> QED BY <3>1, <3>2, <3>3, OneHand
  <2>2. CASE Recovered(i)
    <3>1. /\ recovered'[i] = TRUE /\ pc'[i] = "list"
          /\ arrivals' = arrivals /\ held' = held /\ claimed' = claimed
      BY <1>0, <2>2 DEF Recovered
    <3>2. HandOf(i)'
      BY <1>0, <3>1 DEF HandOf
    <3>3. \A j \in Node \ {i} : recovered'[j] = recovered[j] /\ pc'[j] = pc[j]
      BY <1>0, <2>2 DEF Recovered
    <3> QED BY <3>1, <3>2, <3>3, OneHand
  <2>3. CASE Rename(i) /\ at[i] \in DOMAIN dropped
    <3>1. PICK claim \in NextClaim(i, at[i]) :
            /\ claimed' = Insert(claimed, claim, dropped[at[i]])
            /\ arrivals' = [arrivals EXCEPT ![i] = @ \cup {claim}]
      BY <2>3 DEF Rename
    <3>2. claim.node = i /\ claim \notin held[i] /\ claim \in ClaimName
      BY <1>0, NextClaimNew
    <3>3. /\ pc[i] = "rename" /\ pc' = [pc EXCEPT ![i] = "leave"]
          /\ held' = held /\ recovered' = recovered
      BY <2>3 DEF Rename
    <3>4. DOMAIN claimed' = DOMAIN claimed \cup {claim} /\ arrivals'[i] = arrivals[i] \cup {claim}
      BY <1>0, <3>1 DEF Insert
    <3>5. HandOf(i)'
      <4>0. HandOf(i) /\ pc'[i] = "leave"
        BY <1>0, <3>3
      <4>1. HandOf(i) /\ recovered[i] /\ pc'[i] = "leave"
        BY <3>3, <4>0 DEF HandOf, Busy
      <4>2. arrivals'[i] \subseteq DOMAIN claimed'
        BY <3>4, <4>1 DEF HandOf
      <4>3. \A c \in arrivals'[i] : c.node = i /\ c \notin held[i]
        BY <3>2, <3>4, <4>1 DEF HandOf
      <4>4. \A c \in held[i] : c.node = i
        BY <4>1 DEF HandOf
      <4> QED BY <3>3, <4>1, <4>2, <4>3, <4>4 DEF HandOf, Busy
    <3>6. \A j \in Node \ {i} : arrivals'[j] = arrivals[j] /\ pc'[j] = pc[j]
      BY <1>0, <3>1, <3>3
    <3> QED BY <3>3, <3>4, <3>5, <3>6, OneHand
  <2>4. CASE \/ Receive(i) \/ List(i) \/ ListDone(i) \/ TurnWrite(i) \/ Check(i) \/ DropTurn(i)
             \/ Rename(i) /\ at[i] \notin DOMAIN dropped
             \/ \E n \in Name : n \notin DOMAIN turn /\ TurnOpen(i, n)
    <3>1. /\ arrivals' = arrivals /\ held' = held /\ recovered' = recovered /\ claimed' = claimed
          /\ \A j \in Node \ {i} : pc'[j] = pc[j]
      BY <1>0, <2>4 DEF Receive, List, ListDone, TurnWrite, Check, DropTurn, Rename, TurnOpen
    <3>2. \/ recovered[i] /\ pc'[i] \notin {"recover", "unturn"}
          \/ ~recovered[i] /\ pc'[i] = "recover"
      <4>1. CASE Receive(i)
        BY <1>0, <4>1 DEF Receive
      <4>2. CASE ~Receive(i)
        <5>1. pc[i] \in {"list", "claim"} \/ Busy(i)
          BY <2>4, <4>2 DEF List, ListDone, TurnWrite, Check, DropTurn, Rename, TurnOpen, Busy
        <5>2. pc'[i] \notin {"recover", "unturn"}
          BY <1>0, <2>4, <4>2 DEF List, ListDone, TurnWrite, Check, DropTurn, Rename, TurnOpen
        <5> QED BY <1>0, <5>1, <5>2 DEF HandOf
      <4> QED BY <4>1, <4>2
    <3>3. HandOf(i)'
      BY <1>0, <3>1, <3>2 DEF HandOf, Busy
    <3> QED BY <3>1, <3>3, OneHand
  <2>5. ASSUME NEW n \in Name, RecoverTurn(i, n) \/ TurnOpen(i, n)
        PROVE  HandInv'
    <3>1. CASE n \notin DOMAIN turn /\ TurnOpen(i, n)
      BY <2>4, <3>1
    <3>2. CASE RecoverTurn(i, n) \/ (n \in DOMAIN turn /\ TurnOpen(i, n))
      BY <1>1, <3>2 DEF RecoverTurn, TurnOpen
    <3> QED BY <2>5, <3>1, <3>2
  <2>6. CASE Rename(i)
    BY <2>3, <2>4, <2>6
  <2> QED BY <1>3, <2>1, <2>2, <2>4, <2>5, <2>6 DEF Receiving
<1>4. ASSUME NEW i \in Node, NEW claim \in arrivals[i],
             \/ Accept(i, claim) \/ VerdictLost(i, claim)
             \/ \E remembered \in BOOLEAN : GiveBack(i, claim, remembered)
      PROVE  HandInv'
  <2>1. /\ arrivals' = [arrivals EXCEPT ![i] = @ \ {claim}]
        /\ held' \in {held, [held EXCEPT ![i] = @ \cup {claim}]}
        /\ recovered' = recovered /\ pc' = pc
        /\ claimed' \in {claimed, Without(claimed, claim)}
    BY <1>4 DEF Accept, VerdictLost, GiveBack
  <2>2. claim.node = i
    BY <1>0 DEF HandOf
  <2>3. /\ arrivals'[i] = arrivals[i] \ {claim} /\ held'[i] \subseteq held[i] \cup {claim}
        /\ DOMAIN claimed \ {claim} \subseteq DOMAIN claimed'
        /\ \A j \in Node \ {i} : arrivals'[j] = arrivals[j] /\ held'[j] = held[j]
    BY <1>0, <2>1 DEF Without
  <2>4. HandOf(i)'
    <3>1. HandOf(i)
      BY <1>0
    <3>2. arrivals'[i] \subseteq DOMAIN claimed'
      BY <2>1, <2>2, <2>3, <3>1 DEF HandOf
    <3>3. \A c \in arrivals'[i] : c.node = i /\ c \notin held'[i]
      BY <2>1, <2>2, <2>3, <3>1 DEF HandOf
    <3>4. \A c \in held'[i] : c.node = i
      BY <2>2, <2>3, <3>1 DEF HandOf
    <3>5. ~recovered'[i] => arrivals'[i] = {}
      BY <2>1, <2>3, <3>1 DEF HandOf
    <3>6. /\ pc'[i] \in {"recover", "unturn"} => ~recovered'[i]
          /\ pc'[i] \in {"list", "claim"} \/ Busy(i)' => recovered'[i]
      BY <2>1, <3>1 DEF HandOf, Busy
    <3> QED BY <3>2, <3>3, <3>4, <3>5, <3>6 DEF HandOf, Busy
  <2> QED BY <2>1, <2>2, <2>3, <2>4, OneHand
<1>5. ASSUME NEW i \in Node, NEW claim \in held[i], Restore(i, claim) \/ RestoreUnheard(i, claim)
      PROVE  HandInv'
  <2>1. /\ held' \in {held, [held EXCEPT ![i] = @ \ {claim}]}
        /\ arrivals' = arrivals /\ recovered' = recovered /\ pc' = pc
        /\ claimed' \in {claimed, Without(claimed, claim)}
    BY <1>5 DEF Restore, RestoreUnheard, Returned
  <2>2. claim.node = i /\ claim \notin arrivals[i]
    BY <1>0 DEF HandOf
  <2>3. /\ held'[i] \subseteq held[i]
        /\ DOMAIN claimed \ {claim} \subseteq DOMAIN claimed'
        /\ \A j \in Node \ {i} : held'[j] = held[j]
    BY <1>0, <2>1 DEF Without
  <2>4. HandOf(i)'
    <3>1. HandOf(i)
      BY <1>0
    <3>2. arrivals'[i] \subseteq DOMAIN claimed'
      BY <2>1, <2>2, <2>3, <3>1 DEF HandOf
    <3>3. \A c \in arrivals'[i] : c.node = i /\ c \notin held'[i]
      BY <2>1, <2>2, <2>3, <3>1 DEF HandOf
    <3>4. \A c \in held'[i] : c.node = i
      BY <2>2, <2>3, <3>1 DEF HandOf
    <3>5. ~recovered'[i] => arrivals'[i] = {}
      BY <2>1, <2>3, <3>1 DEF HandOf
    <3>6. /\ pc'[i] \in {"recover", "unturn"} => ~recovered'[i]
          /\ pc'[i] \in {"list", "claim"} \/ Busy(i)' => recovered'[i]
      BY <2>1, <3>1 DEF HandOf, Busy
    <3> QED BY <3>2, <3>3, <3>4, <3>5, <3>6 DEF HandOf, Busy
  <2> QED BY <2>1, <2>2, <2>3, <2>4, OneHand
<1>6. ASSUME NEW i \in Node, Crash(i)
      PROVE  HandInv'
  <2>1. /\ arrivals'[i] = {} /\ held'[i] = {} /\ recovered'[i] = FALSE /\ pc'[i] = "idle"
        /\ claimed' = claimed
        /\ \A j \in Node \ {i} : /\ arrivals'[j] = arrivals[j] /\ held'[j] = held[j]
                                 /\ recovered'[j] = recovered[j] /\ pc'[j] = pc[j]
    BY <1>0, <1>6 DEF Crash
  <2>2. HandOf(i)'
    BY <2>1 DEF HandOf, Busy
  <2> QED BY <2>1, <2>2, OneHand
<1>7. ASSUME NEW i \in Node, BreakOff(i)
      PROVE  HandInv'
  <2>1. /\ arrivals'[i] \subseteq arrivals[i] /\ pc'[i] = "idle"
        /\ held' = held /\ recovered' = recovered /\ claimed' = claimed
        /\ \A j \in Node \ {i} : arrivals'[j] = arrivals[j] /\ pc'[j] = pc[j]
    <3>1. PICK kept \in SUBSET arrivals[i] : arrivals' = [arrivals EXCEPT ![i] = kept]
      BY <1>7 DEF BreakOff
    <3> QED BY <1>0, <1>7, <3>1 DEF BreakOff
  <2>2. HandOf(i)'
    BY <1>0, <2>1 DEF HandOf, Busy
  <2> QED BY <2>1, <2>2, OneHand
<1>8. CASE UNCHANGED vars
  BY <1>1, <1>8 DEF vars
<1> QED BY <1>2, <1>3, <1>4, <1>5, <1>6, <1>7, <1>8 DEF Next, Verdicts, Returning, Failing

LEMMA HandAlways == Spec => []HandInv
<1>1. Init => HandInv
  BY DEF Init, HandInv, ArrivalsKept, Busy
<1> QED BY <1>1, HandNext, ClaimTypeCorrect, PTL DEF Spec

\* What a runtime has in hand stays claimed until its own verdict: no listing,
\* recovery or late return, of this node or another, takes it away.
THEOREM InHandIsKept == Spec => []ArrivalsKept
<1>1. HandInv => ArrivalsKept
  BY DEF HandInv
<1> QED BY <1>1, HandAlways, PTL
-----------------------------------------------------------------------------
(***************************************************************************)
(* Refused files.                                                          *)
(***************************************************************************)
\* The names a node has listed and not yet claimed or left.
Looking(i) ==
  {n \in DOMAIN todo[i] : \/ pc[i] \in {"claim", "sign", "check"}
                          \/ pc[i] \in {"rename", "leave"} /\ n # at[i]}

\* The file, under that name, is none that the node refused, nor one that it
\* has in hand and may refuse yet.
Fresh(i, n, f) ==
  /\ n \in DOMAIN refused[i] => refused[i][n] # f
  /\ \A c \in arrivals[i] : c.name = n => claimed[c] # f

\* What a node is about to claim is fresh, from its listing to its rename,
\* whatever verdicts arrive and whatever senders write in between.
FreshOf(i) ==
  /\ \A n \in Looking(i) : Fresh(i, n, todo[i][n])
  /\ pc[i] \in {"sign", "check"} => at[i] \in DOMAIN todo[i]
  /\ pc[i] = "rename" => at[i] \in DOMAIN dropped /\ Fresh(i, at[i], dropped[at[i]])
  /\ \A n \in DOMAIN refused[i] : refused[i][n] <= writes

FreshInv == \A i \in Node : FreshOf(i)

\* A step that brings the node to no other file and no other verdict.
LEMMA FreshKeeps ==
  ASSUME NEW j \in Node, FreshOf(j),
         \A n \in Looking(j)' : n \in Looking(j) /\ todo'[j][n] = todo[j][n],
         refused'[j] = refused[j],
         \A c \in arrivals'[j] : c \in arrivals[j] /\ claimed'[c] = claimed[c],
         pc'[j] \in {"sign", "check"} => at'[j] \in DOMAIN todo'[j],
         pc'[j] = "rename" =>
           /\ pc[j] = "rename" /\ at'[j] = at[j]
           /\ at[j] \in DOMAIN dropped' /\ dropped'[at[j]] = dropped[at[j]],
         writes' = writes
  PROVE  FreshOf(j)'
<1>1. ASSUME NEW n, NEW f, Fresh(j, n, f)
      PROVE  Fresh(j, n, f)'
  BY <1>1 DEF Fresh
<1>2. ASSUME NEW n \in Looking(j)'
      PROVE  Fresh(j, n, todo[j][n])' /\ todo'[j][n] = todo[j][n]
  BY <1>1, <1>2 DEF FreshOf
<1>3. ASSUME pc'[j] = "rename"
      PROVE  /\ at'[j] \in DOMAIN dropped'
             /\ Fresh(j, at[j], dropped[at[j]])'
             /\ at'[j] = at[j] /\ dropped'[at[j]] = dropped[at[j]]
  BY <1>1, <1>3 DEF FreshOf
<1> QED BY <1>2, <1>3 DEF FreshOf, Fresh

\* A node between two listings looks at nothing.
LEMMA FreshIdle ==
  ASSUME NEW j \in Node, FreshOf(j), pc'[j] \in {"idle", "recover", "unturn", "list"},
         refused'[j] \in {refused[j], Empty}, writes' = writes
  PROVE  FreshOf(j)'
<1>1. \A n : n \notin Looking(j)'
  BY DEF Looking
<1> QED BY <1>1 DEF FreshOf, Empty

\* A sender's write is of a file no node has refused or has in hand.
LEMMA FreshWritten ==
  ASSUME TypeOK, PlaceInv, ArrivalsKept, NEW j \in Node, FreshOf(j), NEW n \in Name,
         writes' = writes + 1, dropped' = Insert(dropped, n, writes'),
         UNCHANGED <<claimed, pc, at, todo, refused, arrivals>>
  PROVE  FreshOf(j)'
<1>0. /\ writes \in Nat /\ writes' = writes + 1
      /\ \A m \in DOMAIN refused[j] : refused[j][m] \in Nat /\ refused[j][m] <= writes
      /\ \A c \in arrivals[j] : claimed[c] \in Nat /\ claimed[c] <= writes
  <2>0. writes \in 0 .. MaxWrites
    BY DEF TypeOK
  <2>1. writes \in Nat /\ File \subseteq Nat
    BY <2>0, ClaimAssumption DEF File
  <2>2. \A m \in DOMAIN refused[j] : refused[j][m] \in File
    BY DEF TypeOK, Stamps, IsMap
  <2>3. \A c \in arrivals[j] : c \in DOMAIN claimed /\ claimed[c] \in File
    BY DEF TypeOK, IsMap, ArrivalsKept
  <2>4. \A m \in DOMAIN refused[j] : refused[j][m] <= writes
    BY DEF FreshOf
  <2>5. \A c \in arrivals[j] : claimed[c] <= writes
    BY <2>3 DEF PlaceInv
  <2> QED BY <2>1, <2>2, <2>3, <2>4, <2>5
<1>1. /\ DOMAIN dropped' = DOMAIN dropped \cup {n} /\ dropped'[n] = writes + 1
      /\ \A m \in DOMAIN dropped : m # n => dropped'[m] = dropped[m]
  BY DEF Insert
<1>2. Looking(j)' = Looking(j)
  BY DEF Looking
<1>3. ASSUME NEW m, NEW f, Fresh(j, m, f)
      PROVE  Fresh(j, m, f)'
  BY <1>3 DEF Fresh
<1>4. \A m \in Looking(j) : Fresh(j, m, todo[j][m])'
  BY <1>3 DEF FreshOf
<1>5. /\ \A m \in DOMAIN refused'[j] : refused'[j][m] # dropped'[n]
      /\ \A c \in arrivals'[j] : claimed'[c] # dropped'[n]
  <2>1. \A k \in Nat : k <= writes => k # writes + 1
    BY <1>0
  <2> QED BY <1>0, <1>1, <2>1
<1>6. ASSUME pc[j] = "rename"
      PROVE  at[j] \in DOMAIN dropped' /\ Fresh(j, at[j], dropped[at[j]])
  BY <1>1, <1>6 DEF FreshOf
<1>7. ASSUME pc[j] = "rename"
      PROVE  (Fresh(j, at[j], dropped[at[j]]))'
  <2>1. CASE at[j] = n
    BY <1>5, <2>1 DEF Fresh
  <2>2. CASE at[j] # n
    BY <1>1, <1>6, <1>7, <2>2 DEF Fresh, FreshOf
  <2> QED BY <2>1, <2>2
<1>8. \A m \in Looking(j)' : Fresh(j, m, todo[j][m])'
  BY <1>2, <1>4
<1>9. \A m \in DOMAIN refused'[j] : refused'[j][m] <= writes'
  <2>1. \A k \in Nat : k <= writes => k <= writes + 1
    BY <1>0
  <2> QED BY <1>0, <2>1
<1>10. pc'[j] \in {"sign", "check"} => at'[j] \in DOMAIN todo'[j]
  BY DEF FreshOf
<1> QED BY <1>6, <1>7, <1>8, <1>9, <1>10 DEF FreshOf
\* The steps of one node leave what the others are about to claim: it is in
\* their turn, and their claims carry their name.
LEMMA OthersFresh ==
  ASSUME TypeOK, TurnInv, HandInv, FreshInv, NEW i \in Node, NEW j \in Node, j # i,
         Receiving(i) \/ Verdicts(i) \/ Returning(i) \/ Failing(i)
  PROVE  FreshOf(j)'
<1> USE DEF dirVars, senderVars, receiveVars, memory, At, Goes
<1>0. /\ pc \in [Node -> State] /\ at \in [Node -> Name]
      /\ arrivals \in [Node -> SUBSET ClaimName] /\ held \in [Node -> SUBSET ClaimName]
      /\ DOMAIN todo = Node /\ DOMAIN refused = Node
  BY DEF TypeOK, Stamps
<1>1. /\ pc'[j] = pc[j] /\ at'[j] = at[j] /\ todo'[j] = todo[j]
      /\ refused'[j] = refused[j] /\ arrivals'[j] = arrivals[j] /\ writes' = writes
  <2>1. CASE Receiving(i)
    <3>1. CASE Rename(i)
      BY <1>0, <3>1 DEF Rename
    <3>2. CASE ~ Rename(i)
      BY <1>0, <2>1, <3>2 DEF Receiving, Receive, RecoverList, Recovered, List, ListDone,
                              TurnWrite, Check, DropTurn, RecoverTurn, TurnOpen
    <3> QED BY <3>1, <3>2
  <2>2. CASE Verdicts(i) \/ Returning(i)
    BY <1>0, <2>2 DEF Verdicts, Returning, Accept, GiveBack, VerdictLost, Restore
  <2>3. CASE Failing(i)
    BY <1>0, <2>3 DEF Failing, Crash, BreakOff, RestoreUnheard
  <2> QED BY <2>1, <2>2, <2>3
<1>2. \/ dropped' = dropped /\ claimed' = claimed
      \/ /\ pc[i] = "rename" /\ dropped' = Without(dropped, at[i])
         /\ \E c \in NextClaim(i, at[i]) : claimed' = Insert(claimed, c, dropped[at[i]])
      \/ dropped' = dropped /\ \E c \in arrivals[i] : claimed' = Without(claimed, c)
      \/ \E c \in held[i] : Returned(c)
  <2>1. CASE Receiving(i)
    BY <2>1 DEF Receiving, Receive, RecoverList, Recovered, List, ListDone, Rename, Left,
                TurnWrite, Check, DropTurn, RecoverTurn, TurnOpen
  <2>2. CASE Verdicts(i)
    BY <2>2 DEF Verdicts, Accept, GiveBack, VerdictLost
  <2>3. CASE Returning(i) \/ Failing(i)
    BY <2>3 DEF Returning, Restore, Failing, Crash, BreakOff, RestoreUnheard
  <2> QED BY <2>1, <2>2, <2>3
<1>3. \A c \in arrivals[j] : c \in DOMAIN claimed /\ c.node = j
  BY DEF HandInv, ArrivalsKept
<1>4. \A c : c \in arrivals[i] \/ c \in held[i] => c.node = i
  BY DEF HandInv
<1>5. ASSUME NEW c \in arrivals[j]
      PROVE  claimed'[c] = claimed[c]
  <2>1. c \in DOMAIN claimed /\ c.node # i
    BY <1>3
  <2>2. ASSUME NEW d \in NextClaim(i, at[i]), claimed' = Insert(claimed, d, dropped[at[i]])
        PROVE  claimed'[c] = claimed[c]
    <3>1. d \notin DOMAIN claimed
      BY <1>0, NextClaimNew
    <3> QED BY <2>1, <2>2, <3>1 DEF Insert
  <2>3. ASSUME NEW d, d.node = i, claimed' = Without(claimed, d)
        PROVE  claimed'[c] = claimed[c]
    BY <2>1, <2>3 DEF Without
  <2> QED BY <1>2, <1>4, <2>2, <2>3 DEF Returned
<1>6. ASSUME pc[j] = "rename"
      PROVE  at[j] \in DOMAIN dropped' /\ dropped'[at[j]] = dropped[at[j]]
  <2>1. at[j] \in DOMAIN dropped
    BY <1>6 DEF FreshInv, FreshOf
  <2>2. CASE pc[i] = "rename" /\ dropped' = Without(dropped, at[i])
    <3>1. /\ at[i] \in DOMAIN turn /\ turn[at[i]].maker = i
          /\ at[j] \in DOMAIN turn /\ turn[at[j]].maker = j
      BY <1>6, <2>2 DEF TurnInv, Busy
    <3>2. at[i] # at[j]
      BY <3>1
    <3> QED BY <2>1, <2>2, <3>2 DEF Without
  <2>3. CASE \E c \in held[i] : Returned(c)
    BY <2>1, <2>3 DEF Returned, Returnable, Insert
  <2> QED BY <1>2, <2>1, <2>2, <2>3
<1>7. Looking(j)' = Looking(j)
  BY <1>1 DEF Looking
<1>8. FreshOf(j) /\ (pc[j] \in {"sign", "check"} => at[j] \in DOMAIN todo[j])
  BY DEF FreshInv, FreshOf
<1> QED BY <1>1, <1>5, <1>6, <1>7, <1>8, FreshKeeps
\* The requests of a receive: what is listed is fresh, and what is renamed is
\* what was checked or a later write.
LEMMA ReceivingFresh ==
  ASSUME TypeOK, TurnInv, PlaceInv, HandInv, FreshInv, NEW i \in Node, Receiving(i)
  PROVE  FreshOf(i)'
<1> USE DEF dirVars, senderVars, receiveVars, memory, At, Goes
<1>0. /\ pc \in [Node -> State] /\ at \in [Node -> Name]
      /\ arrivals \in [Node -> SUBSET ClaimName]
      /\ DOMAIN todo = Node /\ DOMAIN refused = Node
      /\ FreshOf(i)
  BY DEF TypeOK, Stamps, FreshInv
<1>1. CASE \/ Receive(i) \/ RecoverList(i) \/ Recovered(i) \/ ListDone(i)
           \/ \E n \in Name : RecoverTurn(i, n)
  <2>1. /\ pc'[i] \in {"idle", "recover", "unturn", "list"}
        /\ refused' = refused /\ writes' = writes
    BY <1>0, <1>1 DEF Receive, RecoverList, Recovered, ListDone, RecoverTurn
  <2> QED BY <1>0, <2>1, FreshIdle
<1>2. CASE List(i)
  <2>1. /\ pc'[i] = "claim" /\ todo'[i] = [n \in Stable(i) |-> dropped[n]]
        /\ UNCHANGED <<refused, arrivals, claimed, writes>>
    BY <1>0, <1>2 DEF List
  <2>2. ASSUME NEW n \in Looking(i)'
        PROVE  /\ n \in DOMAIN dropped /\ todo'[i][n] = dropped[n]
               /\ n \in DOMAIN refused[i] => refused[i][n] # dropped[n]
    BY <2>1, <2>2 DEF Looking, Stable
  <2>3. ASSUME NEW n \in Looking(i)', NEW c \in arrivals[i]
        PROVE  claimed[c] # dropped[n]
    BY <2>2, <2>3 DEF PlaceInv, OnePlace, HandInv, ArrivalsKept
  <2>4. ASSUME NEW n \in Looking(i)'
        PROVE  Fresh(i, n, todo[i][n])'
    BY <2>1, <2>2, <2>3, <2>4 DEF Fresh
  <2>5. \A n \in DOMAIN refused'[i] : refused'[i][n] <= writes'
    BY <1>0, <2>1 DEF FreshOf
  <2> QED BY <2>1, <2>4, <2>5 DEF FreshOf
<1>3. ASSUME NEW n \in Name, TurnOpen(i, n)
      PROVE  FreshOf(i)'
  <2>1. /\ pc[i] = "claim" /\ n \in DOMAIN todo[i]
        /\ UNCHANGED <<dropped, claimed, refused, arrivals, writes>>
        /\ \/ todo'[i] = Without(todo[i], n) /\ pc'[i] = "claim"
           \/ todo'[i] = todo[i] /\ pc'[i] = "sign" /\ at'[i] = n
    BY <1>0, <1>3 DEF TurnOpen
  <2>2. \A m \in Looking(i)' : m \in Looking(i) /\ todo'[i][m] = todo[i][m]
    BY <2>1 DEF Looking, Without
  <2> QED BY <1>0, <2>1, <2>2, FreshKeeps
<1>4. CASE TurnWrite(i)
  <2>1. /\ pc[i] = "sign" /\ pc'[i] = "check"
        /\ UNCHANGED <<dropped, claimed, refused, arrivals, writes, at, todo>>
    BY <1>0, <1>4 DEF TurnWrite
  <2>2. \A m \in Looking(i)' : m \in Looking(i)
    BY <2>1 DEF Looking
  <2>3. at[i] \in DOMAIN todo[i]
    BY <1>0, <2>1 DEF FreshOf
  <2> QED BY <1>0, <2>1, <2>2, <2>3, FreshKeeps
<1>5. CASE Check(i)
  <2>1. /\ pc[i] = "check" /\ pc'[i] \in {"rename", "leave"}
        /\ pc'[i] = "rename" => at[i] \in DOMAIN dropped /\ dropped[at[i]] = todo[i][at[i]]
        /\ UNCHANGED <<dropped, claimed, refused, arrivals, writes, at, todo>>
    BY <1>0, <1>5 DEF Check
  <2>2. \A m \in Looking(i)' : m \in Looking(i)
    BY <2>1 DEF Looking
  <2>3. at[i] \in Looking(i)
    BY <1>0, <2>1 DEF FreshOf, Looking
  <2>4. Fresh(i, at[i], todo[i][at[i]]) /\ \A m \in Looking(i) : Fresh(i, m, todo[i][m])
    BY <1>0, <2>3 DEF FreshOf
  <2>5. \A m \in Looking(i)' : Fresh(i, m, todo[i][m])'
    BY <2>1, <2>2, <2>4 DEF Fresh
  <2>6. pc'[i] = "rename" => (at[i] \in DOMAIN dropped /\ Fresh(i, at[i], dropped[at[i]]))'
    BY <2>1, <2>4 DEF Fresh
  <2>7. \A n \in DOMAIN refused'[i] : refused'[i][n] <= writes'
    BY <1>0, <2>1 DEF FreshOf
  <2> QED BY <2>1, <2>5, <2>6, <2>7 DEF FreshOf
<1>6. CASE Rename(i)
  <2>1. /\ pc[i] = "rename" /\ pc'[i] = "leave"
        /\ UNCHANGED <<refused, writes, at>>
        /\ todo'[i] \in {todo[i], Empty}
    BY <1>0, <1>6 DEF Rename
  <2>2. \A m \in Looking(i)' : m \in Looking(i) /\ todo'[i][m] = todo[i][m] /\ m # at[i]
    BY <2>1 DEF Looking, Empty
  <2>3. PICK claim \in NextClaim(i, at[i]) :
          /\ claimed' = Insert(claimed, claim, dropped[at[i]])
          /\ arrivals' = [arrivals EXCEPT ![i] = @ \cup {claim}]
    BY <1>0, <1>6, <2>1 DEF Rename, FreshOf
  <2>4. claim.name = at[i] /\ claim \notin DOMAIN claimed
    <3>1. at[i] \in Name
      BY <1>0
    <3> QED BY <3>1, NextClaimNew
  <2>5. \A c \in arrivals'[i] : c # claim => c \in arrivals[i] /\ claimed'[c] = claimed[c]
    BY <1>0, <2>3 DEF Insert, HandInv, ArrivalsKept
  <2>6. ASSUME NEW m \in Looking(i)'
        PROVE  Fresh(i, m, todo[i][m])'
    <3>1. Fresh(i, m, todo[i][m])
      BY <1>0, <2>2, <2>6 DEF FreshOf
    <3> QED BY <2>1, <2>2, <2>4, <2>5, <2>6, <3>1 DEF Fresh
  <2>7. \A n \in DOMAIN refused'[i] : refused'[i][n] <= writes'
    BY <1>0, <2>1 DEF FreshOf
  <2> QED BY <2>1, <2>6, <2>7 DEF FreshOf
<1>7. CASE DropTurn(i)
  <2>1. /\ pc[i] = "leave" /\ pc'[i] = "claim" /\ todo'[i] = Without(todo[i], at[i])
        /\ UNCHANGED <<dropped, claimed, refused, arrivals, writes, at>>
    BY <1>0, <1>7 DEF DropTurn
  <2>2. \A m \in Looking(i)' : m \in Looking(i) /\ todo'[i][m] = todo[i][m]
    BY <2>1 DEF Looking, Without
  <2> QED BY <1>0, <2>1, <2>2, FreshKeeps
<1> QED BY <1>1, <1>2, <1>3, <1>4, <1>5, <1>6, <1>7 DEF Receiving

\* A verdict, a return and a failure: a refusal is of a file in hand, which is
\* none the node is about to claim.
LEMMA VerdictsFresh ==
  ASSUME TypeOK, PlaceInv, HandInv, FreshInv, NEW i \in Node,
         Verdicts(i) \/ Returning(i) \/ Failing(i)
  PROVE  FreshOf(i)'
<1> USE DEF dirVars, senderVars, receiveVars, memory
<1>0. /\ pc \in [Node -> State] /\ at \in [Node -> Name]
      /\ arrivals \in [Node -> SUBSET ClaimName]
      /\ DOMAIN todo = Node /\ DOMAIN refused = Node
      /\ FreshOf(i) /\ (pc[i] \in {"sign", "check"} => at[i] \in DOMAIN todo[i])
      /\ pc[i] = "rename" => at[i] \in DOMAIN dropped
  BY DEF TypeOK, Stamps, FreshInv, FreshOf
<1>1. ASSUME NEW claim \in arrivals[i], Accept(i, claim) \/ VerdictLost(i, claim)
      PROVE  FreshOf(i)'
  <2>1. /\ UNCHANGED <<dropped, refused, writes, pc, at, todo>>
        /\ arrivals'[i] = arrivals[i] \ {claim}
        /\ claimed' \in {claimed, Without(claimed, claim)}
    BY <1>0, <1>1 DEF Accept, VerdictLost
  <2>2. \A c \in arrivals'[i] : c \in arrivals[i] /\ claimed'[c] = claimed[c]
    BY <2>1 DEF Without, HandInv, ArrivalsKept
  <2>3. Looking(i)' = Looking(i)
    BY <2>1 DEF Looking
  <2> QED BY <1>0, <2>1, <2>2, <2>3, FreshKeeps
<1>2. ASSUME NEW claim \in arrivals[i], NEW remembered \in BOOLEAN, GiveBack(i, claim, remembered)
      PROVE  FreshOf(i)'
  <2>1. /\ UNCHANGED <<dropped, claimed, writes, pc, at, todo>>
        /\ arrivals'[i] = arrivals[i] \ {claim}
        /\ refused'[i] \in {refused[i], Insert(refused[i], claim.name, claimed[claim])}
    BY <1>0, <1>2 DEF GiveBack
  <2>2. Looking(i)' = Looking(i)
    BY <2>1 DEF Looking
  <2>3. ASSUME NEW n, NEW f, Fresh(i, n, f)
        PROVE  Fresh(i, n, f)'
    BY <2>1, <2>3 DEF Fresh, Insert
  <2>4. \A n \in Looking(i)' : Fresh(i, n, todo[i][n])'
    BY <1>0, <2>1, <2>2, <2>3 DEF FreshOf
  <2>5. pc'[i] = "rename" => (at[i] \in DOMAIN dropped /\ Fresh(i, at[i], dropped[at[i]]))'
    BY <1>0, <2>1, <2>3 DEF FreshOf
  <2>6. claimed[claim] <= writes
    BY DEF PlaceInv, HandInv, ArrivalsKept
  <2>7. \A n \in DOMAIN refused'[i] : refused'[i][n] <= writes'
    <3>1. \A n \in DOMAIN refused[i] : refused[i][n] <= writes
      BY <1>0 DEF FreshOf
    <3>2. \A n \in DOMAIN refused'[i] :
            \/ n \in DOMAIN refused[i] /\ refused'[i][n] = refused[i][n]
            \/ refused'[i][n] = claimed[claim]
      <4>1. CASE refused'[i] = refused[i]
        BY <4>1
      <4>2. CASE refused'[i] = Insert(refused[i], claim.name, claimed[claim])
        BY <4>2 DEF Insert
      <4> QED BY <2>1, <4>1, <4>2
    <3> QED BY <2>1, <2>6, <3>1, <3>2
  <2> QED BY <1>0, <2>1, <2>4, <2>5, <2>7 DEF FreshOf
<1>3. ASSUME NEW claim \in held[i], Restore(i, claim) \/ RestoreUnheard(i, claim)
      PROVE  FreshOf(i)'
  <2>1. /\ UNCHANGED <<refused, arrivals, writes, pc, at, todo>>
        /\ Returned(claim) \/ UNCHANGED <<dropped, claimed>>
    BY <1>3 DEF Restore, RestoreUnheard
  <2>2. claim \notin arrivals[i]
    BY DEF HandInv
  <2>3. \A c \in arrivals[i] : claimed'[c] = claimed[c]
    BY <2>1, <2>2 DEF Returned, Without, HandInv, ArrivalsKept
  <2>4. \A n \in DOMAIN dropped : n \in DOMAIN dropped' /\ dropped'[n] = dropped[n]
    BY <2>1 DEF Returned, Returnable, Insert
  <2>5. Looking(i)' = Looking(i)
    BY <2>1 DEF Looking
  <2> QED BY <1>0, <2>1, <2>3, <2>4, <2>5, FreshKeeps
<1>4. CASE Crash(i) \/ BreakOff(i)
  <2>1. pc'[i] = "idle" /\ refused'[i] \in {refused[i], Empty} /\ writes' = writes
    BY <1>0, <1>4 DEF Crash, BreakOff
  <2> QED BY <1>0, <2>1, FreshIdle
<1> QED BY <1>1, <1>2, <1>3, <1>4 DEF Verdicts, Returning, Failing

LEMMA FreshNext ==
  TypeOK /\ TurnInv /\ PlaceInv /\ HandInv /\ FreshInv /\ [Next]_vars => FreshInv'
<1> SUFFICES ASSUME TypeOK, TurnInv, PlaceInv, HandInv, FreshInv, [Next]_vars,
                    NEW j \in Node
             PROVE  FreshOf(j)'
  BY DEF FreshInv
<1> USE DEF dirVars, senderVars, receiveVars, memory
<1>0. FreshOf(j) /\ ArrivalsKept
  BY DEF FreshInv, HandInv
<1>1. ASSUME NEW n \in Name, PutOpen(n) \/ PutWrite(n)
      PROVE  FreshOf(j)'
  BY <1>0, <1>1, FreshWritten DEF PutOpen, PutWrite
<1>2. ASSUME UNCHANGED <<dropped, claimed, writes, pc, at, todo, refused, arrivals>>
      PROVE  FreshOf(j)'
  BY <1>0, <1>2 DEF FreshOf, Looking, Fresh
<1>3. ASSUME NEW n \in Name, PutClose(n)
      PROVE  FreshOf(j)'
  BY <1>2, <1>3 DEF PutClose
<1>4. ASSUME NEW i \in Node, Receiving(i) \/ Verdicts(i) \/ Returning(i) \/ Failing(i)
      PROVE  FreshOf(j)'
  <2>1. CASE j = i
    BY <1>4, <2>1, ReceivingFresh, VerdictsFresh
  <2>2. CASE j # i
    BY <1>4, <2>2, OthersFresh
  <2> QED BY <2>1, <2>2
<1>5. CASE UNCHANGED vars
  BY <1>2, <1>5 DEF vars
<1> QED BY <1>1, <1>3, <1>4, <1>5 DEF Next

\* A node does not receive again a file it refused, while it is unchanged
\* (Claiming's memory of refused stamps): not when the refusal is told between
\* its listing and its rename, not after a return, a crash of another node or
\* a sender's write in between.
THEOREM RefusedIsLeft == Spec => RefusedStays
<1> DEFINE Stays == \A i \in Node : \A claim \in arrivals'[i] \ arrivals[i] :
                      claim.name \in DOMAIN refused[i] => refused[i][claim.name] # claimed'[claim]
<1>1. Init => FreshInv
  BY DEF Init, FreshInv, FreshOf, Looking, Empty
<1>2. Spec => []FreshInv
  BY <1>1, FreshNext, ClaimTypeCorrect, TurnAlways, PlaceAlways, HandAlways, PTL DEF Spec
<1>3. TypeOK /\ FreshInv /\ [Next]_vars => [Stays]_vars
  <2> SUFFICES ASSUME TypeOK, FreshInv, Next, NEW i \in Node,
                      NEW claim \in arrivals'[i] \ arrivals[i],
                      claim.name \in DOMAIN refused[i]
               PROVE  refused[i][claim.name] # claimed'[claim]
    BY Zenon
  <2>0. arrivals \in [Node -> SUBSET ClaimName] /\ at \in [Node -> Name]
    BY DEF TypeOK
  <2>1. Rename(i)
    <3>1. ASSUME NEW j \in Node, Receiving(j)
          PROVE  arrivals' = arrivals \/ (j = i /\ Rename(i))
      <4>1. CASE Rename(j)
        BY <2>0, <4>1 DEF Rename
      <4>2. CASE ~ Rename(j)
        BY <3>1, <4>2 DEF Receiving, Receive, RecoverList, Recovered, List, ListDone,
                          TurnWrite, Check, DropTurn, RecoverTurn, TurnOpen, memory
      <4> QED BY <4>1, <4>2
    <3>2. ASSUME NEW j \in Node, Verdicts(j) \/ Returning(j) \/ Failing(j)
          PROVE  arrivals'[i] \subseteq arrivals[i]
      <4>1. CASE Verdicts(j)
        BY <2>0, <4>1 DEF Verdicts, Accept, GiveBack, VerdictLost
      <4>2. CASE Returning(j) \/ Failing(j)
        BY <2>0, <4>2 DEF Returning, Restore, Failing, Crash, BreakOff, RestoreUnheard, memory
      <4> QED BY <3>2, <4>1, <4>2
    <3>3. ASSUME NEW n \in Name, PutOpen(n) \/ PutWrite(n) \/ PutClose(n)
          PROVE  arrivals' = arrivals
      BY <3>3 DEF PutOpen, PutWrite, PutClose, memory
    <3> QED BY <3>1, <3>2, <3>3 DEF Next
  <2>2. PICK c \in NextClaim(i, at[i]) :
          /\ claimed' = Insert(claimed, c, dropped[at[i]])
          /\ arrivals' = [arrivals EXCEPT ![i] = @ \cup {c}]
    BY <2>0, <2>1 DEF Rename
  <2>3. claim = c /\ c.name = at[i]
    <3>1. at[i] \in Name
      BY <2>0
    <3>2. c.name = at[i] /\ c \notin DOMAIN claimed
      BY <3>1, NextClaimNew
    <3>3. arrivals'[i] = arrivals[i] \cup {c}
      BY <2>0, <2>2
    <3> QED BY <3>2, <3>3
  <2>4. claimed'[claim] = dropped[at[i]]
    BY <2>2, <2>3 DEF Insert
  <2> QED BY <2>1, <2>3, <2>4 DEF Rename, At, FreshInv, FreshOf, Fresh
<1>4. RefusedStays <=> [][Stays]_vars
  BY DEF RefusedStays
<1> HIDE DEF Stays
<1> QED BY <1>2, <1>3, <1>4, ClaimTypeCorrect, PTL DEF Spec
-----------------------------------------------------------------------------
(***************************************************************************)
(* Claim implements Intake, for any nodes, names, writes and failures.     *)
(* Each request is shown to be one step of Intake or none, from PlaceInv   *)
(* (a file is in one place, so moving a name moves its file and no other)  *)
(* and HandInv (a claim in a hand is there, is of its node's name, and is  *)
(* not to be returned).                                                    *)
(***************************************************************************)
Apart(map) == \A k, l \in DOMAIN map : k # l => map[k] # map[l]

\* What a map of files is with one more, and with one less.
LEMMA FilesInsert ==
  ASSUME NEW map, Apart(map), NEW key, NEW value, value \notin Files(map)
  PROVE  Files(Insert(map, key, value))
           = (Files(map) \ IF key \in DOMAIN map THEN {map[key]} ELSE {}) \cup {value}
<1>1. DOMAIN Insert(map, key, value) = DOMAIN map \cup {key}
  BY DEF Insert
<1>2. /\ Insert(map, key, value)[key] = value
      /\ \A k \in DOMAIN map : k # key => Insert(map, key, value)[k] = map[k]
  BY DEF Insert
<1> DEFINE new == Insert(map, key, value)
<1> HIDE DEF new
<1>3. \A x : x \in Files(new) <=> x = value \/ \E k \in DOMAIN map : k # key /\ x = map[k]
  BY <1>1, <1>2 DEF Files, new
<1>4. \A x : x \in Files(map) <=> \E k \in DOMAIN map : x = map[k]
  BY DEF Files
<1>5. CASE key \in DOMAIN map
  <2>1. \A k \in DOMAIN map : k # key <=> map[k] # map[key]
    BY <1>5 DEF Apart
  <2>2. \A x : x \in Files(new) <=> x = value \/ (x \in Files(map) /\ x # map[key])
    BY <1>3, <1>4, <2>1
  <2> QED BY <1>5, <2>2 DEF new
<1>6. CASE key \notin DOMAIN map
  <2>1. \A x : x \in Files(new) <=> x = value \/ x \in Files(map)
    BY <1>3, <1>4, <1>6
  <2> QED BY <1>6, <2>1 DEF new
<1> QED BY <1>5, <1>6

LEMMA FilesWithout ==
  ASSUME NEW map, Apart(map), NEW key \in DOMAIN map
  PROVE  Files(Without(map, key)) = Files(map) \ {map[key]}
<1>1. DOMAIN Without(map, key) = DOMAIN map \ {key}
  BY DEF Without
<1>2. \A k \in DOMAIN map : k # key => Without(map, key)[k] = map[k]
  BY DEF Without
<1> QED BY <1>1, <1>2 DEF Apart, Files

\* The files in a node's hand.
Hand(i) == {claimed[claim] : claim \in arrivals[i]}

\* The invariants in the words of this proof.
LEMMA Apartness ==
  ASSUME TypeOK, PlaceInv, HandInv
  PROVE  /\ Apart(dropped) /\ Apart(claimed)
         /\ \A f \in Files(dropped) : f \notin Files(claimed)
         /\ \A i \in Node : /\ arrivals[i] \subseteq DOMAIN claimed
                            /\ \A c \in arrivals[i] : c.node = i /\ c \notin held[i]
                            /\ \A c \in held[i] : c.node = i
         /\ DOMAIN arrivals = Node
<1>1. Apart(dropped) /\ Apart(claimed)
  BY DEF PlaceInv, OnePlace, Apart
<1>2. \A f \in Files(dropped) : f \notin Files(claimed)
  BY DEF PlaceInv, OnePlace, Files
<1>3. DOMAIN arrivals = Node
  BY DEF TypeOK
<1> QED BY <1>1, <1>2, <1>3 DEF HandInv, ArrivalsKept

Stands == [i \in Node |-> Hand(i)]

\* A step of one node, after which the hands of the others are what they were.
LEMMA OneHandMoves ==
  ASSUME NEW i \in Node, NEW hand,
         hand = Hand(i)',
         \A j \in Node \ {i} : Hand(j)' = Hand(j)
  PROVE  Stands' = [Stands EXCEPT ![i] = hand]
BY DEF Stands

\* A hand of which no claim is touched.
LEMMA HandLeft ==
  ASSUME NEW j \in Node, arrivals'[j] = arrivals[j],
         \A c \in arrivals[j] : claimed'[c] = claimed[c]
  PROVE  Hand(j)' = Hand(j)
BY DEF Hand

LEMMA WriteIs ==
  ASSUME TypeOK, PlaceInv, HandInv, NEW n \in Name, PutOpen(n) \/ PutWrite(n)
  PROVE  Promised!Next
<1> DEFINE old == IF n \in DOMAIN dropped THEN {dropped[n]} ELSE {}
<1>1. /\ writes' = writes + 1 /\ dropped' = Insert(dropped, n, writes')
      /\ due' = due \ old /\ claimed' = claimed /\ arrivals' = arrivals
  <2>1. Under(n) = old
    BY DEF Under
  <2> QED BY <2>1 DEF PutOpen, PutWrite, memory
<1>2. writes' \notin Files(dropped)
  <2>1. writes \in Nat /\ \A m \in DOMAIN dropped : dropped[m] \in Nat /\ dropped[m] <= writes
    BY ClaimAssumption DEF TypeOK, IsMap, File, PlaceInv
  <2> QED BY <1>1, <2>1 DEF Files
<1>3. Files(dropped)' = (Files(dropped) \ old) \cup {writes'}
  <2>1. Apart(dropped)
    BY Apartness
  <2>2. Files(Insert(dropped, n, writes')) = (Files(dropped) \ old) \cup {writes'}
    BY <1>2, <2>1, FilesInsert
  <2>3. Files(dropped)' = Files(Insert(dropped, n, writes'))
    BY <1>1 DEF Files
  <2> QED BY <2>2, <2>3
<1>4. old \in SUBSET Files(dropped) /\ \A f, g \in old : f = g
  BY DEF Files
<1>5. UNCHANGED <<Files(claimed), Stands>>
  BY <1>1 DEF Files, Stands, Hand
<1> HIDE DEF old
<1>6. Promised!Write(old)
  BY <1>1, <1>3, <1>4, <1>5 DEF Promised!Write, Stands, Hand
<1> QED BY <1>4, <1>6 DEF Promised!Next

LEMMA FinishIs ==
  ASSUME NEW n \in Name, PutClose(n)
  PROVE  Promised!Next \/ UNCHANGED <<dropped, claimed, arrivals, due, writes>>
<1>1. UNCHANGED <<dropped, claimed, arrivals, writes>>
  BY DEF PutClose, memory, dirVars
<1>2. CASE n \in DOMAIN dropped
  <2>1. due' = due \cup {dropped[n]} /\ dropped[n] \in Files(dropped)
    BY <1>2 DEF PutClose, Files
  <2>2. UNCHANGED <<Files(dropped), Files(claimed), Stands>>
    BY <1>1 DEF Files, Stands, Hand
  <2>3. Promised!Finish(dropped[n])
    BY <1>1, <2>1, <2>2 DEF Promised!Finish, Stands, Hand
  <2> QED BY <2>1, <2>3 DEF Promised!Next
<1>3. CASE n \notin DOMAIN dropped
  BY <1>1, <1>3 DEF PutClose
<1> QED BY <1>2, <1>3

LEMMA TakeIs ==
  ASSUME TypeOK, PlaceInv, HandInv, NEW i \in Node, Rename(i), at[i] \in DOMAIN dropped
  PROVE  Promised!Next
<1>a. PICK f : f = dropped[at[i]]
  OBVIOUS
<1>0. at[i] \in Name /\ f \in Files(dropped)
  BY <1>a DEF TypeOK, Files
<1>1. PICK claim \in NextClaim(i, at[i]) :
        claimed' = Insert(claimed, claim, f) /\ arrivals' = [arrivals EXCEPT ![i] = @ \cup {claim}]
  BY <1>a DEF Rename
<1>2. claim \notin DOMAIN claimed
  BY <1>0, NextClaimNew
<1>3. dropped' = Without(dropped, at[i]) /\ due' = due /\ writes' = writes
  BY DEF Rename, Left, senderVars
<1>4. Files(dropped)' = Files(dropped) \ {f}
  BY <1>a, <1>3, Apartness, FilesWithout
<1>5. Files(claimed)' = Files(claimed) \cup {f}
  <2>1. f \notin Files(claimed)
    BY <1>0, Apartness
  <2>2. Apart(claimed)
    BY Apartness
  <2>3. Files(Insert(claimed, claim, f))
          = (Files(claimed) \ IF claim \in DOMAIN claimed THEN {claimed[claim]} ELSE {}) \cup {f}
    BY <2>1, <2>2, FilesInsert
  <2>4. Files(claimed)' = Files(Insert(claimed, claim, f))
    BY <1>1 DEF Files
  <2> QED BY <1>2, <2>3, <2>4
<1>6. claimed'[claim] = f /\ \A c \in DOMAIN claimed : claimed'[c] = claimed[c]
  BY <1>1, <1>2 DEF Insert
<1>7. Stands' = [Stands EXCEPT ![i] = @ \cup {f}]
  <2>1. arrivals'[i] = arrivals[i] \cup {claim} /\ \A j \in Node \ {i} : arrivals'[j] = arrivals[j]
    BY <1>1, Apartness
  <2>2. Hand(i)' = Hand(i) \cup {f}
    <3>1. arrivals[i] \subseteq DOMAIN claimed
      BY Apartness
    <3>2. \A c \in arrivals[i] : claimed'[c] = claimed[c]
      BY <1>6, <3>1
    <3>3. arrivals'[i] = arrivals[i] \cup {claim} /\ claimed'[claim] = f
      BY <1>6, <2>1
    <3>4. \A x : x \in Hand(i)' <=> \E c \in arrivals[i] \cup {claim} : x = claimed'[c]
      BY <3>3 DEF Hand
    <3>5. \A x : x \in Hand(i) <=> \E c \in arrivals[i] : x = claimed[c]
      BY DEF Hand
    <3>6. ASSUME NEW x PROVE x \in Hand(i)' <=> x \in Hand(i) \/ x = f
      <4>1. (\E c \in arrivals[i] \cup {claim} : x = claimed'[c])
              <=> (\E c \in arrivals[i] : x = claimed'[c]) \/ x = f
        BY <3>3
      <4>2. (\E c \in arrivals[i] : x = claimed'[c]) <=> (\E c \in arrivals[i] : x = claimed[c])
        BY <3>2
      <4> QED BY <3>4, <3>5, <4>1, <4>2
    <3> QED BY <3>6
  <2>3. \A j \in Node \ {i} : Hand(j)' = Hand(j)
    BY <1>6, <2>1, Apartness, HandLeft
  <2>4. Stands[i] = Hand(i)
    BY DEF Stands
  <2> QED BY <2>2, <2>3, <2>4, OneHandMoves
<1>8. Promised!Take(i, f)
  BY <1>0, <1>3, <1>4, <1>5, <1>7 DEF Promised!Take, Stands, Hand
<1>9. \E g \in Files(dropped) : Promised!Take(i, g)
  BY <1>0, <1>8
<1> QED BY <1>9 DEF Promised!Next

LEMMA AcceptIs ==
  ASSUME TypeOK, PlaceInv, HandInv, NEW i \in Node, NEW claim \in arrivals[i], Accept(i, claim)
  PROVE  Promised!Next
<1>a. PICK f : f = claimed[claim]
  OBVIOUS
<1>0. claim \in DOMAIN claimed /\ f \in Hand(i) /\ claim.node = i
  BY <1>a, Apartness DEF Hand
<1>1. /\ arrivals' = [arrivals EXCEPT ![i] = @ \ {claim}]
      /\ claimed' = Without(claimed, claim) /\ due' = due \ {f}
      /\ dropped' = dropped /\ writes' = writes
  BY <1>a, <1>0 DEF Accept, senderVars
<1>2. Files(claimed)' = Files(claimed) \ {f}
  BY <1>a, <1>0, <1>1, Apartness, FilesWithout
<1>3. \A c \in DOMAIN claimed : c # claim => claimed'[c] = claimed[c]
  BY <1>1 DEF Without
<1>4. Stands' = [Stands EXCEPT ![i] = @ \ {f}]
  <2>1. arrivals'[i] = arrivals[i] \ {claim} /\ \A j \in Node \ {i} : arrivals'[j] = arrivals[j]
    BY <1>1, Apartness
  <2>2. \A c \in arrivals[i] : c # claim => claimed[c] # f /\ claimed'[c] = claimed[c]
    BY <1>a, <1>0, <1>3, Apartness DEF Apart
  <2>3. Hand(i)' = Hand(i) \ {f}
    BY <1>a, <2>1, <2>2 DEF Hand
  <2>4. ASSUME NEW j \in Node \ {i}
        PROVE  Hand(j)' = Hand(j)
    <3>1. \A c \in arrivals[j] : claimed'[c] = claimed[c]
      BY <1>0, <1>3, Apartness
    <3> QED BY <2>1, <3>1, HandLeft
  <2>5. Stands[i] = Hand(i)
    BY DEF Stands
  <2> QED BY <2>3, <2>4, <2>5, OneHandMoves
<1>5. f \in Stands[i]
  BY <1>0 DEF Stands
<1>6. Files(dropped)' = Files(dropped)
  BY <1>1 DEF Files
<1>7. Promised!Accept(i, f)
  BY <1>1, <1>2, <1>4, <1>5, <1>6 DEF Promised!Accept, Stands, Hand
<1>8. \E g \in Stands[i] : Promised!Accept(i, g)
  BY <1>5, <1>7
<1> QED BY <1>8 DEF Promised!Next, Stands, Hand

LEMMA LetGoIs ==
  ASSUME TypeOK, PlaceInv, HandInv, NEW i \in Node,
         UNCHANGED <<dropped, claimed, due, writes>>, arrivals'[i] \subseteq arrivals[i],
         \A j \in Node \ {i} : arrivals'[j] = arrivals[j]
  PROVE  Promised!Next
<1>a. PICK gone : gone = {claimed[c] : c \in arrivals[i] \ arrivals'[i]}
  OBVIOUS
<1>1. gone \in SUBSET Hand(i)
  BY <1>a DEF Hand
<1>2. Hand(i)' = Hand(i) \ gone
  <2>1. \A c, d \in arrivals[i] : c # d => claimed[c] # claimed[d]
    BY Apartness DEF Apart
  <2> QED BY <1>a, <2>1 DEF Hand
<1>3. \A j \in Node \ {i} : Hand(j)' = Hand(j)
  BY DEF Hand
<1>4. Stands[i] = Hand(i)
  BY DEF Stands
<1>5. Stands' = [Stands EXCEPT ![i] = @ \ gone]
  BY <1>2, <1>3, <1>4, OneHandMoves
<1>6. UNCHANGED <<Files(dropped), Files(claimed)>>
  BY DEF Files
<1>7. Promised!LetGo(i, gone)
  BY <1>1, <1>4, <1>5, <1>6 DEF Promised!LetGo, Stands, Hand
<1>8. \E g \in SUBSET Stands[i] : Promised!LetGo(i, g)
  BY <1>1, <1>4, <1>7
<1> QED BY <1>8 DEF Promised!Next, Stands, Hand

LEMMA ReturnIs ==
  ASSUME TypeOK, PlaceInv, HandInv, NEW i \in Node, NEW claim \in held[i], Returned(claim),
         UNCHANGED <<arrivals, due, writes>>
  PROVE  Promised!Next
<1>a. PICK f : f = claimed[claim]
  OBVIOUS
<1>0. claim \in DOMAIN claimed /\ claim.name \notin DOMAIN dropped /\ f \in Files(claimed)
  BY <1>a DEF Returned, Returnable, Files
<1>1. dropped' = Insert(dropped, claim.name, f) /\ claimed' = Without(claimed, claim)
  BY <1>a DEF Returned
<1>2. Files(claimed)' = Files(claimed) \ {f}
  BY <1>a, <1>0, <1>1, Apartness, FilesWithout
<1>3. Files(dropped)' = Files(dropped) \cup {f}
  <2>1. f \notin Files(dropped)
    BY <1>0, Apartness
  <2>2. Apart(dropped)
    BY Apartness
  <2>3. Files(Insert(dropped, claim.name, f)) = Files(dropped) \cup {f}
    <3> DEFINE key == claim.name
    <3> HIDE DEF key
    <3>1. Files(Insert(dropped, key, f))
            = (Files(dropped) \ IF key \in DOMAIN dropped THEN {dropped[key]} ELSE {}) \cup {f}
      BY <2>1, <2>2, FilesInsert
    <3>2. key \notin DOMAIN dropped
      BY <1>0 DEF key
    <3>3. Files(Insert(dropped, key, f)) = Files(dropped) \cup {f}
      BY <3>1, <3>2
    <3> QED BY <3>3 DEF key
  <2>4. Files(dropped)' = Files(Insert(dropped, claim.name, f))
    BY <1>1 DEF Files
  <2> QED BY <2>3, <2>4
<1>4. ASSUME NEW j \in Node
      PROVE  claim \notin arrivals[j]
  <2>1. claim.node = i
    BY Apartness
  <2>2. claim \in arrivals[j] => claim.node = j /\ claim \notin held[j]
    BY Apartness
  <2> QED BY <2>1, <2>2
<1>5. ASSUME NEW j \in Node
      PROVE  f \notin Hand(j) /\ Hand(j)' = Hand(j)
  <2>1. arrivals[j] \subseteq DOMAIN claimed
    BY Apartness
  <2>2. \A c \in arrivals[j] : c # claim /\ claimed'[c] = claimed[c]
    BY <1>1, <1>4, <2>1 DEF Without
  <2>3. \A c \in arrivals[j] : claimed[c] # f
    BY <1>a, <1>0, <2>1, <2>2, Apartness DEF Apart
  <2> QED BY <2>2, <2>3, HandLeft DEF Hand
<1>6. Stands' = Stands /\ \A j \in Node : f \notin Stands[j]
  BY <1>5 DEF Stands
<1>7. Promised!Return(f)
  BY <1>0, <1>2, <1>3, <1>6 DEF Promised!Return, Promised!InHand, Stands, Hand
<1> QED BY <1>0, <1>7 DEF Promised!Next

\* Every step of the claim is one of Intake's, or shows nothing.
LEMMA StepIs ==
  ASSUME TypeOK, PlaceInv, HandInv, [Next]_vars
  PROVE  [Promised!Next]_(Promised!intake)
<1>1. ASSUME UNCHANGED <<dropped, claimed, arrivals, due, writes>>
      PROVE  UNCHANGED Promised!intake
  BY <1>1 DEF Promised!intake, Files
<1>0. arrivals \in [Node -> SUBSET ClaimName]
  BY DEF TypeOK
<1> USE DEF dirVars, senderVars, memory
<1>2. ASSUME NEW n \in Name, PutOpen(n) \/ PutWrite(n) \/ PutClose(n)
      PROVE  Promised!Next \/ UNCHANGED Promised!intake
  BY <1>1, <1>2, WriteIs, FinishIs
<1>3. ASSUME NEW i \in Node, Receiving(i)
      PROVE  Promised!Next \/ UNCHANGED Promised!intake
  <2>1. CASE Rename(i) /\ at[i] \in DOMAIN dropped
    BY <2>1, TakeIs
  <2>2. CASE Rename(i) /\ at[i] \notin DOMAIN dropped
    BY <1>1, <2>2 DEF Rename
  <2>3. CASE ~ Rename(i)
    BY <1>1, <1>3, <2>3 DEF Receiving, Receive, RecoverList, Recovered, List, ListDone,
                            TurnWrite, Check, DropTurn, RecoverTurn, TurnOpen
  <2> QED BY <2>1, <2>2, <2>3
<1>4. ASSUME NEW i \in Node, Verdicts(i)
      PROVE  Promised!Next
  <2>1. PICK claim \in arrivals[i] :
          \/ Accept(i, claim)
          \/ \E remembered \in BOOLEAN : GiveBack(i, claim, remembered)
          \/ VerdictLost(i, claim)
    BY <1>4 DEF Verdicts
  <2>2. CASE Accept(i, claim)
    BY <2>2, AcceptIs
  <2>3. CASE ~ Accept(i, claim)
    <3>1. /\ arrivals' = [arrivals EXCEPT ![i] = @ \ {claim}]
          /\ UNCHANGED <<dropped, claimed, due, writes>>
      BY <2>1, <2>3 DEF GiveBack, VerdictLost
    <3>2. arrivals'[i] \subseteq arrivals[i] /\ \A j \in Node \ {i} : arrivals'[j] = arrivals[j]
      BY <1>0, <3>1
    <3> QED BY <3>1, <3>2, LetGoIs
  <2> QED BY <2>2, <2>3
<1>5. ASSUME NEW i \in Node, NEW claim \in held[i], Restore(i, claim) \/ RestoreUnheard(i, claim)
      PROVE  Promised!Next \/ UNCHANGED Promised!intake
  <2>1. UNCHANGED <<arrivals, due, writes>>
    BY <1>5 DEF Restore, RestoreUnheard
  <2>2. CASE Returned(claim)
    BY <2>1, <2>2, ReturnIs
  <2>3. CASE UNCHANGED <<dropped, claimed>>
    BY <1>1, <2>1, <2>3
  <2> QED BY <1>5, <2>2, <2>3 DEF Restore, RestoreUnheard
<1>6. ASSUME NEW i \in Node, Crash(i) \/ BreakOff(i)
      PROVE  Promised!Next
  <2>1. \E kept \in SUBSET arrivals[i] : arrivals' = [arrivals EXCEPT ![i] = kept]
    BY <1>6 DEF Crash, BreakOff
  <2>2. arrivals'[i] \subseteq arrivals[i] /\ \A j \in Node \ {i} : arrivals'[j] = arrivals[j]
    BY <1>0, <2>1
  <2>3. UNCHANGED <<dropped, claimed, due, writes>>
    BY <1>6 DEF Crash, BreakOff
  <2> QED BY <2>2, <2>3, LetGoIs
<1>7. CASE UNCHANGED vars
  BY <1>1, <1>7 DEF vars
<1> QED BY <1>2, <1>3, <1>4, <1>5, <1>6, <1>7 DEF Next, Returning, Failing

\* The receivers of one directory, whatever their number and however they
\* crash, keep what Intake promises.
THEOREM ClaimIsIntake == Spec => ImplementsIntake
<1>1. ASSUME Init
      PROVE  Promised!Init
  <2>1. Files(dropped) = {} /\ Files(claimed) = {}
    BY <1>1 DEF Init, Files, Empty
  <2>2. [i \in Node |-> {claimed[claim] : claim \in arrivals[i]}] = [i \in Node |-> {}]
    BY <1>1 DEF Init
  <2> QED BY <1>1, <2>1, <2>2 DEF Init, Promised!Init
<1> QED BY <1>1, StepIs, ClaimTypeCorrect, PlaceAlways, HandAlways, PTL
           DEF Spec, ImplementsIntake, Promised!Spec
=============================================================================
