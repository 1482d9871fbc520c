------------------------------- MODULE Intake --------------------------------
(***************************************************************************)
(* What a directory several nodes receive from promises them, with nothing *)
(* of how: no names, turns, listings, stamps or requests.  A file waits,   *)
(* or is taken; a taken one may be in the hand of one node, and while it   *)
(* is, it is that node's to accept and nobody's to return or take.  Claim  *)
(* implements it (Claim's ImplementsIntake).                               *)
(***************************************************************************)
EXTENDS Naturals

CONSTANT Node

VARIABLES
  waiting,  \* the files under their dropped names
  taken,    \* the files claimed
  hand,     \* of these, what each node's runtime has
  due,      \* the files finished, not written over and not accepted
  made      \* the writes so far; a file is the number of its last

intake == <<waiting, taken, hand, due, made>>

Init == waiting = {} /\ taken = {} /\ hand = [i \in Node |-> {}] /\ due = {} /\ made = 0

InHand == UNION {hand[i] : i \in Node}

\* A sender makes a new file, in the place of one that waits or of none.
Write(old) ==
  /\ old \subseteq waiting /\ \A f, g \in old : f = g
  /\ made' = made + 1
  /\ waiting' = (waiting \ old) \cup {made'}
  /\ due' = due \ old
  /\ UNCHANGED <<taken, hand>>

Finish(f) ==
  /\ f \in waiting
  /\ due' = due \cup {f}
  /\ UNCHANGED <<waiting, taken, hand, made>>

Take(i, f) ==
  /\ f \in waiting
  /\ waiting' = waiting \ {f}
  /\ taken' = taken \cup {f}
  /\ hand' = [hand EXCEPT ![i] = @ \cup {f}]
  /\ UNCHANGED <<due, made>>

Accept(i, f) ==
  /\ f \in hand[i]
  /\ taken' = taken \ {f}
  /\ hand' = [hand EXCEPT ![i] = @ \ {f}]
  /\ due' = due \ {f}
  /\ UNCHANGED <<waiting, made>>

\* A refusal, a verdict that is lost, a connection that broke, a crash.
LetGo(i, gone) ==
  /\ gone \subseteq hand[i]
  /\ hand' = [hand EXCEPT ![i] = @ \ gone]
  /\ UNCHANGED <<waiting, taken, due, made>>

Return(f) ==
  /\ f \in taken \ InHand
  /\ taken' = taken \ {f}
  /\ waiting' = waiting \cup {f}
  /\ UNCHANGED <<hand, due, made>>

Next ==
  \/ \E old \in SUBSET waiting : Write(old)
  \/ \E f \in waiting : Finish(f)
  \/ \E i \in Node : \/ \E f \in waiting : Take(i, f)
                     \/ \E f \in hand[i] : Accept(i, f)
                     \/ \E gone \in SUBSET hand[i] : LetGo(i, gone)
  \/ \E f \in taken : Return(f)

Spec == Init /\ [][Next]_intake
=============================================================================
