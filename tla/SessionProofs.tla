---------------------------- MODULE SessionProofs ----------------------------
(***************************************************************************)
(* What TLAPS proves of the connections, for any number of them, any       *)
(* Locations, credentials, keys, and any number of replacements of the     *)
(* server, rotations of the secret and restarts of the node.               *)
(*                                                                         *)
(* ConnInv says of one connection what its two ends know of each other:    *)
(* the near end presents to the key that is pinned; once it is in, the far *)
(* end's user is its Location's, admitted; what the far end has when the   *)
(* near end is done is whole.                                              *)
(***************************************************************************)
EXTENDS Session, TLAPS

NearType == [pc : NearState, loc : Location, cred : Offer, key : Key \cup {NoKey}]
FarType == [pc : FarState, key : Key \cup {NoKey}, user : User,
            put : {"none", "part", "whole"}, served : 0 .. IF Most = 0 THEN 1 ELSE Most]

In(c) == near[c].pc \in {"kept", "channel", "putting", "finished", "closing"}

ConnInv(c) ==
  /\ FarAt(c, "greeting") => far[c].key \in Key
  /\ At(c, "holding") => near[c].key \in Key
  /\ At(c, "login") => near[c].key \in Key /\ near[c].key = pin
  /\ In(c) => far[c].user = UserOf[near[c].loc] /\ <<far[c].user, near[c].cred>> \in Admits
  /\ At(c, "kept") => ~ FarAt(c, "serving")
  /\ FarAt(c, "serving") /\ near[c].pc \in {"finished", "closing"} => far[c].put = "whole"
  /\ FarAt(c, "next") \/ FarAt(c, "over") => far[c].put = "whole"
  /\ far[c].pc \in {"greeting", "login", "first"} => far[c].served = 0
  /\ FarAt(c, "serving") \/ FarAt(c, "next") => far[c].served = 0 \/ far[c].served < Most

Inv ==
  /\ TypeOK
  /\ \A c \in Conn : ConnInv(c)
  /\ SecretsHeld
  /\ OwnDirectory

\* A Location, and so a user and an empty end of each kind, is there.
LEMMA Ends ==
  ASSUME NEW l \in Location
  PROVE  /\ AnyLocation \in Location /\ UserOf[AnyLocation] \in User
         /\ NoNear \in NearType /\ NoFar \in FarType
<1>1. AnyLocation \in Location
  BY DEF AnyLocation
<1>2. UserOf[AnyLocation] \in User
  BY <1>1 DEF User
<1>3. 0 \in 0 .. IF Most = 0 THEN 1 ELSE Most
  BY SessionAssumption
<1> QED BY <1>1, <1>2, <1>3 DEF NoNear, NoFar, NearType, FarType, NearState, FarState, Offer

\* A step of one connection, under a pin that is the same or the first.
Touches(c) ==
  /\ \A d \in Conn \ {c} : near'[d] = near[d] /\ far'[d] = far[d]
  /\ pin' = pin \/ pin = NoKey

LEMMA OneConn ==
  ASSUME Inv, NEW c \in Conn, Touches(c), ConnInv(c)'
  PROVE  \A d \in Conn : ConnInv(d)'
<1> SUFFICES ASSUME NEW d \in Conn, d # c PROVE ConnInv(d)'
  OBVIOUS
<1>1. near'[d] = near[d] /\ far'[d] = far[d]
  BY DEF Touches
<1>2. ConnInv(d)
  BY DEF Inv
<1>3. At(d, "login") => pin' = pin
  BY <1>2, SessionAssumption DEF ConnInv, Touches
<1> QED BY <1>1, <1>2, <1>3 DEF ConnInv, At, FarAt, In

\* What two records are made of.
LEMMA Typed ==
  ASSUME Inv, NEW c \in Conn
  PROVE  /\ near \in [Conn -> NearType] /\ far \in [Conn -> FarType]
         /\ near[c] \in NearType /\ far[c] \in FarType
         /\ ConnInv(c)
BY DEF Inv, TypeOK, NearType, FarType

\* The near end in another state, and gone; the far end in another state.
NearMoves(c, pc) ==
  /\ near'[c].pc = pc
  /\ near'[c].loc = near[c].loc /\ near'[c].cred = near[c].cred /\ near'[c].key = near[c].key

FarMoves(c, pc) ==
  /\ far'[c].pc = pc
  /\ far'[c].key = far[c].key /\ far'[c].user = far[c].user
  /\ far'[c].put = far[c].put /\ far'[c].served = far[c].served

NearAlone(c) == near' \in [Conn -> NearType] /\ \A d \in Conn \ {c} : near'[d] = near[d]
FarAlone(c) == far' \in [Conn -> FarType] /\ \A d \in Conn \ {c} : far'[d] = far[d]

LEMMA GoesIs ==
  ASSUME Inv, NEW c \in Conn, NEW pc \in NearState, Goes(c, pc)
  PROVE  NearAlone(c) /\ NearMoves(c, pc)
<1>1. near \in [Conn -> NearType] /\ near[c] \in NearType
  BY Typed
<1>2. near'[c] = [near[c] EXCEPT !.pc = pc] /\ \A d \in Conn \ {c} : near'[d] = near[d]
  BY <1>1 DEF Goes
<1>3. near'[c] \in NearType /\ NearMoves(c, pc)
  BY <1>1, <1>2 DEF NearType, NearMoves
<1>4. near' \in [Conn -> NearType]
  BY <1>1, <1>2, <1>3 DEF Goes
<1> QED BY <1>2, <1>3, <1>4 DEF NearAlone

LEMMA LetsIs ==
  ASSUME Inv, NEW c \in Conn, Lets(c)
  PROVE  NearAlone(c) /\ near'[c].pc = "none"
<1>1. near \in [Conn -> NearType] /\ near[c].loc \in Location
  BY Typed DEF NearType
<1>2. NoNear \in NearType
  BY <1>1, Ends
<1>3. near'[c] = NoNear /\ NearAlone(c)
  BY <1>1, <1>2 DEF Lets, NearAlone
<1> QED BY <1>3 DEF NoNear

LEMMA FarGoesIs ==
  ASSUME Inv, NEW c \in Conn, NEW pc \in FarState, FarGoes(c, pc)
  PROVE  FarAlone(c) /\ FarMoves(c, pc)
<1>1. far \in [Conn -> FarType] /\ far[c] \in FarType
  BY Typed
<1>2. far'[c] = [far[c] EXCEPT !.pc = pc] /\ \A d \in Conn \ {c} : far'[d] = far[d]
  BY <1>1 DEF FarGoes
<1>3. far'[c] \in FarType /\ FarMoves(c, pc)
  BY <1>1, <1>2 DEF FarType, FarMoves
<1>4. far' \in [Conn -> FarType]
  BY <1>1, <1>2, <1>3 DEF FarGoes
<1> QED BY <1>2, <1>3, <1>4 DEF FarAlone

\* An end that stays as it is.
LEMMA NearStays ==
  ASSUME Inv, NEW c \in Conn, near' = near
  PROVE  NearAlone(c)
BY Typed DEF NearAlone

LEMMA FarStays ==
  ASSUME Inv, NEW c \in Conn, far' = far
  PROVE  FarAlone(c)
BY Typed DEF FarAlone

\* A step that leaves the histories and what is around.
LEMMA Settles ==
  ASSUME Inv, NEW c \in Conn, NearAlone(c), FarAlone(c),
         UNCHANGED <<outside, history, pin>>, ConnInv(c)'
  PROVE  Inv'
<1>1. TypeOK'
  BY DEF Inv, TypeOK, outside, history, NearType, FarType, NearAlone, FarAlone
<1>2. Touches(c)
  BY DEF Touches, NearAlone, FarAlone
<1>3. \A d \in Conn : ConnInv(d)'
  BY <1>2, OneConn
<1>4. SecretsHeld' /\ OwnDirectory'
  BY DEF Inv, SecretsHeld, OwnDirectory, history
<1> QED BY <1>1, <1>3, <1>4 DEF Inv

LEMMA ConnectingInv ==
  ASSUME Inv, NEW c \in Conn, Connecting(c)
  PROVE  Inv'
<1>0. near[c] \in NearType /\ far[c] \in FarType /\ ConnInv(c)
  BY Typed
<1> USE DEF At, FarAt, In
<1>1. ASSUME NEW l \in Location, Present(c, l)
      PROVE  Inv'
  <2>1. near'[c] = [pc |-> "connecting", loc |-> l,
                    cred |-> IF l \in Secured THEN secret ELSE Built[l], key |-> NoKey]
    BY <1>1, Typed DEF Present, NoNear
  <2>2. (IF l \in Secured THEN secret ELSE Built[l]) \in Offer
    <3>1. secret \in Credential \cup {Unusable} /\ (l \in Secured => secret # Unusable)
      BY <1>1 DEF Present, Inv, TypeOK
    <3> QED BY <3>1, SessionAssumption DEF Offer
  <2>3. NearAlone(c)
    <3>1. near'[c] \in NearType
      BY <2>1, <2>2 DEF NearType, NearState
    <3> QED BY <1>1, <3>1, Typed DEF Present, NearAlone
  <2>4. far' = far /\ UNCHANGED <<outside, history, pin>> /\ FarAt(c, "none")
    BY <1>1 DEF Present
  <2>5. ConnInv(c)'
    BY <2>1, <2>4 DEF ConnInv
  <2> QED BY <2>3, <2>4, <2>5, FarStays, Settles
<1>2. CASE Accept(c)
  <2>1. NearAlone(c) /\ near'[c].pc = "greeting"
    BY <1>2, GoesIs DEF Accept, NearState, NearMoves
  <2>2. NoFar \in FarType /\ host \in Key
    BY <1>0, Ends DEF Inv, TypeOK, NearType
  <2>3. far'[c] = [NoFar EXCEPT !.pc = "greeting", !.key = host]
    BY <1>2, Typed DEF Accept
  <2>4. far'[c] \in FarType /\ far'[c].pc = "greeting" /\ far'[c].key = host /\ far'[c].served = 0
    BY <2>2, <2>3 DEF FarType, FarState, NoFar
  <2>5. FarAlone(c)
    BY <1>2, <2>4, Typed DEF Accept, FarAlone
  <2>6. ConnInv(c)'
    BY <2>1, <2>2, <2>4 DEF ConnInv
  <2> QED BY <1>2, <2>1, <2>5, <2>6, Settles DEF Accept
<1>3. CASE Kex(c)
  <2>1. FarAlone(c) /\ FarMoves(c, "login")
    BY <1>3, FarGoesIs DEF Kex, FarState
  <2>2. near'[c] = [near[c] EXCEPT !.pc = "holding", !.key = far[c].key]
    BY <1>3, Typed DEF Kex
  <2>3. far[c].key \in Key
    BY <1>0, <1>3 DEF Kex, ConnInv
  <2>4. near'[c] \in NearType /\ near'[c].pc = "holding" /\ near'[c].key \in Key
    BY <1>0, <2>2, <2>3 DEF NearType, NearState
  <2>5. NearAlone(c)
    BY <1>3, <2>4, Typed DEF Kex, NearAlone
  <2>6. ConnInv(c)'
    BY <1>0, <1>3, <2>1, <2>4 DEF Kex, ConnInv, FarMoves
  <2> QED BY <1>3, <2>1, <2>5, <2>6, Settles DEF Kex
<1>4. CASE Hold(c)
  <2>0. near[c].key \in Key /\ near[c].pc = "holding"
    BY <1>0, <1>4 DEF Hold, ConnInv
  <2>1. CASE Held(near[c].key)
    <3>1. NearAlone(c) /\ NearMoves(c, "login")
      BY <1>4, <2>1, GoesIs DEF Hold, NearState
    <3>2. pin' = near[c].key /\ far' = far /\ UNCHANGED <<outside, history>>
      BY <1>4, <2>1 DEF Hold
    <3>3. ConnInv(c)'
      BY <1>0, <2>0, <3>1, <3>2 DEF ConnInv, NearMoves
    <3>4. Touches(c)
      BY <2>1, <3>1, <3>2 DEF Touches, Held, NearAlone
    <3>5. \A d \in Conn : ConnInv(d)'
      BY <3>3, <3>4, OneConn
    <3>6. TypeOK'
      BY <2>0, <3>1, <3>2 DEF Inv, TypeOK, outside, history, NearType, NearAlone
    <3>7. SecretsHeld'
      <4> SUFFICES ASSUME NEW o \in offered PROVE o[1] = pin'
        BY <3>2 DEF SecretsHeld, history
      <4>1. o[1] = pin /\ o[1] \in Key
        BY DEF Inv, SecretsHeld, TypeOK
      <4> QED BY <2>1, <3>2, <4>1, SessionAssumption DEF Held
    <3>8. OwnDirectory'
      BY <3>2 DEF Inv, OwnDirectory, history
    <3> QED BY <3>5, <3>6, <3>7, <3>8 DEF Inv
  <2>2. CASE ~ Held(near[c].key)
    <3>1. NearAlone(c) /\ near'[c].pc = "none"
      BY <1>4, <2>2, LetsIs DEF Hold
    <3>2. far' = far /\ UNCHANGED <<outside, history, pin>>
      BY <1>4, <2>2 DEF Hold
    <3>3. ConnInv(c)'
      BY <1>0, <3>1, <3>2 DEF ConnInv
    <3> QED BY <3>1, <3>2, <3>3, FarStays, Settles
  <2> QED BY <2>1, <2>2
<1>5. CASE Login(c)
  <2> DEFINE user == UserOf[near[c].loc]
             cred == near[c].cred
  <2>0. /\ near[c].key \in Key /\ near[c].key = pin
        /\ user \in User /\ cred \in Offer
    BY <1>0, <1>5 DEF Login, ConnInv, NearType, User
  <2>1. /\ offered' = offered \cup {<<pin, cred>>} /\ pin \in Key
        /\ UNCHANGED <<outside, pin, stored>>
    BY <1>5, <2>0 DEF Login
  <2>2. SecretsHeld'
    BY <2>1 DEF Inv, SecretsHeld
  <2>3. OwnDirectory'
    BY <2>1 DEF Inv, OwnDirectory
  <2>4. offered' \subseteq Key \X Offer
    BY <2>0, <2>1 DEF Inv, TypeOK
  <2>5. /\ NearAlone(c) /\ FarAlone(c) /\ ConnInv(c)'
        /\ turned' \subseteq User \X Offer
    <3>1. CASE Admitted(user, cred)
      <4>1. NearAlone(c) /\ NearMoves(c, "kept")
        BY <1>5, <3>1, GoesIs DEF Login, NearState
      <4>2. far' = [far EXCEPT ![c].pc = "first", ![c].user = user] /\ turned' = turned
        BY <1>5, <3>1 DEF Login
      <4>3. far'[c] = [far[c] EXCEPT !.pc = "first", !.user = user]
        BY <4>2, Typed
      <4>4. /\ far'[c] \in FarType /\ far'[c].pc = "first" /\ far'[c].user = user
            /\ far'[c].served = 0
        BY <1>5, <1>0, <2>0, <4>3 DEF FarType, FarState, Login, ConnInv
      <4>5. FarAlone(c)
        BY <4>2, <4>4, Typed DEF FarAlone
      <4>6. ConnInv(c)'
        BY <3>1, <4>1, <4>4 DEF ConnInv, NearMoves, Admitted
      <4> QED BY <4>1, <4>2, <4>5, <4>6 DEF Inv, TypeOK
    <3>2. CASE ~ Admitted(user, cred)
      <4>1. NearAlone(c) /\ near'[c].pc = "none"
        BY <1>5, <3>2, LetsIs DEF Login
      <4>2. FarAlone(c) /\ far'[c].pc = "failed"
        BY <1>5, <3>2, FarGoesIs DEF Login, FarState, FarMoves
      <4>3. turned' = turned \cup {<<user, cred>>}
        BY <1>5, <3>2 DEF Login
      <4>4. ConnInv(c)'
        BY <4>1, <4>2 DEF ConnInv
      <4> QED BY <2>0, <4>1, <4>2, <4>3, <4>4 DEF Inv, TypeOK
    <3> QED BY <3>1, <3>2
  <2>6. Touches(c)
    BY <2>1, <2>5 DEF Touches, NearAlone, FarAlone
  <2>7. \A d \in Conn : ConnInv(d)'
    BY <2>5, <2>6, OneConn
  <2>8. TypeOK'
    BY <2>1, <2>4, <2>5 DEF Inv, TypeOK, outside, NearAlone, FarAlone, NearType, FarType
  <2> QED BY <2>2, <2>3, <2>7, <2>8 DEF Inv
<1> QED BY <1>1, <1>2, <1>3, <1>4, <1>5 DEF Connecting

LEMMA WorkingInv ==
  ASSUME Inv, NEW c \in Conn, Working(c)
  PROVE  Inv'
<1>0. near[c] \in NearType /\ far[c] \in FarType /\ ConnInv(c)
  BY Typed
<1> USE DEF At, FarAt, In
<1>1. CASE Open(c)
  <2>1. NearAlone(c) /\ NearMoves(c, "channel") /\ FarAlone(c) /\ FarMoves(c, "serving")
    BY <1>1, GoesIs, FarGoesIs DEF Open, NearState, FarState
  <2>2. ConnInv(c)'
    BY <1>0, <1>1, <2>1 DEF Open, ConnInv, NearMoves, FarMoves
  <2> QED BY <1>1, <2>1, <2>2, Settles DEF Open
<1>2. CASE PutBegins(c)
  <2>1. NearAlone(c) /\ NearMoves(c, "putting")
    BY <1>2, GoesIs DEF PutBegins, NearState
  <2>2. far'[c] = [far[c] EXCEPT !.put = "part"]
    BY <1>2, Typed DEF PutBegins
  <2>3. /\ far'[c] \in FarType /\ far'[c].pc = "serving" /\ far'[c].user = far[c].user
        /\ far'[c].served = far[c].served
    BY <1>0, <1>2, <2>2 DEF PutBegins, FarType
  <2>4. FarAlone(c)
    BY <1>2, <2>3, Typed DEF PutBegins, FarAlone
  <2>5. ConnInv(c)'
    BY <1>0, <1>2, <2>1, <2>3 DEF PutBegins, ConnInv, NearMoves
  <2>6. /\ stored' = stored \cup {<<far[c].user, near[c].loc, near[c].cred>>}
        /\ UNCHANGED <<outside, pin, offered, turned>>
    BY <1>2 DEF PutBegins
  <2>7. Touches(c)
    BY <2>1, <2>4, <2>6 DEF Touches, NearAlone, FarAlone
  <2>8. \A d \in Conn : ConnInv(d)'
    BY <2>5, <2>7, OneConn
  <2>9. OwnDirectory'
    <3>1. far[c].user = UserOf[near[c].loc] /\ <<far[c].user, near[c].cred>> \in Admits
      BY <1>0, <1>2 DEF PutBegins, ConnInv
    <3>2. ASSUME NEW s \in stored'
          PROVE  s[1] = UserOf[s[2]] /\ <<s[1], s[3]>> \in Admits
      <4>1. CASE s \in stored
        BY <4>1 DEF Inv, OwnDirectory
      <4>2. CASE s = <<far[c].user, near[c].loc, near[c].cred>>
        BY <3>1, <4>2
      <4> QED BY <2>6, <4>1, <4>2
    <3> QED BY <3>2 DEF OwnDirectory
  <2>10. SecretsHeld'
    BY <2>6 DEF Inv, SecretsHeld
  <2>11. stored' \subseteq User \X Location \X Offer
    BY <1>0, <2>6 DEF Inv, TypeOK, NearType, FarType
  <2>12. TypeOK'
    BY <2>1, <2>4, <2>6, <2>11 DEF Inv, TypeOK, outside, NearAlone, FarAlone, NearType, FarType
  <2> QED BY <2>8, <2>9, <2>10, <2>12 DEF Inv
<1>3. CASE PutEnds(c)
  <2>1. NearAlone(c) /\ NearMoves(c, "finished")
    BY <1>3, GoesIs DEF PutEnds, NearState
  <2>2. far'[c] = [far[c] EXCEPT !.put = "whole"]
    BY <1>3, Typed DEF PutEnds
  <2>3. /\ far'[c] \in FarType /\ far'[c].pc = "serving" /\ far'[c].user = far[c].user
        /\ far'[c].served = far[c].served /\ far'[c].put = "whole"
    BY <1>0, <1>3, <2>2 DEF PutEnds, FarType
  <2>4. FarAlone(c)
    BY <1>3, <2>3, Typed DEF PutEnds, FarAlone
  <2>5. ConnInv(c)'
    BY <1>0, <1>3, <2>1, <2>3 DEF PutEnds, ConnInv, NearMoves
  <2> QED BY <1>3, <2>1, <2>4, <2>5, Settles DEF PutEnds
<1>4. CASE Close(c)
  <2>1. NearAlone(c) /\ NearMoves(c, "closing")
    BY <1>4, GoesIs DEF Close, NearState
  <2>2. far' = far /\ UNCHANGED <<outside, history, pin>> /\ near[c].pc = "finished"
    BY <1>4 DEF Close
  <2>3. ConnInv(c)'
    BY <1>0, <2>1, <2>2 DEF ConnInv, NearMoves
  <2> QED BY <2>1, <2>2, <2>3, FarStays, Settles
<1>5. CASE Closed(c)
  <2>1. NearAlone(c) /\ NearMoves(c, "kept")
    BY <1>5, GoesIs DEF Closed, NearState
  <2>2. /\ far' = far /\ UNCHANGED <<outside, history, pin>> /\ near[c].pc = "closing"
        /\ far[c].pc \in {"next", "over"}
    BY <1>5 DEF Closed
  <2>3. ConnInv(c)'
    BY <1>0, <2>1, <2>2 DEF ConnInv, NearMoves
  <2> QED BY <2>1, <2>2, <2>3, FarStays, Settles
<1>6. CASE WorkFails(c) \/ LetGo(c)
  <2>1. NearAlone(c) /\ near'[c].pc = "none"
    BY <1>6, LetsIs DEF WorkFails, LetGo
  <2>2. far' = far /\ UNCHANGED <<outside, history, pin>>
    BY <1>6 DEF WorkFails, LetGo
  <2>3. ConnInv(c)'
    BY <1>0, <2>1, <2>2 DEF ConnInv
  <2> QED BY <2>1, <2>2, <2>3, FarStays, Settles
<1> QED BY <1>1, <1>2, <1>3, <1>4, <1>5, <1>6 DEF Working

LEMMA ServingInv ==
  ASSUME Inv, NEW c \in Conn, Serving(c)
  PROVE  Inv'
<1>0. near[c] \in NearType /\ far[c] \in FarType /\ ConnInv(c)
  BY Typed
<1> USE DEF At, FarAt, In
<1>1. CASE ChannelServed(c)
  <2> DEFINE pc == IF LastChannel(c) THEN "over" ELSE "next"
  <2>1. far'[c] = [far[c] EXCEPT !.pc = pc, !.served = @ + 1]
    BY <1>1, Typed DEF ChannelServed
  <2>2. far[c].served \in Nat /\ (far[c].served = 0 \/ far[c].served < Most) /\ far[c].put = "whole"
    BY <1>0, <1>1 DEF ChannelServed, ConnInv, FarType
  <2>3. far[c].served + 1 \in 0 .. IF Most = 0 THEN 1 ELSE Most
    BY <2>2, SessionAssumption
  <2>4. /\ far'[c] \in FarType /\ far'[c].pc = pc /\ far'[c].user = far[c].user
        /\ far'[c].served = far[c].served + 1 /\ far'[c].put = "whole"
    BY <1>0, <2>1, <2>2, <2>3 DEF FarType, FarState
  <2>5. FarAlone(c)
    BY <1>1, <2>4, Typed DEF ChannelServed, FarAlone
  <2>6. pc = "next" => far[c].served + 1 < Most
    BY <2>2, SessionAssumption DEF LastChannel
  <2>7. near' = near /\ UNCHANGED <<outside, history, pin>> /\ near[c].pc = "closing"
    BY <1>1 DEF ChannelServed
  <2>8. ConnInv(c)'
    BY <1>0, <2>4, <2>6, <2>7 DEF ConnInv
  <2> QED BY <2>5, <2>7, <2>8, NearStays, Settles
<1>2. CASE FarFails(c)
  <2>1. HungUp(c) \in FarState /\ HungUp(c) \in {"over", "failed"}
        /\ (HungUp(c) = "over" => FarAt(c, "next"))
    BY DEF HungUp, FarState
  <2>2. FarAlone(c) /\ FarMoves(c, HungUp(c))
    BY <1>2, <2>1, FarGoesIs DEF FarFails
  <2>3. near' = near /\ UNCHANGED <<outside, history, pin>>
    BY <1>2 DEF FarFails
  <2>4. ConnInv(c)'
    BY <1>0, <2>1, <2>2, <2>3 DEF ConnInv, FarMoves
  <2> QED BY <2>2, <2>3, <2>4, NearStays, Settles
<1>3. CASE FarNotices(c)
  <2>1. HungUp(c) \in FarState /\ HungUp(c) \in {"over", "failed"}
        /\ (HungUp(c) = "over" => FarAt(c, "next"))
    BY DEF HungUp, FarState
  <2>2. FarAlone(c) /\ FarMoves(c, HungUp(c))
    BY <1>3, <2>1, FarGoesIs DEF FarNotices
  <2>3. near' = near /\ UNCHANGED <<outside, history, pin>> /\ near[c].pc = "none"
    BY <1>3 DEF FarNotices
  <2>4. ConnInv(c)'
    BY <1>0, <2>1, <2>2, <2>3 DEF ConnInv, FarMoves
  <2> QED BY <2>2, <2>3, <2>4, NearStays, Settles
<1>4. CASE FarEnds(c)
  <2>1. NoFar \in FarType
    BY <1>0, Ends DEF NearType
  <2>2. FarAlone(c) /\ far'[c] = NoFar
    BY <1>4, <2>1, Typed DEF FarEnds, FarAlone
  <2>3. near' = near /\ UNCHANGED <<outside, history, pin>> /\ near[c].pc = "none"
    BY <1>4 DEF FarEnds
  <2>4. ConnInv(c)'
    BY <2>2, <2>3 DEF ConnInv, NoFar
  <2> QED BY <2>2, <2>3, <2>4, NearStays, Settles
<1> QED BY <1>1, <1>2, <1>3, <1>4 DEF Serving

\* What changes around the connections.
LEMMA AroundInv ==
  ASSUME Inv, Replace \/ Rotate \/ Restart
  PROVE  Inv'
<1>0. changes' \in 0 .. MaxChanges /\ pin' = pin /\ far' = far /\ UNCHANGED history
  BY SessionAssumption DEF Inv, TypeOK, Replace, Rotate, Restart, Changes, PinAfter
<1>1. host' \in Key /\ secret' \in Credential \cup {Unusable}
  BY DEF Inv, TypeOK, Replace, Rotate, Restart
<1>2. near' = near \/ near' = [c \in Conn |-> NoNear]
  BY DEF Replace, Rotate, Restart
<1>3. ASSUME NEW c \in Conn
      PROVE  ConnInv(c)' /\ near'[c] \in NearType
  <2>1. near[c] \in NearType /\ ConnInv(c) /\ near[c].loc \in Location
    BY Typed DEF NearType
  <2>2. NoNear \in NearType
    BY <2>1, Ends
  <2>3. CASE near' = near
    BY <1>0, <2>1, <2>3 DEF ConnInv, At, FarAt, In
  <2>4. CASE near' = [d \in Conn |-> NoNear]
    <3>1. near'[c] = NoNear
      BY <2>4
    <3> QED BY <1>0, <2>1, <2>2, <3>1 DEF ConnInv, At, FarAt, In, NoNear
  <2> QED BY <1>2, <2>3, <2>4
<1>4. near' \in [Conn -> NearType]
  <2>1. near \in [Conn -> NearType]
    BY DEF Inv, TypeOK, NearType
  <2> QED BY <1>2, <1>3, <2>1
<1>5. TypeOK'
  BY <1>0, <1>1, <1>4 DEF Inv, TypeOK, history, NearType
<1>6. SecretsHeld' /\ OwnDirectory'
  BY <1>0 DEF Inv, SecretsHeld, OwnDirectory, history
<1> QED BY <1>3, <1>5, <1>6 DEF Inv

LEMMA InitInv ==
  ASSUME Init, Location # {}
  PROVE  Inv
<1>1. NoNear \in NearType /\ NoFar \in FarType
  BY Ends
<1>2. \A c \in Conn : near[c] = NoNear /\ far[c] = NoFar
  BY DEF Init
<1>3. TypeOK
  BY <1>1, SessionAssumption DEF Init, TypeOK, NearType, FarType
<1>4. \A c \in Conn : ConnInv(c)
  BY <1>2 DEF ConnInv, At, FarAt, In, NoNear, NoFar
<1> QED BY <1>3, <1>4 DEF Init, Inv, SecretsHeld, OwnDirectory

LEMMA InvAlways == Spec => []Inv
<1>1. Init => Inv
  BY InitInv, SessionAssumption
<1>2. Inv /\ [Next]_vars => Inv'
  <2> SUFFICES ASSUME Inv, [Next]_vars PROVE Inv'
    OBVIOUS
  <2>1. CASE UNCHANGED vars
    BY <2>1 DEF vars, Inv, TypeOK, ConnInv, SecretsHeld, OwnDirectory, At, FarAt, In
  <2> QED BY <2>1, ConnectingInv, WorkingInv, ServingInv, AroundInv DEF Next
<1> QED BY <1>1, <1>2, PTL DEF Spec

\* Every variable of the connections keeps its type, the count of channels
\* within `most`.
THEOREM SessionTypeCorrect == Spec => []TypeOK
<1>1. Inv => TypeOK
  BY DEF Inv
<1> QED BY <1>1, InvAlways, PTL

\* No secret reaches a server other than the one pinned, however many first
\* contacts race, servers are replaced and nodes restarted.
THEOREM SecretsStay == Spec => []SecretsHeld
<1>1. Inv => SecretsHeld
  BY DEF Inv
<1> QED BY <1>1, InvAlways, PTL

\* A file goes to the directory of the user that was admitted.
THEOREM DirectoryIsOwn == Spec => []OwnDirectory
<1>1. Inv => OwnDirectory
  BY DEF Inv
<1> QED BY <1>1, InvAlways, PTL

\* A client that is kept has no channel open at either end.
THEOREM KeptIsClosed == Spec => []KeptClosed
<1>1. Inv => KeptClosed
  BY DEF Inv, ConnInv, KeptClosed
<1> QED BY <1>1, InvAlways, PTL

\* What a session gives back as served is whole.
THEOREM ServedIsWhole == Spec => []ServedWhole
<1>1. Inv => ServedWhole
  BY DEF Inv, ConnInv, ServedWhole, Served
<1> QED BY <1>1, InvAlways, PTL
=============================================================================
