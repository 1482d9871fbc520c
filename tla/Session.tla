------------------------------- MODULE Session -------------------------------
(***************************************************************************)
(* The connections of one node to one server: SftpTransport::connect and   *)
(* Client (src/src/lib.rs, client.rs) on the near side, a session thread   *)
(* of serve_chosen (server.rs) on the far side, one of each for every      *)
(* connection.  Each step is one exchange between the two, or the failure  *)
(* of one; what runs in a channel is Transfer's, here a put that is begun  *)
(* and finished.                                                           *)
(*                                                                         *)
(* External: the pins (transport's Pinned: hold pins what it has nothing   *)
(* for, refuses another, and keeps them under the node's data directory),  *)
(* the secret store, the SSH library and the pool, which drops a client    *)
(* whose work failed and keeps the others.                                 *)
(***************************************************************************)
EXTENDS Naturals, FiniteSets

CONSTANTS
  Conn,        \* the connections there may be at once
  Location,    \* the Locations, all with the node's pins (pinned_by)
  UserOf,      \* the user each one's address names
  Secured,     \* those whose secret the store holds (secured_by)
  Built,       \* the credential each was built with, or none
  Credential,  \* the passwords and keys
  NoCredential,
  Admits,      \* the check: users and the credentials that admit them
  Key,         \* the host keys a server may sign with
  NoKey,
  Most,        \* serve_chosen's most
  MaxChanges   \* bound: servers replaced, secrets rotated and node restarts

User == {UserOf[l] : l \in Location}

ASSUME SessionAssumption ==
  /\ Location # {} /\ Secured \subseteq Location
  /\ NoCredential \notin Credential
  /\ Built \in [Location -> Credential \cup {NoCredential}]
  /\ Admits \subseteq User \X Credential
  /\ NoKey \notin Key
  /\ Most \in Nat /\ MaxChanges \in Nat

VARIABLES
  host,      \* the key of the server now at the address
  pin,       \* Pinned: the fingerprint kept for the address
  secret,    \* what the store holds
  near,      \* the client of each connection
  far,       \* the session thread of each
  offered,   \* history: the credentials sent, and the server's key
  stored,    \* history: into whose directory each Location's files went
  turned,    \* history: the logins turned down
  changes

vars == <<host, pin, secret, near, far, offered, stored, turned, changes>>
-----------------------------------------------------------------------------
\* A secret that is no password and no key an SSH client can use.
Unusable == "unusable"

\* connecting, greeting, holding, login: in Client::connect; kept: between
\* files; channel, putting, finished, closing: in with_subsystem.
NearState == {"none", "connecting", "greeting", "holding", "login",
              "kept", "channel", "putting", "finished", "closing"}

\* first, next: awaits a channel; over, failed: serve returned.
FarState == {"none", "greeting", "login", "first", "serving", "next", "over", "failed"}

Offer == Credential \cup {NoCredential}

TypeOK ==
  /\ host \in Key /\ pin \in Key \cup {NoKey}
  /\ secret \in Credential \cup {Unusable}
  /\ near \in [Conn -> [pc : NearState, loc : Location, cred : Offer, key : Key \cup {NoKey}]]
  /\ far \in [Conn -> [pc : FarState, key : Key \cup {NoKey}, user : User,
                       put : {"none", "part", "whole"}, served : 0 .. IF Most = 0 THEN 1 ELSE Most]]
  /\ offered \subseteq Key \X Offer
  /\ stored \subseteq User \X Location \X Offer
  /\ turned \subseteq User \X Offer
  /\ changes \in 0 .. MaxChanges

AnyLocation == CHOOSE l \in Location : TRUE
NoNear == [pc |-> "none", loc |-> AnyLocation, cred |-> NoCredential, key |-> NoKey]
NoFar == [pc |-> "none", key |-> NoKey, user |-> UserOf[AnyLocation], put |-> "none", served |-> 0]

Init ==
  /\ host \in Key /\ pin = NoKey /\ secret \in Credential \cup {Unusable}
  /\ near = [c \in Conn |-> NoNear] /\ far = [c \in Conn |-> NoFar]
  /\ offered = {} /\ stored = {} /\ turned = {} /\ changes = 0

At(c, pc) == near[c].pc = pc
Goes(c, pc) == near' = [near EXCEPT ![c].pc = pc]
Lets(c) == near' = [near EXCEPT ![c] = NoNear]
FarAt(c, pc) == far[c].pc = pc
FarGoes(c, pc) == far' = [far EXCEPT ![c].pc = pc]

outside == <<host, secret, changes>>
history == <<offered, stored, turned>>
-----------------------------------------------------------------------------
(***************************************************************************)
(* SftpTransport::connect and the far side of it.                          *)
(***************************************************************************)
\* presented: the store's secret where the Location is secured, as it is
\* now; the connection is not made where it is no password and no key.
Present(c, l) ==
  /\ At(c, "none") /\ FarAt(c, "none")
  /\ l \in Secured => secret # Unusable
  /\ near' = [near EXCEPT ![c] =
       [NoNear EXCEPT !.pc = "connecting", !.loc = l,
                      !.cred = IF l \in Secured THEN secret ELSE Built[l]]]
  /\ UNCHANGED <<outside, history, pin, far>>

\* connect_tcp; the listener hands the stream to a session thread.
Accept(c) ==
  /\ At(c, "connecting")
  /\ Goes(c, "greeting")
  /\ far' = [far EXCEPT ![c] = [NoFar EXCEPT !.pc = "greeting", !.key = host]]
  /\ UNCHANGED <<outside, history, pin>>

\* Banners and keys.
Kex(c) ==
  /\ At(c, "greeting") /\ FarAt(c, "greeting")
  /\ near' = [near EXCEPT ![c].pc = "holding", ![c].key = far[c].key]
  /\ FarGoes(c, "login")
  /\ UNCHANGED <<outside, history, pin>>

\* Fault: a key other than the pinned one takes its place.
HeldAlways(key) == TRUE

\* Pinned::hold lets a key pass that is the first, or the one pinned.
Held(key) == pin \in {NoKey, key}

\* A server that is not the one it was is let go before anything is sent.
Hold(c) ==
  /\ At(c, "holding")
  /\ IF Held(near[c].key)
       THEN pin' = near[c].key /\ Goes(c, "login")
       ELSE UNCHANGED pin /\ Lets(c)
  /\ UNCHANGED <<outside, history, far>>

\* Fault: the name is taken as it is given.
AdmittedUnchecked(user, cred) == TRUE

\* The check; nothing presented admits nobody.
Admitted(user, cred) == <<user, cred>> \in Admits

\* request_service, then password, public_key or none; userauth::serve, and
\* the directory chosen for the user who was admitted.
Login(c) ==
  /\ At(c, "login") /\ FarAt(c, "login")
  /\ LET user == UserOf[near[c].loc]
         cred == near[c].cred
     IN  /\ offered' = offered \cup {<<near[c].key, cred>>}
         /\ \/ /\ Admitted(user, cred)
               /\ Goes(c, "kept")
               /\ far' = [far EXCEPT ![c].pc = "first", ![c].user = user]
               /\ UNCHANGED turned
            \/ /\ ~ Admitted(user, cred)
               /\ Lets(c)
               /\ FarGoes(c, "failed")
               /\ turned' = turned \cup {<<user, cred>>}
  /\ UNCHANGED <<outside, pin, stored>>
-----------------------------------------------------------------------------
(***************************************************************************)
(* Client::with_subsystem and the loop of serve_chosen.                    *)
(***************************************************************************)
\* Channel::open and accept; Sftp::start.
Open(c) ==
  /\ At(c, "kept") /\ (FarAt(c, "first") \/ FarAt(c, "next"))
  /\ Goes(c, "channel") /\ FarGoes(c, "serving")
  /\ UNCHANGED <<outside, history, pin>>

\* A put, begun and finished.
PutBegins(c) ==
  /\ At(c, "channel") /\ FarAt(c, "serving")
  /\ Goes(c, "putting")
  /\ far' = [far EXCEPT ![c].put = "part"]
  /\ stored' = stored \cup {<<far[c].user, near[c].loc, near[c].cred>>}
  /\ UNCHANGED <<outside, pin, offered, turned>>

PutEnds(c) ==
  /\ At(c, "putting") /\ FarAt(c, "serving")
  /\ Goes(c, "finished")
  /\ far' = [far EXCEPT ![c].put = "whole"]
  /\ UNCHANGED <<outside, history, pin>>

\* The client's close, answered by the far side's.
Close(c) ==
  /\ At(c, "finished") /\ FarAt(c, "serving")
  /\ Goes(c, "closing")
  /\ UNCHANGED <<outside, history, pin, far>>

\* Fault: one channel more.
LastChannelLate(c) == far[c].served + 1 > Most

\* The first channel is served whatever `most` is.
LastChannel(c) == far[c].served + 1 >= Most

\* directory::serve returns and the channel is closed: the next is awaited,
\* or the connection hung up after `most`.
ChannelServed(c) ==
  /\ At(c, "closing") /\ FarAt(c, "serving")
  /\ far' = [far EXCEPT ![c].pc = IF LastChannel(c) THEN "over" ELSE "next", ![c].served = @ + 1]
  /\ UNCHANGED <<outside, history, pin, near>>

\* The far side's close is there, and the client is given back.
Closed(c) ==
  /\ At(c, "closing") /\ (FarAt(c, "next") \/ FarAt(c, "over"))
  /\ Goes(c, "kept")
  /\ UNCHANGED <<outside, history, pin, far>>

\* Fault: a client whose work failed is kept.
WorkFailsKept(c) ==
  /\ near[c].pc \in {"channel", "putting", "finished", "closing"}
  /\ Goes(c, "kept")
  /\ UNCHANGED <<outside, history, pin, far>>

\* start, the work or the close failed: with_subsystem returns without
\* closing the channel, and the pool drops the client.
WorkFails(c) ==
  /\ near[c].pc \in {"channel", "putting", "finished", "closing"}
  /\ Lets(c)
  /\ UNCHANGED <<outside, history, pin, far>>

\* connect fails under way; or a kept client is not usable, does not open a
\* channel, or is not wanted any more.
LetGo(c) ==
  /\ near[c].pc \in {"connecting", "greeting", "holding", "login", "kept"}
  /\ Lets(c)
  /\ UNCHANGED <<outside, history, pin, far>>

\* Fault: a client that goes in the middle of a channel has hung up.
HungUpAnyhow(c) == IF FarAt(c, "next") \/ FarAt(c, "serving") THEN "over" ELSE "failed"

\* Fault: another channel is waited for.
HungUpAgain(c) == IF FarAt(c, "next") THEN "next" ELSE "failed"

\* "A channel that does not open is the client gone", once one has.
HungUp(c) == IF FarAt(c, "next") THEN "over" ELSE "failed"

\* A read of the session's fails: a timeout, a request that is malformed, the
\* socket.  Where another channel was awaited that is the client gone too.
FarFails(c) ==
  /\ far[c].pc \in {"greeting", "login", "first", "serving", "next"}
  /\ FarGoes(c, HungUp(c))
  /\ UNCHANGED <<outside, history, pin, near>>

\* The client is gone, and the session's next read finds out.
FarNotices(c) ==
  /\ At(c, "none") /\ far[c].pc \in {"greeting", "login", "first", "serving", "next"}
  /\ FarGoes(c, HungUp(c))
  /\ UNCHANGED <<outside, history, pin, near>>

\* What serve gives back of a session that is over: the files of its
\* directory, and who was admitted.
Served(c) == [files |-> far[c].put, who |-> far[c].user]

\* The session's thread ends, whatever serve returned.
FarEnds(c) ==
  /\ At(c, "none") /\ far[c].pc \in {"over", "failed"}
  /\ far' = [far EXCEPT ![c] = NoFar]
  /\ UNCHANGED <<outside, history, pin, near>>
-----------------------------------------------------------------------------
(***************************************************************************)
(* What changes around them.                                               *)
(***************************************************************************)
Changes == changes < MaxChanges /\ changes' = changes + 1

\* Another server takes the address; its sessions under way go on.
Replace ==
  /\ Changes
  /\ host' \in Key \ {host}
  /\ UNCHANGED <<pin, secret, near, far, history>>

Rotate ==
  /\ Changes
  /\ secret' \in (Credential \cup {Unusable}) \ {secret}
  /\ UNCHANGED <<host, pin, near, far, history>>

\* Pinned keeps its pins under the node's data directory.
PinAfter == pin

\* The node is started again: its connections are gone, its pins are kept.
Restart ==
  /\ Changes
  /\ near' = [c \in Conn |-> NoNear]
  /\ pin' = PinAfter
  /\ UNCHANGED <<host, secret, far, history>>
-----------------------------------------------------------------------------
Connecting(c) == (\E l \in Location : Present(c, l)) \/ Accept(c) \/ Kex(c) \/ Hold(c) \/ Login(c)

Working(c) == Open(c) \/ PutBegins(c) \/ PutEnds(c) \/ Close(c) \/ Closed(c)
              \/ WorkFails(c) \/ LetGo(c)

Serving(c) == ChannelServed(c) \/ FarFails(c) \/ FarNotices(c) \/ FarEnds(c)

Next ==
  \/ \E c \in Conn : Connecting(c) \/ Working(c) \/ Serving(c)
  \/ Replace \/ Rotate \/ Restart

Spec == Init /\ [][Next]_vars

\* A session's thread runs: its reads return, with the client's hang-up where
\* it is gone, or time out.
FairSpec == Spec /\ \A c \in Conn : WF_vars(FarNotices(c) \/ FarEnds(c))
-----------------------------------------------------------------------------
(***************************************************************************)
(* Properties.                                                             *)
(***************************************************************************)
\* "No secret reaches a server that is not the one it was" (Client::connect):
\* what has been presented, by whichever Location, connection and run of the
\* node, was presented to one server, the one pinned.
SecretsHeld == \A o \in offered : o[1] = pin

\* "No directory is chosen by a name nothing checked" (serving_each): files
\* go to the directory of their Location's user, admitted with what it
\* presented.
OwnDirectory == \A s \in stored : s[1] = UserOf[s[2]] /\ <<s[1], s[3]>> \in Admits

\* "Each file's channel is closed from both ends before the client is kept"
\* (Client::usable): the far side of a client that is kept serves none.
KeptClosed == \A c \in Conn : At(c, "kept") => ~ FarAt(c, "serving")

\* What serve gives back as served is whole: a client that goes in the middle
\* of a put fails the session.
ServedWhole == \A c \in Conn : FarAt(c, "over") => Served(c).files = "whole"

\* A session whose client is gone, wherever in it, comes to its end.
SessionEnds == \A c \in Conn : At(c, "none") ~> FarAt(c, "none")
=============================================================================
