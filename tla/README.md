# A verification of the SFTP transport

TLA+ models of `xmip-core-transport-sftp`, checked with TLC on small instances, with theorems
checked by TLAPS for every value of the constants. `PROJECT.json` gives, for each definition, the
lines it models; paths are relative to the repository, which lies under `src/`.

## The system

A node receives files from an SFTP directory and sends files to one. Its parts:

| part | source | state | operations |
|---|---|---|---|
| far end directory | `directory.rs` | files, times of last writing, newest time; per channel: handles, next number | OPEN, WRITE, READ, OPENDIR, READDIR, STAT, CLOSE, REMOVE, RENAME, a channel's end |
| far end server | `server.rs` | a session thread to a connection; a directory for all or one to a user | accept, log in, serve channel after channel, hang up |
| subsystem client | `subsystem.rs` | the request id | put, list, open, read, close, remove |
| client | `client.rs` | one SSH connection | connect, run work on a channel, close the channel |
| kept connection | `connection.rs` | `Line`: the client is here, lent to a harvest, or broken | send (`with`), receive (`harvest`), `usable` |
| harvest | `connection.rs` | a thread with the channel, a queue of requests, a one-place channel to each body | read, told, finish; the closing of `transport::together` |
| claim | `site.rs` | dropped files, turns, claimed files at the server; the memory of each node | take a turn, check, rename, drop the turn, delete, restore, recover |
| transport | `lib.rs` | the pool, the claiming, the settings | `receive_up_to`, `send_from`, `on_node`, `connect` |
| loopback | `loopback.rs` | none of its own | a Location's probe of itself: a far end, a near end, the arrival |
| fixture | `fixture.rs` | none | credentials for the tests |

How they interact. `receive_up_to` takes a kept connection from the pool, lends its client to a
harvest thread, which claims files over one channel (each claim several SFTP requests at a
directory other nodes and senders use at the same time), and hands back one arrival per file. The
runtime reads the arrivals and gives verdicts in any order, from any thread, each as a request
queued to the harvest thread. After the last one the thread closes the channel and puts the client
back, while other callers send and receive over the same pool.

`send_from` takes a connection of the pool the same way and puts one file over a channel of it; a
put that fails is run once more on a fresh connection. A connection is made by `connect`: TCP, key
exchange, the server's key held to the node's pin, and only then the login; it is kept for further
channels as long as each one was closed from both ends.

What makes it hard: the line is looked at under one lock and written under another; a harvest ends
while others look at its connection; one thread serves bodies and verdicts; any request may fail
half way; nodes race for files whose only exclusive step is an OPEN with `EXCL`; nodes crash
between two requests of a claim and are started again; senders write slowly, by name, and again
after a timeout; servers are replaced and secrets rotated between connections; a file is known to
be unchanged only by a length and a time in whole seconds. `PROJECT.json` lists these hazards with
their lines and the properties that would catch each.

`transport::Pool`, `transport::together`, `transport::claim` and `transport::Pinned` are libraries
outside this repository. They are modelled from how this code uses them and are marked external in the map:

- the pool hands a kept connection to one exchange at a time, drops it where it is not usable or
  the exchange failed, and then runs the exchange once more on a connection of its own;
- `together` tells each verdict as it is given and runs its closing once, after the last;
- the claim makes its requests in the order the repository's README and `ClaimSite` give: list,
  stability check, turn, STAT, RENAME, turn dropped; a starting node lists, returns the claims of
  its name and removes the turns whose `holder` is itself; a return that is refused is held and
  tried again;
- `Pinned::hold` pins the first key of an address, refuses every other, and keeps its pins under
  the node's data directory;
- `Outgoing::pieces` gives a body in pieces of at most `CHUNK`, an empty body as one empty piece.

## The modules

**Directory, FarEnd** (`directory.rs`). `Directory` holds the shared state and what one request
does to it; `FarEnd` adds channels and handles. An action is a request, since each is answered
whole under the directory's lock. Files are short byte sequences; `usize` and `u32` limits are the
constants `WordMax` and `TimeMax`, so that saturation happens. The clock is any number at each
write. `seen` and `closed` are history variables: the last stamp a client was shown of a file, with
the bytes the file had then, and the numbers each channel has closed. A READ, INIT or refused request changes nothing and is not an action here, but
for refused OPENs, which use up a handle number.

**Connection** (`connection.rs`, with `client.rs` and `lib.rs`). Callers send and receive at once.
`line` is `Connection.0`; a step is what happens between two takings of its lock, so `Displace` and
`Restore`, the two halves of `harvest`'s early return, are two actions. The harvest thread is its
listing, answering, closing and giving back, each of which may fail; `mail` is what it last said to
the receive (`listed`) or to the finish (`finished`). `met` is history: whether another receive was
handed the connection of a harvest under way. `SpawnFails` says whether the thread may fail
to start.

**Harvest** (`connection.rs`). One harvest after its files are claimed: `body` is `Fetch`, `chunk`
its one-place channel, `requests` the queue, `thread` the position in `answering` and `reading`,
`closing` that of `together`'s closing. Every request to the far end may fail, and a return may be
refused and held (`Restore::Kept`); that a claimed file is gone (`Restore::Gone`) is left to
`Claim`, since here nobody else touches one. The runtime's part
of the contract is a guard: the verdict on a file is told once its own body has ended, failed, been
let go or was never begun.

**Claim** (`site.rs`, `Sftp::put`). A step is one SFTP request of a node or a sender, so nodes
interleave within a claim. A file is the number of the write that last changed it, which is what
`StampSound` of `FarEnd` allows. `turn` records beside what the turn's file holds who made it, and
`due` the files finished, neither accepted nor written over: both are history. A crash forgets all a
node remembered; a connection may break in the middle of a receive (`BreakOff`), which leaves turn
and claim behind in a process that goes on; a return's answer may be lost after the return was made.
A request under way at a break or a crash was answered before it or never is. The far end's thread
may in fact answer it later: a REMOVE of a turn that came after its node was started again and had
recovered would remove the next holder's. The properties of `Claim` are of runs without one.

**Intake** is what the directory promises the nodes with nothing of how: a file waits or is taken,
a taken one may be in one node's hand, and what is in a hand is its node's alone to accept and
nobody's to return. `Claim`'s `ImplementsIntake` maps a file's place, under whatever name, to it.
It is a specification and not a model of code, so the map does not name it.

**Transfer** (`Sftp::put`, `open_for_reading`, `read_at`, `on_read`, `send_from`). A message on its
way from a send to a receive, over `Directory`. A request is asked, answered and heard in three
steps; a client gives up before the answer or after it, and the pool's second attempt follows. A
request given up may still be answered later, by the far end's thread of the old connection;
`belated` records that one was. `standing` is history: the messages put, with their CLOSE answered
and the owner told, neither taken nor put over since. Puts under one name come one after the other; a claim
is one step, since `Claim` has its requests. The far end renames a file whoever has it open, and the
stability check only asks that its sender paused for two listings, so a claim may come between any
two requests of a put. The WRITEs that follow make the file anew, with zeros up to their offset;
`cut` is the history of it: which attempts had their file claimed as they wrote it, and how many
bytes were claimed.

**Session** (`client.rs`, `server.rs`, `presented` and `connect` of `lib.rs`). The two ends of each
connection: `near` is the client from `connect` to its last channel, `far` the session thread from
accept to its end. A step is one exchange between the ends or the failure of one. Around them
another server may take the address, the store's secret may change or become unusable, and the node
may be started again. `offered`, `stored` and `turned` are histories: which credentials went to
which server, whose directory each file went to, which logins were turned down.

**Loopback** (`loopback.rs`) is `Session` between a Location and its own probe, with the check
`far_end` makes.

**Listing** (`name_reply` and STAT of `directory.rs`; `list`, `entries`, `stamp` of `subsystem.rs`;
`stat` of `site.rs`). Replies are written and read word by word: a u32 is a word, a u64 two, a
string its length and its characters. The rounds of the loops over entries and over extended pairs,
of the writer and of the reader, are steps. The server is this one or one that sends other
attributes, and a reply may be cut at any word, or be a refusal. `Has` tests a flag's bit; the extended flag, the highest in the
code, is the fifth here. The reader's place runs on past the end of a body and is looked at once:
no read comes back from there, so this is the `?` after each of them.

Definitions called a fault in a comment are changed forms of the definition after them, which some
property must tell from it; they are part of no specification.

## What the runs check

| run | instance | result |
|---|---|---|
| `far_end` | 2 channels, 2 names, 2 opens, files of up to 2 bytes, times up to 4 | passes, 448,050 states |
| `connection` | 2 callers, 2 connections, failing spawns | passes, 44,685 states |
| `connection_lost_client` | the same, no failing spawns | `ClientNotLost` is violated |
| `harvest` | 2 files, of one chunk and of three | passes, 587,169 states |
| `claim` | 2 nodes, 1 name, 2 writes, 1 crash, break or lost answer | passes, 1,895,827 states |
| `claim_live` | 2 nodes, 1 name, 2 writes, no crash | passes, 373,831 states |
| `claim_turns` | 1 write, 1 crash | `TurnsRemoved` is violated |
| `transfer` | 2 messages under 1 name, one larger than the ceiling, 3 takes | passes, 1,859,744 states |
| `transfer_late` | the same, no take | `PutIsThere` is violated |
| `session` | 2 connections, 2 Locations, 2 keys, 2 channels each, 2 changes | passes, 1,376,588 states |
| `loopback_secured` | 1 Location with a secret of the store | `PresenterAdmitted` is violated |
| `listing` | up to 2 entries in up to 2 replies, up to 2 extended pairs each, 9 sets of attributes | passes, 803,956 states |

- `far_end`: files stay within `MAX_BODY` (`FilesBounded`); no time outlives its file
  (`TimesHaveFiles`) or is given twice (`TimesDistinct`), and a stamp shown again stands for the
  same bytes (`StampSound`); an open handle stays what it was, and no number is handed out again
  after its close, by opens that follow or are refused (`HandleKept`).
- `connection`: a client is in one place (`OneHolder`); a receive is told that nothing was claimed
  with the client back on the line, and so is a finish that the harvest is over, unless another
  receive was handed the connection meanwhile, and lent it again or put back the state it had found
  (`BackWhenSaid`); sends and receives return whatever the verdicts of others do
  (`SendReturns`, `ReceiveReturns`).
- `harvest`: a body that ends is whole (`EndedIsWhole`); a file is removed only where it was
  accepted and goes back only where it was not, and a verdict acknowledged was carried out, or is of
  a return that is held (`ToldIsDone`); a harvest that ends on its last verdict leaves claimed only
  what is held or what its telling failed of (`NoneLeftClaimed`); whoever waits is answered (`AnswersCome`), and the harvest ends (`HarvestEnds`).
- `claim`: the claims in a runtime's hand stay (`ArrivalsKept`); who checks and renames a file
  holds its turn (`TurnHeld`); a finished file is there until it is accepted or written over
  (`NothingLost`), and in one place (`OnePlace`); a refused file is not received again unchanged (`RefusedStays`). `claim_live`,
  where nobody crashes: a file left alone is taken, unless every node refused it
  (`TakenEventually`); every request is a step of the abstract specification or none
  (`ImplementsIntake`; the theorem has the crashes and the lost answers too).
- `transfer`: unless a request given up is answered late, what was put is there whole until taken
  or put over, whatever an attempt before it left; of a file claimed as it was written the rest is
  there, after a hole of what was claimed (`SentIsThere`). What is received is of one message: its
  body, the start of one an attempt to send which failed, or a part of one that was so claimed
  (`DeliveredWhole`). Files received are of different messages, but for those an attempt to send
  which failed, and for those claimed as they were written, no byte of which comes twice
  (`OnceUnlessBroken`). Even with late answers no byte is out of its place (`InPlace`).
- `session`: all that is presented goes to the one server pinned (`SecretsHeld`); files go to the
  directory of their Location's user, admitted with what was presented (`OwnDirectory`); no client
  is kept with a channel the far side still serves (`KeptClosed`); a session that returns as served
  has no file in part (`ServedWhole`); a session whose client is gone ends (`SessionEnds`).
- `listing`: a listing or a stat that is had is what the server said, whatever attributes came with
  it and wherever a reply was cut (`ListedIsSent`, `StatIsSent`), and the reader is never astray in
  between (`ReadIsPrefix`).

The violated properties state what a comment or the README says; `findings` in `PROJECT.json`
quotes them:

- two receives on one connection can lose the client: the second puts the old `Harvesting` back
  over the `Here(client)` the harvest's end has just written;
- a node that dies between the OPEN and the WRITE of its turn leaves a turn nobody removes;
- a request of a put that timed out, answered after the second attempt's CLOSE, empties or changes
  the file of a put that came back `Ok`;
- a Location that presents a secret of the store is turned down by its own probe, whose check knows
  only what the Location was built with.

Five smaller ones were met while modelling and have no run. After `u32::MAX` a write does not move
a file's time (`directory.rs:77`; `StampSound` is stated below that limit). When closing the channel
fails, `finish` returns before the line says `Broken` (`client.rs:114`). A sender that pauses for two
listings has its file taken unfinished, and its next WRITE makes a second file (`site.rs:159`; `claim`
and `transfer` include it). If an older file under that name is returned before that WRITE, the WRITE
goes over it, and a finished file is lost (`directory.rs:257`; `NothingLost` names this exception, which
the theorem includes and `claim`, with two writes, does not reach). `stat` gives `None` of a file that is there where a server sends no size or no times,
and `restore` takes that for gone (`site.rs:75`; this far end sends both, and `Listing` keeps what was
read apart from a file that is not there, which `stat`'s caller cannot).

### Bounds

Two actors are enough for every race described: each hazard is between one actor's two steps and
one other actor. Two opens, of one channel or of two, are an open after a close and a handle beside
another's: `MaxHandles` bounds those of a channel's life and of two channels together. `TimeMax` 4 lets two
files be written twice before saturation. Two connections let one be lent while the other is
opened. Two writes are a file and its replacement, or a file and what a slow sender adds. One name
suffices in `claim` for the races about a file; that turns of different names do not disturb each
other is in the theorems. `MaxWrites` and `MaxFailures` bound writes and failures, `MaxTakes` the
files received: three are a message received twice and one more, or one claimed twice as it was
written and its rest. `MaxLate` 1 is one request given up and on its way at a time, of either
attempt. A body of a piece and a half ends
in a short piece, one of two pieces in a whole one, and passes the ceiling with it; no larger number
of messages is needed, since sends under one name follow each other. `MaxChanges` 2 lets
a server be replaced and the node started again between a pin and a login; two connections let one
set the pin while another is under way; `Most` 2 is a first channel and one of the loop. `Word` is
32 for 2^32, so that five flags fit a word and a length of 33 takes both words of a u64; the flags
are none, each alone that matters, and mixtures with those that are skipped. Node names, channels,
connections and file names are symmetric where only safety is checked.

### Fairness

- `Connection` and `Harvest`: weak fairness of each thread's own steps, which the operating system
  gives, and none of what the runtime decides: no caller has to start anything. That a request to
  the far end comes to an end is the socket's: it is answered, the connection breaks, or the
  Location's timeout passes. A Location may be without a timeout (`lib.rs:99`, `lib.rs:129`), and
  then a far end that neither answers nor goes is outside this. In `Harvest` a body
  under way is read on or let go, and each arrival gets its verdict or is let go, since the runtime
  drops its arrivals in the end; without that a harvest lasts.
- `Claim`: a node polls and carries its receives on, and tries to return what it holds. Senders,
  verdicts and crashes promise nothing.
- `Session`: weak fairness of the session thread noticing that its client is gone and of its end;
  its reads return with the hang-up, or at the timeout where the listener sets one. Clients promise
  nothing. `Transfer` has no fairness: how long a send lasts depends on a timeout that is optional.

Deadlock is not checked in `transfer`, whose messages are each sent once, and in `listing`, which
ends with its answer; every other passing run checks it. A violation run needs no fairness: what it
violates is a safety property.

## What is proved

`FarEndProofs`, from the assumptions on the limits (`DirectoryAssumption`, `FarEndAssumption`):
`TypeCorrect`; `Bounded`, no writes at any offset pass `MAX_BODY`; `StampsMean`, that `StampSound`
always holds. `StampSound` alone is not inductive: a write to another file could be given the time
a client remembers. `StampInv` adds that times are distinct (`NoTimeTwice`), belong to files that
are there (`NoTimeLeft`), do not exceed `newest`, and are traced to their bytes (`TimesStay`); a
write then takes a time above all of these. `HandlesKeep`, that no step but a CLOSE or the
channel's end changes what an open number names, and that no closed number is handed out again,
comes from `HandlesDrawn`: every number in use, and every one closed, is below the channel's counter,
and none is both. The lemmas on what one request does to the directory
are in `DirectoryProofs`.

`ConnectionProofs`: `ConnectionTypeCorrect`, `ClientInOnePlace` and `ToldOnceBack` for any callers
and connections. `OneHolder` needs to know that what the early return of `harvest` puts back is
never a client (`OtherNotHere`). `BackWhenSaid` is about the step that says it, with the callers
between the giving back and the saying, so it needs to know who may write the line there:
`OwnInv`, that a connection is one exchange's or the pool's; `SomeInv`, that a harvest of nothing has
its receive still waiting on that connection; `MetInv`, that any other receive on it is recorded; and
`BackInv`, that what a thread gave back is still on the line unless there was one.

`HarvestProofs`, for any arrivals and any lengths of their bodies: `HarvestTypeCorrect`,
`BodyIsWhole`, `TellingIsTrue` and `NothingStaysClaimed`. The invariant has four parts. `BodyInv`:
what a reader got and what lies in its one place is what the thread read so far. `VerdictInv`: a
file is where its telling left it, claimed where the return is held. `QueueInv`: the queue has one request of a kind for an arrival,
and what it asks is still to be done. `EndInv`: the finish is asked for after every telling. The
queue is what makes it hard: a telling is carried out long after it was asked, when without
`QueueInv` nothing says that the file is still claimed.

`ClaimProofs`, for any nodes, names, writes and failures: `ClaimTypeCorrect`; `TurnIsExclusive`,
from `TurnInv`, which adds that a node about a file made the file's turn, and that a turn names
nobody but its maker, so that a recovery removes only turns of a node that is about no file;
`NoFileIsLost` and `FileInOnePlace`, from `PlaceInv`, which adds that no file is of a write to come,
by way of the five changes a request may make to the directory; `InHandIsKept`, from `HandInv`,
which adds that claims in hand and to be returned are the node's own and never the same, and that
a node that has not recovered has none in hand; `RefusedIsLeft`, from `FreshInv`, which says that
what a node is about to claim, from its listing to its rename, is neither what it refused nor what
it has in hand under the name and may refuse before the rename. Last, `ClaimIsIntake`, that `Claim`
implements `Intake`: each request is shown to be one abstract step or none, from `PlaceInv`, by
which moving a name moves its file and no other, and `HandInv`, by which what is returned is in no
hand.

`SessionProofs`, for any connections, Locations, credentials, keys and changes around them:
`SessionTypeCorrect`, `SecretsStay`, `DirectoryIsOwn`, `KeptIsClosed` and `ServedIsWhole`. `ConnInv`
says of one connection what its ends know of each other: who is about to present does so to the
pinned key, who is in was admitted as its Location's user, what the far end has once the near end
is done is whole. Since a step of one connection may set the pin, it also needs that the pin, once
set, stays.

`TransferProofs`, for any messages, bodies and sizes of a piece (`TransferAssumption`):
`TransferTypeCorrect`, `PutIsWhole`, `ReceivedIsWhole`, `ReceivedOnce` and `BytesStayInPlace`. `PutInv` says where a
send is in its body, and that it is alone under its name; `CutInv`, which attempts may have had their
file claimed. `FileInv` says what each send has left in its file: the first bytes of its message, as
many as the answered requests carried, with a hole of what was claimed; and that what stands has all
of it. `TakeInv` says that what a receive has read is the start of the file it claimed. Both hold
only until a request given up is answered, which is what `transfer_late` shows to be needed.
`BytesStayInPlace` needs neither: a piece is written at its own offset whenever it comes.
`ReceivedIsWhole` and `ReceivedOnce` come from an invariant of their own, `Sourced`: every file that
was received or may be, which are those nobody is writing and the claimed one, is a part of a
message. Two are of one message only where an attempt of it failed, or where the later one has a
hole as long as the earlier; and no byte before the end of any of them will be written of its
message again, but after a failure (`Over`). A put that goes on after a claim then makes a file whose
hole is all that came before, and a claim moves a file without making one. Messages may have equal bodies, so the property asks for a
way to assign files to messages; counting how often a body was received would not say it.

`ListingProofs`, for any names, lengths, times, attributes, extended pairs and numbers of replies,
and words of any size from 32 up (`ListingAssumption`): `ListingIsTrue`, `NeverAstray` and
`StatIsTrue`. The invariant is `ListInv`. Its first half is of the writer: a reply is laid out as
items, one after another, an entry up to its pairs or one extended pair (`Laid`), and each new one
leaves those before it where they are (`LaidOn`). The second is of the reader: it stands between
two items, with as many entries read and as many pairs to come as the item before says (`Between`).
That the reader gets to the end of the next item, and has read its name and stamp on the way, is
what the lemmas on strings, attributes and pairs say (`StringRead`, `AttributesRead`, `PairIsRead`);
they are of the body that came, which need only agree with the sent one as far as it goes. A reader
that had every entry is at the last item's end, so nothing was cut (`HadIsWhole`).

The proofs assume nothing but the named `ASSUME`s of the modules, which TLC evaluates in every run.

Only model-checked is liveness, which is out of the prover's reach: `SendReturns` and
`ReceiveReturns`, `AnswersCome` and `HarvestEnds`, `TakenEventually`, `SessionEnds`. The violated
properties have their counterexamples from TLC. Every safety property of the passing runs, the
step properties and the refinement included, is a theorem.

## What is not modelled

- The frame around a packet, the numbering of requests, the wording of errors: one request is under
  way in a channel at a time, so an answer belongs to it.
- The key exchange and the ciphers, which belong to the `ssh` library; a key is its fingerprint.
- Settings, addresses and the naming of files, which are pure functions of configuration.
- Two puts under one name at the same time: `transport::file_name`, outside this repository, decides
  whether there are any.
- What the owner does when it is told of a file: its callback is code of another repository. That
  it runs under the directory's lock, and must not go back to the directory, is listed as a hazard.
- The arrival a probe makes of what was put, which formats an origin.
- The fixture, which holds credentials for the tests.
