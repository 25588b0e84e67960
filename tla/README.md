# A model of the boost chat room servers

TLA+ modules, TLC configurations and TLAPS proofs for the chat server and the
image server in `src/`: C++17 on Boost.Asio and Boost.MySQL, two programs that
share `TcpServer` and `TcpSession`.

## The system

| part | state it keeps | operations |
|---|---|---|
| `TcpServer` (chatserversrc) | acceptor, `sessionList_` (shared pointers), `idToSessionMap_` (weak pointers), heartbeat timer, io thread | `StartAccept`, `RemoveSession`, `RegisterSession`, `GetSessionById`, `CheckHeartbeat`, `Start`, `Stop` |
| `TcpSession` | socket, `streamBuff_`, `userId_`, the callback for a successful login | `LoginAuthen`, `ParseAuthentication`, `SendLoginResponse`, `ListeningFromCli`/`ListenHandle`, `SendDataPacket`, `ImageListeningFromCli`/`ImageListenHandle`, `ClearMyself` |
| `ChatSession` | none | `ChatSessionStart`: forwards a text to the session of `destid` |
| `ImageSession` | none | `ImageSessionDownload`, `HandleAllImagesRequest`, `SendImage`, `SendEndOfReply` |
| `ChatServer`, `ImageServer`, `main` | `serverRunning_` with mutex and condition variable, `servMysql_` | `InitChatServer`, `MakeMysql`, `WaitForServerToStop`, `Stop` |
| `BoostMysql` | one connection, one result, `bInit_` | `Initialize`, `CheckUserInfo`, `ExecSql`, `GetFriends`, `GetAllFriendIds`, `GetFriendImagePath` |
| `ConfigFileReader` | a map, `loadOK_` | `LoadFile`, `GetConfigValue`, `SetConfigValue`, `WriteFile` |
| `DatabaseMysql`, `Singleton`, `DaemonRun` | connection; one object; nothing | unused in the build; start only |

**How they interact.** The main thread makes the server, starts one io thread
(`TcpServer::Start`), connects the database, and waits. Everything else happens
on the io thread, in completion handlers of the one `io_context`. An accept
handler makes a session, whose login handler asks the database, answers,
listens, and calls back into the server to be registered; a listening handler
gives a text to `ChatSession`, which asks the server for the session of the
destination and writes to it. The image server is another process; its sessions
have no login and answer HTTP-like requests.

**What is hard.** One thread runs the handlers, but their order, the kernel's
and the clients' is free; sessions are owned by pointers on the stack of nested
`run` calls, in a list, and in handlers, and referred to by weak pointers, a raw
`this` and a reference to a local; reads drop what they do not use; nothing
queues the writes of a connection, and their buffer does not outlive the call;
the database is connected by another thread than the one that uses it; several
exceptions leave their handler and end the process. `PROJECT.json` lists each
of these as a hazard at its line, with the properties that are about it.

**What makes each part correct.** `TcpServer`/`TcpSession`/`ChatSession`: a text
goes to the one connection it is for, in order, at most once; the map, the list
and the sessions agree; what a handler refers to is alive; no connection is
worked on for ever after its end. `SendDataPacket`: the bytes of a packet arrive
in order and once, a closed socket takes none, every write ends. `ImageSession`:
the end marker is last. The process: main waits until a Stop and sees the one that
comes after the start, it does not wait before the database is settled, the port is
the one configured. `BoostMysql`: an answer made
without a failed query agrees with the tables, and one made with a failed query
is never a part passed off as the whole. `ConfigFileReader`: a server never
starts from a file that was not read.

## The modules

| module | models | checked by |
|---|---|---|
| `Relay` | abstract specification: a directory and a lossy, ordered forwarding of texts | `RelayPromise.cfg`, `RelayProofs` |
| `ChatServer` | `TcpServer`, the chat part of `TcpSession`, `ChatSession` | `ChatSafety.cfg`, `ChatOrder.cfg`, `ChatLive.cfg`, `ChatFreed.cfg`, `ChatGone.cfg`, `ChatUserId.cfg`, `ChatServerProofs` |
| `Wire` | abstract specification: what `SendDataPacket` promises of one connection, without pieces, queue and handlers | through `ImageServer` |
| `PacketWriter` | `TcpSession::SendDataPacket` on `async_write` | through `ImageServer` |
| `ImageServer` | `ImageSession`, the image part of `TcpSession`; extends `PacketWriter`, implements `Wire` | `ImageWrites.cfg`, `ImageEnd.cfg`, `ImageServerProofs`, `PacketOrderProofs`, `SmallPacketProofs`, `WireProofs` |
| `UserDb` | `BoostMysql`'s queries on the two tables, and the requests that make them | `UserDb.cfg`, `UserDbProofs` |
| `ConfigFile` | what `ConfigFileReader` makes of a file | through `ServerLifecycle` |
| `ServerLifecycle` | the threads of a server from its start to its end, and what configures them; extends `ConfigFile` | `Lifecycle.cfg`, `LifecycleStop.cfg`, `ServerLifecycleProofs` |

`MC*` modules name the instances for TLC. Operators whose comment says *Mutant*
are plausible bugs of the operator behind them; each property has one that
breaks it.

### ChatServer

One action is one completion handler, with everything it calls. `acceptStack`
is the stack of accept handlers: `StartAccept` calls `run` again, which has work
for ever (the accept and the heartbeat are armed again on success and on error),
so no frame is ever left and its `pTcpSess` owns the session. `op`/`ec` are a
session's read under way and its result, `line`/`more` its `streamBuff_`: a read
takes at least one line, and what follows it, whole or torn (`torn`), is lost
with the next `ClearStreambuf`. `pending` counts the writes whose handler is
owed. `Alive` is what the shared pointers add up to; `GetSessionById` tests it
as `expired()` does. A line is a frame: its type, the sender and number of a
text, the user whose credentials a login has. `f_username` is not unique:
`Namesakes` says which users share a name, and the id query may return any of
them. A login ends in one of `LoginLost`
(eof or reset), `LoginError`, `LoginUnparsed`, `LoginWrongType`,
`LoginRejected`, `LoginBroken` (an exception of a query or a missing field) and
`LoginAccepted`; a listening read in `ListenError`, `ListenText`,
`ListenOther`, `ListenUnparsed` and `ListenMistyped` (`type_error`, which ends
the process: `running`). `WriteDone` and `WriteLost` are the two kinds of result
that the handler of a write tells apart. A write is atomic here; cutting it is
`PacketWriter`'s subject.

### PacketWriter and ImageServer

A unit is a run of bytes that no write divides. `StartPiece` is
`async_write_some`: it fails on a closed socket, is tried at once if nothing
waits (`waiting`) and the last write was not cut short (`exhausted`), and waits
for the reactor otherwise. `Writable` is the reactor, `PieceOk`, `PieceError`
and `PieceLost` the handler of a piece, run in the order of `ready`. A unit that
is written after `SendDataPacket` has returned comes from a dead buffer: whether
it is `intact` is a free choice. In `ImageServer` the handler of a request
sends one image after the other (`friends`) while the client, but no other
handler and not the reactor, may act.

`Wire` says the same without any of this: a packet that is given goes out bit by
bit, for which its own order and the order of the packets' first units are all
that is promised, and its handler is told `ok` only when all of it is out. `Out`
(a packet's size less `left`) and `OnWire` (`stream` without `intact`) are the
mapping. A retry after a full buffer, a piece that takes nothing, the reactor's
queue and the order of the handlers do not show. `Wire` lets packets mix, as the
code does, so a client of the code may rely on no more than it says unless its
packets are small: for these there are `SmallPacketsWhole` and the theorem
`CallsThatFindRoomWriteWhole`.

### UserDb

`Init` chooses the tables once, since nothing in the repository writes them: any
accounts, and up to `MaxRelations` rows of `t_user_relationship`, which nothing
ties to `t_user` (no foreign key; a row may name an id without an account, the
same user twice, or the same pair twice). One action is one query. A login of
the chat server is `CheckUserInfo`, `QueryUserId` (`ExecSql`), `GetFriends`; a
request for all images is `GetAllFriendIds`, then one `GetFriendImagePath` per
row, then `SendEndOfReply`; `Download` is one query. They share no transaction.
In each action `Works` is the query that succeeds and `Fails` the `system_error`,
after which the connection may be gone for good (`conn`), as nothing connects
again. How a failure looks differs by query and is followed exactly: `false`,
`0xFF`, an empty list, an empty string, or an exception that one caller catches
and another does not (`running`). Names, passwords, paths and names for friends
are model values; a collation's equality of different strings and the group
name, which is read like the name beside it but never NULL, are left out. The
order of the friends' rows is free, as SQL leaves it.

### ConfigFile and ServerLifecycle

A line of a file is its key and its value after `TrimSpace`; a comment, or a line
without `=`, has neither. `GetConfigValue` returns the last pair of a key, and
the empty string if there is none. `loadOK_` is set only by a `LoadFile` that
could open its file, so before that it is whatever the memory holds: `LoadOK` is
both values for a missing file. The port goes through `stoi`, a cast to `short`
and a conversion to 16 unsigned bits (`ToShort`, `ToUint16`).

`mainPc` is the main thread's place in `main`, `InitChatServer`, `MakeMysql` and
`WaitForServerToStop`; `stopPc` that of a thread that calls `Stop`. Nothing in
the repository calls `Stop`; its declaration offers it, so it may come at any
time. `Start` sets the flag without the mutex and `StartThread` makes the thread:
a Stop that came before is forgotten (`serverRunning_ = true`,
`TcpServer.cpp:27`), and one that reaches its join before there is a thread
returns (`StopReturns`); one that finds the thread joins it for ever. `main` reads
the file for the port (`Start`) and `MakeMysql` reads it again (`Configure`);
`EditFile` may put another in its place in between. `bInit_` is not initialised either: `Configure` may find it true, and
then does nothing. Of the io thread only the two requests show that may end the
process: one that finds the database null or in the hands of the main thread
(`RequestCrashes`), and one whose answer from a connected database throws
(`RequestThrows`: a download of an id without a row, an avatar that is NULL). One
that is answered, or refused because its query failed, changes nothing here;
what it is answered is `UserDb`'s subject.

## The runs

| run | question | bounds |
|---|---|---|
| `relay` | does the abstract relay's directory lead to those who were told the id? | 2 connections, 2 ids, texts 0..2 |
| `chat_safety` | who is written what; do map, list and sessions agree; is what is referred to alive; does a text go to the open connection of its destination? | 2 connections, 2 users of one name and the error id, all kinds of lines, torn and together |
| `chat_order` | order and uniqueness of texts; refinement of `Relay` | 2 connections, 2 reads each after the login; failing accepts, several lines at once and torn ones, but these not after a failed accept |
| `chat_live` | do closed connections drain, are gone clients noticed, is a text delivered? | as `ChatLive.cfg`: whole lines |
| `chat_freed`, `chat_gone`, `chat_user_id` | three comments of the source that the code does not bear out | smallest that show it |
| `image_writes` | what survives of packets that nothing queues; refinement of `Wire`; do all writes end? | 2 requests, 2 friends, packets of 1 to 3 units, pieces of 2, room for 3 |
| `image_end` | is the end marker last? It is not | 1 friend |
| `user_db` | when is an answer true to the tables, and what is never answered whatever fails? | 2 ids, names and passwords, 1 path and name for a friend or NULL, 2 rows of relationships |
| `lifecycle` | is a Stop that the start does not override noticed and its notification never lost, does main stay, what may end the process once main waits, does the server listen where it should? | one Stop; 6 files, one of them missing |
| `lifecycle_stop` | does the `io_context` outlive the io thread? Not after a Stop | as `lifecycle` |

Two connections are enough for what relates a sender and a receiver, a stale
map entry and its successor, and a session and the one that registered before
it; the theorems cover every number. Two reads after the login show order,
repetition and loss. In `image_writes` a packet of three units takes two pieces,
fills the send buffer alone, and is cut short behind a small one; one of two is
exactly a piece, the largest that is small; two requests let a download overlap
the images. In `user_db` two ids and two rows give
friends without an account, a user who is his own friend, a pair that is listed
twice, two users of one name, and a failure at each query. The files of
`lifecycle` have a port that is stated twice and does not fit a `short`, one that
does not fit 16 bits, one that is no number, and no database. `MaxFailures`,
`MaxFrames`, `MaxRequests`, `MaxFriends` and `MaxRelations` are the only bounds
on what the program itself would go on doing or on the tables it finds. Deadlock
is not checked where these bounds let an instance stop.

**Violations.** `chat_freed`: a session that is removed is never freed.
`chat_gone`: a session whose client is gone after a login that does not parse
stays listed; no heartbeat notices. `chat_user_id`: after
a failed id query a user is registered under 255. `image_end`: an image goes on
behind the end marker. `lifecycle_stop`: main returns under the io thread.
`PROJECT.json` quotes the comments each of them contradicts.

**Fairness.** In `ChatServer`, weak fairness of every handler, of the
kernel's report of a failed read and of the heartbeat: the `io_context` takes
ready handlers in turn and `epoll` reports a closed peer. No fairness of
accepts, of what clients send or of their leaving. `ReadTextDelivered` excuses
itself only if the destination's registration or connection ends, or the process
does. In `ImageServer` also of the client's receiving: a client that neither
reads nor leaves may hold its packets for ever, and the code has no timeout. In
`ServerLifecycle`, of the main thread and of the notification of a `Stop` that has
begun; `StopIsNoticed` excuses itself if the process ends first, and speaks of a
flag that is down once the start is over.

## The proofs

All theorems hold for every set of connections and users, every size and every
bound, from the named assumptions of the modules' constants alone.

- `ChatServerProofs`. The inductive invariant `ChatInv` is `TypeOK`,
  `PhaseConsistent`, `DirectoryConsistent`, `OnlyAddressee` and `NewestWaits`
  together (`ChatIsConsistent`). None is inductive by itself: a text is only for
  the id in the receiver's reply because the map leads to sessions that were
  told that id, which holds because a session is registered once, which is a
  matter of phases; a forwarded text is newer than the others because the one
  in the buffer is the last that was read. From it: `TypeCorrect`,
  `PhasesAreConsistent`, `OnlyTheAddressee`, `DirectoryIsConsistent`, `WaitingIsNewest`, and that callbacks are valid
  (`CallbackIsValid`, `ThisIsValid`: every accepted session is in a frame of the
  stack). `TextsAreForwarded` is an action property: of the handlers that may run
  for a text only `ListenText` consumes it (`TextIsHandled`, by the phases), and
  what the map leads to is alive if its socket is open, because then it is
  listed (`OpenIsListed`). `OpenSocketsAreListed` needs only `TypeOK` beside itself: every one of
  the clean-ups closes before it removes. `ChatImplementsRelay`: an accepted login is the relay's `Login`, a
  text that is written its `Forward`, everything else a stutter.
- `RelayProofs`: the relay's invariants (`RelayIsCorrect`, and of its parts
  `RelayDirectoryTold` and `RelayOrderedOnce`); `TextsAreOrderedOnce` carries its
  order over to the chat server through the refinement.
- `ImageServerProofs`: `ImageInv` is `TypeOK`, `LeftFits` (what is left of a
  packet is no more than the packet, needed for the units' numbers),
  `NothingWaits` (nothing waits for a closed socket, without which the reactor
  could write after the close), `EndNotYet` and `EndIsLastCall`. From it
  `EndIsTheLastCall` and the action property `ClosedTakesNoMore`.
- `PacketOrderProofs` proves of the overlapping packets what `image_writes`
  checks for a few of them. `OrderInv` adds three parts to `ImageInv`. *Places*
  (`OnePlace`): a packet is in the reactor's queue, among the handlers, or
  finished, so a step moves exactly one packet from one place to another and no
  piece is started twice. *Cuts* (`UnitsInOrder`): a piece takes up where the
  packet's `left` says, so its units extend a prefix (`CutGrows`); the place of a
  packet is what makes `left` unaffected by the others. *Beginnings*
  (`BeginInv`): a packet with a handler that was told `ok` has begun
  (`Underway`), and those in the queue that have not begun are there in the order
  of the calls, before any later one has begun (`InLine`); without that the
  reactor could begin a later one first, which is what `BeginInOrder` rules out.
- `SmallPacketProofs` proves of packets of one piece what `WireProofs` cannot: they
  are whole. `Calm` is the state of the writer as long as every call finds room:
  nothing waits, no write was cut short, nothing is left of any packet, and the
  stream is whole packets. A call then takes its packet at once, from a buffer
  that is alive (`WholeIsTaken`), and the handlers only find that all is written
  (`CalmWrites`); so `CallsThatFindRoomWriteWhole`, which bounds no call but by
  the room there is when it is made, and so holds of a connection that is used
  for ever. `SmallPacketsAreWhole` derives it for packets that have room
  together: `Given` is the set of their units, a call adds the units of one
  packet to it (`GivenGrows`), and the stream is never longer than `Given` is
  large. It is a cardinality and not a sum over `packet`, a fold, as nothing
  about folds can be shown without induction over data.
- `WireProofs`: `ImageImplementsWire`. A call of `SendDataPacket` is `Give`, a
  piece that a handler or the reactor starts is `Emit` (`TakeIsEmit`), a handler
  that is told the end is `Finish`; reads, requests, and pieces that only wait do
  not show (`UnseenStutters`). The guards of `Emit` and `Finish` are `BeginInOrder`
  and the places and cuts of `OrderInv`: a handler told `ok` with nothing left
  means that all is out only because `left` is that packet's alone.
- `ServerLifecycleProofs`: `ThreadInv` places the main thread against the flag and
  the `io_context` (`MainConsistent`), and `ConfigInv` the acceptor against the
  file that was read. From them `MainStaysUntilStopped` and
  `ListensOnConfiguredPort`, the last by the arithmetic of the two conversions of
  the port. `WakeInv` is about the wait: the mutex is held exactly from the look
  at the flag to the wait, so the flag is still set when the wait begins; a Stop
  whose notification came while the main thread was on its way is seen by that
  look. From it `NoWakeupIsLost`. `WaitingServerIsSettled` adds that the database
  is missing or half connected only at the main thread's places before the wait;
  what ends the process after that is a request on a connected database, which
  the action property says and does not deny.
- `UserDbProofs`, for every pair of tables: `FriendshipIsMutual` from the tables
  alone; `AnswersAreTrue`, `LoginsAreWhole`, `ImagesAreFriends` and
  `AllImagesSurvive` from `DbInv`, which says what is known between the queries
  of one request: after the first of a login that there are credentials, after
  the second that the id is of that name or the error id, and within a request
  for all images that the rows that are done are in the answer.

Every invariant, action property and refinement of a passing run is stated by a
theorem.

**Only model-checked.** The liveness properties, as fairness is out of the
prover's reach: `ClosedDrains`, `GoneReadsEnd`, `ReadTextDelivered`, `WritesEnd`
and `StopIsNoticed`. Of the last three a safety half is proved: a text that is
handled goes to the open connection of its destination (`TextsAreForwarded`), an
unfinished packet has a place from which a step leads on (`PacketsHaveOnePlace`),
and no notification is lost (`NoWakeupIsLost`).

## Not modelled

- `DatabaseMysql` is behind `_DBMYSQL`, which the build does not define.
  `Singleton` makes one object, asked for by the main thread alone; `DaemonRun`
  forks before there is anything to model.
- `SetConfigValue` and `WriteFile`: nothing calls them. (`WriteFile` without an
  argument makes a string of its default argument, a null pointer, which throws,
  so a call of `SetConfigValue` would end there and not update the file as its
  comment says.)
- `DoBrocastMessage`, `UnregisterSession` and `UpdateLastActivity`, which nothing
  calls, and the locks of `TcpServer`, which one thread takes.
- The destructor of `BoostMysql` and its `disconnect`: the object lives until the
  process ends.
- The contents of texts, images and logs; the collation of names; the narrowing
  of a `bigint` id to an `int`; memory exhaustion by nested frames (the growth
  itself is `RemovedIsFreed`'s counterexample) and by a line without an end.

Some disagreements between texts and code need no run, as the code is plain. The
column comments of `t_user_relationship` (`t_user_relationship.sql:29`) say that
`f_user1_markname` is the name user 2 has with user 1; `GetFriends`, the example
in `BoostMysql.hpp` and the sample rows take it for the name of user 1 that user
2 sees. `TcpSession.cpp:93` says that a failed login is answered; it is only
closed. The repository's own README lists registration and messages kept for
those who are offline, of which there is no code here.

## The plan

Done, in the order of what matters most to a user of the chat: `Relay`,
`ChatServer`, `PacketWriter`, `ImageServer`, `ServerLifecycle`, `UserDb`,
`ConfigFile`, `Wire`, and the proofs of every invariant, action property and
refinement.

What is left:

1. An abstract `UserDb` that answers a request in one step, and the queries shown
   to implement it when none fails.
2. `ChatServer` on `PacketWriter`: `CallsThatFindRoomWriteWhole` says that a whole
   write is a sound abstraction for packets of one piece that find room; the
   module still takes it as given, and does not have the write that finds none.
3. `ServerLifecycle` and `UserDb` joined where both speak of the connection to
   the database (`servMysql` there, `conn` here).
