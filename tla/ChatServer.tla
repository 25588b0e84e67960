----------------------------- MODULE ChatServer -----------------------------
(***************************************************************************)
(* The chat server as seen from its io thread: TcpServer (acceptor,        *)
(* session list, id map), TcpSession (login, listening, sending, clean-up) *)
(* and ChatSession (forwarding of a text).  One thread runs the            *)
(* io_context, so every completion handler is one atomic step; what        *)
(* interleaves is the order of handlers, of the kernel's results and of    *)
(* the clients.                                                            *)
(*                                                                         *)
(* A client's line is abstracted to a frame: what the code tells apart in  *)
(* it (its "type", whether it parses, the credentials, the destination).   *)
(* A write appends its frame to the connection in one step; how one        *)
(* async_write is cut in pieces is not modelled here.                      *)
(***************************************************************************)
EXTENDS Naturals, Sequences, FiniteSets

CONSTANTS
  Session,    \* the connections (TcpSession objects) that may be accepted
  User,       \* f_user_id of the rows of t_user
  Namesakes,  \* the ids of the rows with the same f_username, which is not unique
  NoUser,     \* 0: the default of "destid"; also: userId_ not set
  ErrId,      \* 0xFF: what ExecSql returns when the query fails
  NoSession,  \* the empty pointer
  OddLines,   \* which lines besides logins and texts the clients send
  MaxFrames,  \* bound: reads of one session after its login
  MaxFailures \* bound: accepts that fail

ASSUME ConstantsAssumption ==
  /\ NoUser \notin User \cup {ErrId}
  /\ Namesakes \in [User -> SUBSET User]
  /\ NoSession \notin Session
  /\ OddLines \subseteq {"other", "mistyped", "garbage"}
  /\ MaxFrames \in Nat
  /\ MaxFailures \in Nat

Id == User \cup {NoUser, ErrId}

-----------------------------------------------------------------------------
(* Frames. *)

LoginFrame == [type : {"login"}, user : User \cup {NoUser}]
TextFrame  == [type : {"message_text"}, from : Session, dest : Id, n : Nat]
OtherFrame == [type : {"other", "mistyped", "garbage"}]
Request    == LoginFrame \cup TextFrame \cup OtherFrame

\* user = NoUser: no row of t_user has these credentials, or one is missing.
Login(u) == [type |-> "login", user |-> u]

\* A text sent by the client of s: (from, n) identifies it, n grows as it is read.
Text(s, d, k) == [type |-> "message_text", from |-> s, dest |-> d, n |-> k]

\* "other": a JSON object of some other "type".
Mistyped == [type |-> "mistyped"]  \* JSON, but a value of the wrong JSON type
Garbage  == [type |-> "garbage"]   \* not JSON, part of a line included

NoLine == [type |-> "empty"]  \* nothing in the buffer

Reply(u)   == [type |-> "login_success", user |-> u]
ReplyFrame == [type : {"login_success"}, user : Id]

-----------------------------------------------------------------------------
VARIABLES
  running,        \* the process has not terminated
  acceptStack,    \* the accept handlers on the io thread's stack, and the
                  \* session each one holds in its local pTcpSess
  sessionList,    \* TcpServer::sessionList_
  idToSessionMap, \* TcpServer::idToSessionMap_ (weak pointers)
  socket,         \* per session: "none" before the accept, "open", "closed"
  op,             \* per session: the read under way: "none", "login", "listen"
  ec,             \* per session: the result of that read
  line,           \* per session: the first line in TcpSession::streamBuff_
  more,           \* per session: something follows that line in streamBuff_
  userId,         \* per session: TcpSession::userId_
  pending,        \* per session: writes whose completion has not run
  wire,           \* per session: the frames written to the socket
  peer,           \* per session: the client is still connected
  torn,           \* per session: the last read ended inside a frame
  sent            \* per session: number of reads after the login

server == <<running, acceptStack, sessionList, idToSessionMap>>
streamBuff == <<line, more>>
session == <<socket, op, ec, streamBuff, userId, pending, wire>>
client == <<peer, torn, sent>>
vars == <<server, session, client>>

Init ==
  /\ running = TRUE
  /\ acceptStack = <<>>
  /\ sessionList = {}
  /\ idToSessionMap = [u \in Id |-> NoSession]
  /\ socket = [s \in Session |-> "none"]
  /\ op = [s \in Session |-> "none"]
  /\ ec = [s \in Session |-> "pending"]
  /\ line = [s \in Session |-> NoLine]
  /\ more = [s \in Session |-> FALSE]
  /\ userId = [s \in Session |-> NoUser]
  /\ pending = [s \in Session |-> 0]
  /\ wire = [s \in Session |-> <<>>]
  /\ peer = [s \in Session |-> FALSE]
  /\ torn = [s \in Session |-> FALSE]
  /\ sent = [s \in Session |-> 0]

-----------------------------------------------------------------------------
(* Who keeps a session alive: shared pointers. *)

OnStack(s) == \E i \in 1..Len(acceptStack) : acceptStack[i] = s

\* A handler bound to a read holds shared_from_this(); the handler of a write
\* captures the raw this and holds nothing.
Alive(s) == OnStack(s) \/ s \in sessionList \/ op[s] # "none"

\* Mutant: the test of expired() is the wrong way round.
GetSessionByIdInverted(u) ==
  IF idToSessionMap[u] # NoSession /\ ~Alive(idToSessionMap[u])
  THEN idToSessionMap[u]
  ELSE NoSession

\* TcpServer::GetSessionById
GetSessionById(u) ==
  IF idToSessionMap[u] # NoSession /\ Alive(idToSessionMap[u])
  THEN idToSessionMap[u]
  ELSE NoSession

-----------------------------------------------------------------------------
(* The helpers of a session that its handlers call. *)

ClearStreambuf(s) ==
  /\ line' = [line EXCEPT ![s] = NoLine]
  /\ more' = [more EXCEPT ![s] = FALSE]

StartRead(s, kind) ==
  /\ op' = [op EXCEPT ![s] = kind]
  /\ ec' = [ec EXCEPT ![s] = "pending"]
  /\ ClearStreambuf(s)

\* The handler returns and starts no read; nothing reads the buffer again.
NoRead(s) ==
  /\ op' = [op EXCEPT ![s] = "none"]
  /\ ec' = [ec EXCEPT ![s] = "pending"]
  /\ ClearStreambuf(s)

\* The frame reaches the connection only if the socket is open; either way a
\* completion is owed.
SendDataPacket(s, f) ==
  /\ wire' = [wire EXCEPT ![s] = IF socket[s] = "open" THEN Append(@, f) ELSE @]
  /\ pending' = [pending EXCEPT ![s] = @ + 1]

\* Mutant: the socket is left open.
ClearMyselfOpen(s) ==
  /\ sessionList' = sessionList \ {s}
  /\ UNCHANGED socket

\* The map entry of the session stays.
ClearMyself(s) ==
  /\ socket' = [socket EXCEPT ![s] = "closed"]
  /\ sessionList' = sessionList \ {s}

\* Mutant: emplace instead of operator[], so an earlier login keeps the entry.
NotifyKeepingFirst(s, id) ==
  /\ userId' = [userId EXCEPT ![s] = id]
  /\ idToSessionMap' = [idToSessionMap EXCEPT ![id] = IF @ = NoSession THEN s ELSE @]

NotifyAuthenticationSuccess(s, id) ==
  /\ userId' = [userId EXCEPT ![s] = id]
  /\ idToSessionMap' = [idToSessionMap EXCEPT ![id] = s]

-----------------------------------------------------------------------------
(* The acceptor.  The handler calls StartAccept, which arms the next accept *)
(* and enters io_context::run again, so its frame stays on the stack: run   *)
(* has work as long as the accept and the heartbeat are armed, which both   *)
(* handlers see to on success and on error.                                 *)

\* Mutant: the handler returns (no nested run), and its pTcpSess with it.
AcceptReturning(s) ==
  /\ running
  /\ socket[s] = "none"
  /\ socket' = [socket EXCEPT ![s] = "open"]
  /\ peer' = [peer EXCEPT ![s] = TRUE]
  /\ StartRead(s, "login")
  /\ sessionList' = sessionList \cup {s}
  /\ UNCHANGED <<running, acceptStack, idToSessionMap, userId, pending, wire, torn, sent>>

Accept(s) ==
  /\ running
  /\ socket[s] = "none"
  /\ socket' = [socket EXCEPT ![s] = "open"]
  /\ peer' = [peer EXCEPT ![s] = TRUE]
  /\ StartRead(s, "login")                   \* IintChatTcpSession, LoginAuthen
  /\ sessionList' = sessionList \cup {s}
  /\ acceptStack' = Append(acceptStack, s)
  /\ UNCHANGED <<running, idToSessionMap, userId, pending, wire, torn, sent>>

AcceptFails ==
  /\ running
  /\ Cardinality({i \in 1..Len(acceptStack) : acceptStack[i] = NoSession}) < MaxFailures
  /\ acceptStack' = Append(acceptStack, NoSession)
  /\ UNCHANGED <<running, sessionList, idToSessionMap, session, client>>

-----------------------------------------------------------------------------
(* async_read_until: the kernel's side of a read, and what clients send. *)

\* The frames that the client of s may send next.
ClientFrame(s) ==
  {Login(u) : u \in User \cup {NoUser}}
    \cup {Text(s, d, sent[s] + 1) : d \in Id}
    \cup {[type |-> odd] : odd \in OddLines}

Reading(s) == running /\ op[s] # "none" /\ ec[s] = "pending"

\* What the client has sent is chosen as it is read.  A read takes a frame, or the
\* rest of one that the read before tore and that no longer parses; behind it in
\* the buffer there may be more, whole or torn.
ReadCompletes(s) ==
  /\ Reading(s)
  /\ socket[s] = "open"
  /\ \E first \in IF torn[s] THEN {Garbage} ELSE ClientFrame(s), follows, tears \in BOOLEAN :
       /\ tears => follows
       /\ line' = [line EXCEPT ![s] = first]
       /\ more' = [more EXCEPT ![s] = follows]
       /\ torn' = [torn EXCEPT ![s] = tears]
  /\ op[s] = "listen" => sent[s] < MaxFrames
  /\ sent' = [sent EXCEPT ![s] = IF op[s] = "listen" THEN @ + 1 ELSE @]
  /\ ec' = [ec EXCEPT ![s] = "ok"]
  /\ UNCHANGED <<server, socket, op, userId, pending, wire, peer>>

\* "lost": eof or connection_reset; "other": operation_aborted on a closed socket,
\* timed_out by keep-alive, ...
ReadFails(s) ==
  /\ Reading(s)
  /\ ~peer[s] \/ socket[s] = "closed"
  /\ \E e \in {"lost", "other"} :
       /\ e = "lost" => socket[s] = "open"
       /\ ec' = [ec EXCEPT ![s] = e]
  /\ UNCHANGED <<server, socket, op, streamBuff, userId, pending, wire, client>>

-----------------------------------------------------------------------------
(* The completion handler of LoginAuthen. *)

Completed(s, kind, e) == running /\ op[s] = kind /\ ec[s] = e

LoginLost(s) ==
  /\ Completed(s, "login", "lost")
  /\ NoRead(s)
  /\ ClearMyself(s)
  /\ UNCHANGED <<running, acceptStack, idToSessionMap, userId, pending, wire, client>>

\* Mutant: any other error starts the login read again.
LoginErrorRetries(s) ==
  /\ Completed(s, "login", "other")
  /\ StartRead(s, "login")
  /\ UNCHANGED <<server, socket, userId, pending, wire, client>>

LoginError(s) ==
  /\ Completed(s, "login", "other")
  /\ NoRead(s)
  /\ UNCHANGED <<server, socket, userId, pending, wire, client>>

\* The whole buffer is parsed as one JSON value: two frames, or a part of one,
\* do not parse.  The exception is caught and logged.
LoginUnparsed(s) ==
  /\ Completed(s, "login", "ok")
  /\ more[s] \/ line[s] \in {Garbage, Mistyped}
  /\ NoRead(s)
  /\ UNCHANGED <<server, socket, userId, pending, wire, client>>

LoginWrongType(s) ==
  /\ Completed(s, "login", "ok")
  /\ ~more[s]
  /\ line[s].type \notin {"login", "garbage"}
  /\ NoRead(s)
  /\ ClearMyself(s)
  /\ UNCHANGED <<running, acceptStack, idToSessionMap, userId, pending, wire, client>>

LoginRequest(s, u) ==
  /\ Completed(s, "login", "ok")
  /\ ~more[s]
  /\ line[s] = Login(u)

\* Mutant: after the refusal another login is awaited, on the closed socket.
LoginRejectedRetries(s) ==
  /\ \E u \in User \cup {NoUser} : LoginRequest(s, u)
  /\ socket' = [socket EXCEPT ![s] = "closed"]
  /\ StartRead(s, "login")
  /\ UNCHANGED <<server, userId, pending, wire, client>>

\* ParseAuthentication, CheckUserInfo false (no such row, or its query failed):
\* the socket is closed and nothing else.
LoginRejected(s) ==
  /\ \E u \in User \cup {NoUser} : LoginRequest(s, u)
  /\ socket' = [socket EXCEPT ![s] = "closed"]
  /\ NoRead(s)
  /\ UNCHANGED <<server, userId, pending, wire, client>>

\* Mutant: the session is registered before GetFriends, which throws.
LoginBrokenRegistered(s) ==
  /\ \E u \in User : LoginRequest(s, u) /\ NotifyAuthenticationSuccess(s, u)
  /\ NoRead(s)
  /\ UNCHANGED <<running, acceptStack, sessionList, socket, pending, wire, client>>

\* A string is missing in the request, or a query throws (rows().at, GetFriends):
\* caught and logged.
LoginBroken(s) ==
  /\ \E u \in User \cup {NoUser} : LoginRequest(s, u)
  /\ NoRead(s)
  /\ UNCHANGED <<server, socket, userId, pending, wire, client>>

\* The id is that of a row with the user's name, or ErrId if ExecSql failed.
LoginAccepted(s) ==
  /\ \E u \in User : \E id \in Namesakes[u] \cup {ErrId} :
       /\ LoginRequest(s, u)
       /\ SendDataPacket(s, Reply(id))
       /\ NotifyAuthenticationSuccess(s, id)
  /\ StartRead(s, "listen")
  /\ UNCHANGED <<running, acceptStack, sessionList, socket, client>>

-----------------------------------------------------------------------------
(* ListenHandle: the first line of the buffer is handled; the next read      *)
(* empties the buffer, so what followed that line is gone.                   *)

\* Mutant: the handler listens again whatever the error.
ListenErrorRetries(s) ==
  /\ \E e \in {"lost", "other"} : Completed(s, "listen", e)
  /\ StartRead(s, "listen")
  /\ UNCHANGED <<server, socket, userId, pending, wire, client>>

\* Any error: the handler does nothing.
ListenError(s) ==
  /\ \E e \in {"lost", "other"} : Completed(s, "listen", e)
  /\ NoRead(s)
  /\ UNCHANGED <<server, socket, userId, pending, wire, client>>

Line(s, type) == Completed(s, "listen", "ok") /\ line[s].type = type

\* Mutant: BrocastMessage, the call that is commented out in ChatSessionStart.
ListenTextBroadcast(s) ==
  /\ Line(s, "message_text")
  /\ wire' = [t \in Session |-> IF t \in sessionList \ {s} /\ socket[t] = "open"
                                THEN Append(wire[t], line[s]) ELSE wire[t]]
  /\ StartRead(s, "listen")
  /\ UNCHANGED <<server, socket, userId, pending, client>>

\* Mutant: the buffer is not cleared, and the line is handled again.
ListenTextTwice(s) ==
  /\ Line(s, "message_text")
  /\ GetSessionById(line[s].dest) # NoSession
  /\ SendDataPacket(GetSessionById(line[s].dest), line[s])
  /\ UNCHANGED <<server, socket, op, ec, line, more, userId, client>>

\* ChatSessionStart: to the session registered for destid, if there is one.
ListenText(s) ==
  /\ Line(s, "message_text")
  /\ LET dest == GetSessionById(line[s].dest)
     IN  IF dest = NoSession
         THEN UNCHANGED <<pending, wire>>
         ELSE SendDataPacket(dest, line[s])
  /\ StartRead(s, "listen")
  /\ UNCHANGED <<server, socket, userId, client>>

\* Mutant: a line of another type is sent back.
ListenOtherEchoed(s) ==
  /\ Line(s, "login") \/ Line(s, "other")
  /\ SendDataPacket(s, line[s])
  /\ StartRead(s, "listen")
  /\ UNCHANGED <<server, socket, userId, client>>

ListenOther(s) ==
  /\ Line(s, "login") \/ Line(s, "other")
  /\ StartRead(s, "listen")
  /\ UNCHANGED <<server, socket, userId, pending, wire, client>>

\* parse_error is caught, after which nothing listens to the client.
ListenUnparsed(s) ==
  /\ Line(s, "garbage")
  /\ NoRead(s)
  /\ UNCHANGED <<server, socket, userId, pending, wire, client>>

\* type_error is not caught: it leaves the thread's function.
ListenMistyped(s) ==
  /\ Line(s, "mistyped")
  /\ running' = FALSE
  /\ UNCHANGED <<acceptStack, sessionList, idToSessionMap, session, client>>

-----------------------------------------------------------------------------
(* The completion handler of SendDataPacket. *)

\* Success, or an error other than eof and connection_reset: only logged.
WriteDone(s) ==
  /\ running /\ pending[s] > 0
  /\ pending' = [pending EXCEPT ![s] = @ - 1]
  /\ UNCHANGED <<server, socket, op, ec, streamBuff, userId, wire, client>>

WriteLost(s) ==
  /\ running /\ pending[s] > 0
  /\ ~peer[s]
  /\ pending' = [pending EXCEPT ![s] = @ - 1]
  /\ ClearMyself(s)
  /\ UNCHANGED <<running, acceptStack, idToSessionMap, op, ec, streamBuff, userId, wire, client>>

-----------------------------------------------------------------------------
(* The heartbeat timer; the body of CheckHeartbeat is commented out, so every *)
(* session survives it.                                                       *)

CheckHeartbeat == sessionList' = sessionList

Heartbeat ==
  /\ running
  /\ CheckHeartbeat
  /\ UNCHANGED <<running, acceptStack, idToSessionMap, session, client>>

-----------------------------------------------------------------------------
(* The client goes: it closes, or its host or the network fails. *)

ClientLeaves(s) ==
  /\ running
  /\ peer[s]
  /\ peer' = [peer EXCEPT ![s] = FALSE]
  /\ UNCHANGED <<server, session, torn, sent>>

-----------------------------------------------------------------------------

LoginHandler(s) ==
  \/ LoginLost(s)
  \/ LoginError(s)
  \/ LoginUnparsed(s)
  \/ LoginWrongType(s)
  \/ LoginRejected(s)
  \/ LoginBroken(s)
  \/ LoginAccepted(s)

ListenHandle(s) ==
  \/ ListenError(s)
  \/ ListenText(s)
  \/ ListenOther(s)
  \/ ListenUnparsed(s)
  \/ ListenMistyped(s)

ReadEvent(s) == ReadCompletes(s) \/ ReadFails(s)
WriteHandler(s) == WriteDone(s) \/ WriteLost(s)

Next ==
  \/ AcceptFails
  \/ Heartbeat
  \/ \E s \in Session :
       \/ Accept(s)
       \/ ReadEvent(s)
       \/ LoginHandler(s)
       \/ ListenHandle(s)
       \/ WriteHandler(s)
       \/ ClientLeaves(s)

Spec == Init /\ [][Next]_vars

\* The io_context runs every ready handler in turn, and the kernel reports what
\* it has; nobody obliges a client to do anything.
Fairness ==
  /\ WF_vars(Heartbeat)
  /\ \A s \in Session :
       /\ WF_vars(ReadFails(s))
       /\ WF_vars(LoginHandler(s))
       /\ WF_vars(ListenHandle(s))
       /\ WF_vars(WriteHandler(s))

FairSpec == Spec /\ Fairness

-----------------------------------------------------------------------------
(* Properties. *)

\* The variables keep their shape.
TypeOK ==
  /\ running \in BOOLEAN
  /\ acceptStack \in Seq(Session \cup {NoSession})
  /\ sessionList \subseteq Session
  /\ idToSessionMap \in [Id -> Session \cup {NoSession}]
  /\ socket \in [Session -> {"none", "open", "closed"}]
  /\ op \in [Session -> {"none", "login", "listen"}]
  /\ ec \in [Session -> {"pending", "ok", "lost", "other"}]
  /\ line \in [Session -> Request \cup {NoLine}]
  /\ more \in [Session -> BOOLEAN]
  /\ userId \in [Session -> Id]
  /\ pending \in [Session -> Nat]
  /\ wire \in [Session -> Seq(TextFrame \cup ReplyFrame)]
  /\ peer \in [Session -> BOOLEAN]
  /\ torn \in [Session -> BOOLEAN]
  /\ sent \in [Session -> 0..MaxFrames]

IsText(f) == f.type = "message_text"

\* A text is written only to a connection whose first frame was the login reply,
\* and only to the id that this reply announced: no text reaches a client that
\* has not logged in, or one it is not addressed to ("do not broadcast").
OnlyAddressee ==
  \A s \in Session : \A i \in 1..Len(wire[s]) :
    IF i = 1 THEN wire[s][i] \in ReplyFrame
             ELSE wire[s][i] \in TextFrame /\ wire[s][i].dest = wire[s][1].user

\* Texts of one sender reach a connection in the order they were sent, and no
\* text is written twice, neither to one connection nor to two (two logins of
\* the same user).
OrderedOnce ==
  \A s, t \in Session : \A i \in 2..Len(wire[s]), j \in 2..Len(wire[t]) :
    wire[s][i].from = wire[t][j].from =>
      IF s = t THEN i < j => wire[s][i].n < wire[t][j].n
               ELSE wire[s][i].n # wire[t][j].n

\* idToSessionMap leads to a session that was told this id at its login, and a
\* session knows an id only if it is or was the one registered for it.
DirectoryConsistent ==
  /\ \A u \in Id : idToSessionMap[u] # NoSession =>
       u # NoUser /\ userId[idToSessionMap[u]] = u
  /\ \A s \in Session :
       IF userId[s] = NoUser
       THEN wire[s] = <<>>
       ELSE /\ wire[s] # <<>> /\ wire[s][1] = Reply(userId[s])
            /\ idToSessionMap[userId[s]] # NoSession

\* The callback of a session refers to the local pTcpSess of the accept handler
\* that created it: when the login handler may still call it, that handler must
\* not have returned.
NoDanglingCallback ==
  \A s \in Session : op[s] = "login" => OnStack(s)

\* The completion of a write captures the raw this: while one is owed, something
\* must own the session, also after ClearMyself and after the last read.
NoDanglingThis ==
  \A s \in Session : pending[s] > 0 => Alive(s)

\* The phases of a session follow each other: nothing is known of a user and no
\* write is owed before the login is accepted, the login read has an open socket,
\* only a session with a user id listens; and the session behind every accepted
\* socket is held by the frame of an accept handler.
PhaseConsistent ==
  \A s \in Session :
    /\ socket[s] = "none" => op[s] = "none" /\ userId[s] = NoUser
    /\ op[s] = "login" => socket[s] = "open" /\ userId[s] = NoUser
    /\ op[s] = "listen" => userId[s] # NoUser
    /\ pending[s] > 0 => userId[s] # NoUser
    /\ socket[s] # "none" => OnStack(s)

\* A text that waits in a buffer is the last its sender sent: it is newer than all
\* that were forwarded.
NewestWaits ==
  \A s \in Session :
    /\ op[s] = "listen" /\ IsText(line[s]) =>
         line[s].from = s /\ line[s].n = sent[s]
    /\ \A t \in Session : \A i \in 2..Len(wire[t]) :
         wire[t][i].from = s =>
           IF op[s] = "listen" /\ IsText(line[s]) THEN wire[t][i].n < sent[s]
                                                  ELSE wire[t][i].n <= sent[s]

\* The handler of a text finds the connection registered for its destid whenever that
\* is open, however old the entry and whatever was cleaned up since, and writes the
\* text to it, behind what is there, and to no other.
ReadTextForwarded ==
  [][\A s, d \in Session :
       ( /\ Line(s, "message_text") /\ line'[s] # line[s]
         /\ idToSessionMap[line[s].dest] = d /\ socket[d] = "open" )
       => wire' = [wire EXCEPT ![d] = Append(@, line[s])]]_vars

\* An open socket is owned by a session in the list, and a session in the list
\* was accepted.
OpenIsListed ==
  \A s \in Session :
    /\ socket[s] = "open" => s \in sessionList
    /\ s \in sessionList => socket[s] # "none"

-----------------------------------------------------------------------------

\* A closed connection is not worked on for ever: its read is aborted and every
\* write completes.
ClosedDrains ==
  \A s \in Session :
    socket[s] = "closed" ~> (op[s] = "none" /\ pending[s] = 0) \/ ~running

\* A client that is gone is noticed: no read waits for it for ever.
GoneReadsEnd ==
  \A s \in Session :
    op[s] # "none" /\ ~peer[s] ~> op[s] = "none" \/ ~running

\* A text that has been read, for a user whose registered connection is open,
\* is written to it, unless that registration or connection ends first.
ReadTextDelivered ==
  \A s, d \in Session :
    ( /\ Line(s, "message_text")
      /\ idToSessionMap[line[s].dest] = d /\ socket[d] = "open" )
    ~> ( \/ \E i \in 2..Len(wire[d]) : wire[d][i].from = s /\ wire[d][i].n = sent[s]
         \/ idToSessionMap[userId[d]] # d
         \/ socket[d] = "closed"
         \/ ~running )

-----------------------------------------------------------------------------

\* Seen from the clients, the server is a relay: only a login and a forwarded
\* text show, whatever reads, closed sockets, clean-ups and late completions do.
R == INSTANCE Relay WITH directory <- idToSessionMap, delivered <- wire
ImplementsRelay == R!Spec

-----------------------------------------------------------------------------
(* What comments of the source say and the code does not do. *)

\* "No need to delete the session, the smart pointer takes care of it"
\* (TcpServer.cpp, RemoveSession): a session taken off the list, with nothing
\* under way, is released.
RemovedIsFreed ==
  \A s \in Session :
    socket[s] = "closed" /\ s \notin sessionList ~> ~Alive(s) \/ ~running

\* "If the socket is disconnected the session has no reason to exist"
\* (TcpSession.hpp, ClearMyself), and the heartbeat "checks the activity of the
\* connections" (TcpServer.hpp): a session whose client is gone leaves the list.
GoneIsRemoved ==
  \A s \in Session :
    s \in sessionList /\ ~peer[s] ~> s \notin sessionList \/ ~running

\* "Query the user_id that belongs to this username" (TcpSession.cpp,
\* ParseAuthentication): a session is registered under the id of the user whose
\* credentials were checked.
RegisteredAsChecked ==
  [][\A s \in Session : userId'[s] # userId[s] => line[s] = Login(userId'[s])]_vars

=============================================================================
