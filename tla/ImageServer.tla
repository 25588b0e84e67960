----------------------------- MODULE ImageServer -----------------------------
(***************************************************************************)
(* One connection of the image server: TcpSession::ImageListenHandle and   *)
(* the requests of ImageSession, on top of the writer that both servers    *)
(* use.  The io thread runs one handler at a time: while the handler of a  *)
(* request still has images to send, neither another handler nor the       *)
(* reactor runs, but the client receives and leaves.                       *)
(***************************************************************************)
EXTENDS PacketWriter

CONSTANTS
  EndSize,      \* size of the end marker
  MaxFriends,   \* bound: friends of one user
  MaxRequests   \* bound: reads of the connection

ASSUME ImageAssumption ==
  /\ EndSize \in Sizes
  /\ MaxFriends \in Nat
  /\ MaxRequests \in Nat

VARIABLES
  running,  \* the process has not terminated
  op,       \* the read under way: "none" or "listen"
  request,  \* the request that the running handler answers, or "none"
  friends,  \* the avatars it has still to send
  ends,     \* the packets that are end markers
  reads     \* number of reads

image == <<running, op, request, friends, ends, reads>>
vars == <<writer, image>>

\* f_avatar_url names a readable file, or none that can be read (or the query
\* fails), or the query's result throws: NULL, and no row in a download.
Avatar == [kind : {"file"}, size : Sizes] \cup [kind : {"unreadable", "throws"}]
FriendLists == UNION {[1..n -> Avatar] : n \in 0..MaxFriends}

\* The state after InitImageTcpSession: there is no login, the session listens.
Init ==
  /\ WriterInit
  /\ running = TRUE
  /\ op = "listen"
  /\ request = "none"
  /\ friends = <<>>
  /\ ends = {}
  /\ reads = 0

Idle == running /\ request = "none"

-----------------------------------------------------------------------------
(* ImageListenHandle.  The buffer is cleared before the next read, and is    *)
(* read to its end: of two requests in it one is answered.                   *)

ListenError ==
  /\ Idle /\ op = "listen"
  /\ ~peer \/ socket = "closed"
  /\ op' = "none"
  /\ UNCHANGED <<writer, running, request, friends, ends, reads>>

Received == Idle /\ op = "listen" /\ socket = "open" /\ reads < MaxRequests

\* GET /download: the avatar of the id, if there is one to send.
ListenDownload ==
  /\ Received
  /\ \E avatar \in Avatar : friends' \in {<<>>, <<avatar>>}
  /\ request' = "download"
  /\ op' = "none"
  /\ reads' = reads + 1
  /\ UNCHANGED <<writer, running, ends>>

\* GET /getAllImages without a number as its id: nothing, not even listening.
ListenAllUnparsed ==
  /\ Received
  /\ op' = "none"
  /\ reads' = reads + 1
  /\ UNCHANGED <<writer, running, request, friends, ends>>

\* GET /getAllImages: the friends' ids are read (none if the query fails).
ListenAll ==
  /\ Received
  /\ friends' \in FriendLists
  /\ request' = "all"
  /\ op' = "none"
  /\ reads' = reads + 1
  /\ UNCHANGED <<writer, running, ends>>

\* Any other request.
ListenOther ==
  /\ Received
  /\ op' = "none"
  /\ reads' = reads + 1
  /\ UNCHANGED <<writer, running, request, friends, ends>>

-----------------------------------------------------------------------------
(* The rest of the handler, image by image. *)

Answering == running /\ request # "none"

SendImage ==
  /\ Answering /\ friends # <<>>
  /\ Head(friends).kind = "file"
  /\ SendDataPacket(Head(friends).size)
  /\ friends' = Tail(friends)
  /\ UNCHANGED <<running, op, request, ends, reads>>

SkipImage ==
  /\ Answering /\ friends # <<>>
  /\ Head(friends).kind = "unreadable"
  /\ friends' = Tail(friends)
  /\ UNCHANGED <<writer, running, op, request, ends, reads>>

\* bad_field_access or out_of_range, caught nowhere: it leaves the thread's function.
AvatarThrows ==
  /\ Answering /\ friends # <<>>
  /\ Head(friends).kind = "throws"
  /\ running' = FALSE
  /\ UNCHANGED <<writer, op, request, friends, ends, reads>>

\* After a download the session listens again.
DownloadDone ==
  /\ Answering /\ request = "download" /\ friends = <<>>
  /\ request' = "none"
  /\ op' = "listen"
  /\ UNCHANGED <<writer, running, friends, ends, reads>>

\* Mutant: the session listens again.
SendEndListening ==
  /\ Answering /\ request = "all" /\ friends = <<>>
  /\ SendDataPacket(EndSize)
  /\ ends' = ends \cup {Len(packet) + 1}
  /\ request' = "none"
  /\ op' = "listen"
  /\ UNCHANGED <<running, friends, reads>>

\* After the images the end marker; the session does not listen again.
SendEndOfReply ==
  /\ Answering /\ request = "all" /\ friends = <<>>
  /\ SendDataPacket(EndSize)
  /\ ends' = ends \cup {Len(packet) + 1}
  /\ request' = "none"
  /\ UNCHANGED <<running, op, friends, reads>>

-----------------------------------------------------------------------------

Listen == ListenError \/ ListenDownload \/ ListenAllUnparsed \/ ListenAll \/ ListenOther
Answer == SendImage \/ SkipImage \/ AvatarThrows \/ DownloadDone \/ SendEndOfReply

Write == Idle /\ PieceHandler /\ UNCHANGED image
Reactor == Idle /\ Writable /\ UNCHANGED image
Client == running /\ (ClientReceives \/ ClientLeaves) /\ UNCHANGED image

Next ==
  \/ Listen
  \/ Answer
  \/ Write
  \/ Reactor
  \/ Client

Spec == Init /\ [][Next]_vars

\* The io thread runs the handlers that are ready and goes on with the one it
\* runs, the reactor reports the socket, and a client that stays reads what it is
\* sent.  Nobody has to request anything.
Fairness ==
  /\ WF_vars(Answer)
  /\ WF_vars(Write)
  /\ WF_vars(Reactor)
  /\ WF_vars(running /\ ClientReceives /\ UNCHANGED image)

FairSpec == Spec /\ Fairness

-----------------------------------------------------------------------------
(* Properties. *)

\* The variables keep their shape.
TypeOK ==
  /\ WriterTypeOK
  /\ running \in BOOLEAN
  /\ op \in {"none", "listen"}
  /\ request \in {"none", "download", "all"}
  /\ friends \in Seq(Avatar)
  /\ ends \subseteq Packets
  /\ reads \in 0..MaxRequests

\* After getAllImages, whatever becomes of it, the connection is never read from
\* again, so it has at most one end marker, and it is the last packet.
EndIsLastCall ==
  /\ op = "listen" => ends = {} /\ request = "none"
  /\ \A p \in ends : p = Len(packet)

\* A closed socket takes no more.
NothingAfterClose == [][socket = "closed" => stream' = stream]_vars

\* The handler of every packet runs in the end, of whatever size it is and however
\* many overlap: a client that stays receives, one that leaves breaks the socket.
Unfinished == {p \in Packets : result[p] = "none"}
WritesEnd == Unfinished # {} ~> Unfinished = {} \/ ~running

\* Pieces, the reactor's queue and the handlers in line do not show: what becomes of
\* the packets is what Wire says.
Out == [p \in Packets |-> packet[p] - left[p]]
OnWire == [i \in 1..Len(stream) |-> [packet |-> stream[i].packet, unit |-> stream[i].unit]]

W == INSTANCE Wire WITH out <- Out, wire <- OnWire, outcome <- result,
                        open <- socket = "open", received <- taken
ImplementsWire == W!Spec

\* "Friend-Id: -2 is the end mark" (ImageSession.cpp, SendEndOfReply), "the end
\* signal to the client after the main logic" (ImageSession.hpp): nothing of an
\* image is written behind it.
EndMarkerLast ==
  \A p \in ends : \A i, j \in 1..Len(stream) :
    stream[i].packet = p /\ stream[j].packet # p => j < i
=============================================================================
