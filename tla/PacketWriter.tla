---------------------------- MODULE PacketWriter ----------------------------
(***************************************************************************)
(* How TcpSession::SendDataPacket writes to one connection.  async_write   *)
(* hands the kernel at most Chunk units at a time and goes on from the     *)
(* handler of each piece; nothing queues the packets of a connection, and  *)
(* the buffer is the local string of a call that has returned by then.     *)
(*                                                                         *)
(* A unit is a run of bytes that no write divides.  A packet is known by   *)
(* its index in packet.  This module says what one step does to the        *)
(* connection; the module that extends it says when a step may be taken.   *)
(***************************************************************************)
EXTENDS Naturals, Sequences, FiniteSets, SequencesExt

CONSTANTS
  Chunk,      \* units in one async_write_some: 65536 bytes
  Room,       \* units the kernel's send buffer holds
  Sizes       \* sizes of the packets, in units

ASSUME WriterAssumption ==
  /\ Chunk \in Nat \ {0}
  /\ Room \in Nat \ {0}
  /\ Sizes \subseteq Nat \ {0}

VARIABLES
  packet,    \* the packets given to SendDataPacket so far: their sizes
  left,      \* per packet: units not yet handed to the kernel
  waiting,   \* packets with a piece in the reactor's queue of the socket
  exhausted, \* the last write was cut short: the next one waits for the reactor
  ready,     \* the pieces whose handler is to run: [packet, ec]
  result,    \* per packet: the ec its own handler was called with, or "none"
  stream,    \* units handed to the kernel: [packet, unit, intact]
  taken,     \* how many of them the client has received
  socket,    \* "open" or "closed"
  listed,    \* the session is in sessionList_
  peer       \* the client is connected

kernel == <<waiting, exhausted, stream, left>>
connection == <<socket, listed>>
clientSide == <<taken, peer>>
writer == <<packet, kernel, ready, result, connection, clientSide>>

WriterInit ==
  /\ packet = <<>>
  /\ left = <<>>
  /\ waiting = <<>>
  /\ exhausted = FALSE
  /\ ready = <<>>
  /\ result = <<>>
  /\ stream = <<>>
  /\ taken = 0
  /\ socket = "open"
  /\ listed = TRUE
  /\ peer = TRUE

Packets == 1..Len(packet)
Piece == [packet : Packets, ec : {"ok", "lost", "other"}]
Unit == [packet : Packets, unit : Nat, intact : BOOLEAN]

-----------------------------------------------------------------------------
(* One async_write_some. *)

Least(a, b) == IF a < b THEN a ELSE b
Free == Room - (Len(stream) - taken)
Finished(p, e) == [packet |-> p, ec |-> e]

\* Mutant: a whole piece is counted as written, however little the kernel took.
TakeAsWhole(p, remaining, returned) ==
  LET k == Least(Least(remaining, Chunk), Free) IN
  /\ Free > 0
  /\ \E intact \in IF returned THEN BOOLEAN ELSE {TRUE} :
       stream' = stream \o [i \in 1..k |-> [packet |-> p, unit |-> i, intact |-> intact]]
  /\ left' = [q \in DOMAIN packet' |-> IF q = p THEN remaining - Chunk ELSE left[q]]
  /\ exhausted' = FALSE

\* The kernel takes what fits of the next piece of p, of which remaining units are
\* left.  Once SendDataPacket has returned, what its buffer holds is undefined.
Take(p, remaining, returned) ==
  LET piece == Least(remaining, Chunk)
      k == Least(piece, Free)
      before == packet'[p] - remaining
  IN  /\ Free > 0
      /\ \E intact \in IF returned THEN BOOLEAN ELSE {TRUE} :
           stream' = stream \o [i \in 1..k |->
                       [packet |-> p, unit |-> before + i, intact |-> intact]]
      /\ left' = [q \in DOMAIN packet' |-> IF q = p THEN remaining - k ELSE left[q]]
      /\ exhausted' = (k < piece)

KeepLeft(p, remaining) ==
  left' = [q \in DOMAIN packet' |-> IF q = p THEN remaining ELSE left[q]]

\* Mutant: a closed socket is not looked at.
StartPieceOnClosed(p, remaining, returned, handlers) ==
  \/ /\ waiting = <<>>
     /\ Take(p, remaining, returned)
     /\ ready' = Append(handlers, Finished(p, "ok"))
     /\ UNCHANGED waiting
  \/ /\ waiting # <<>> \/ Free = 0
     /\ waiting' = Append(waiting, p)
     /\ ready' = handlers
     /\ KeepLeft(p, remaining)
     /\ UNCHANGED <<exhausted, stream>>

\* The piece is tried at once, unless others wait or the socket is known to be full.
StartPiece(p, remaining, returned, handlers) ==
  LET atOnce == waiting = <<>> /\ ~exhausted IN
  \/ /\ socket = "closed"
     /\ ready' = Append(handlers, Finished(p, "other"))
     /\ KeepLeft(p, remaining)
     /\ UNCHANGED <<waiting, exhausted, stream>>
  \/ /\ socket = "open" /\ atOnce
     /\ Take(p, remaining, returned)
     /\ ready' = Append(handlers, Finished(p, "ok"))
     /\ UNCHANGED waiting
  \/ /\ socket = "open" /\ atOnce /\ ~peer
     /\ \E e \in {"lost", "other"} : ready' = Append(handlers, Finished(p, e))
     /\ KeepLeft(p, remaining)
     /\ UNCHANGED <<waiting, exhausted, stream>>
  \/ /\ socket = "open" /\ ~(atOnce /\ Free > 0)
     /\ waiting' = Append(waiting, p)
     /\ ready' = handlers
     /\ KeepLeft(p, remaining)
     /\ UNCHANGED <<exhausted, stream>>

\* Mutant: the write is posted, and starts after the call has returned.
SendDataPacketPosted(size) ==
  /\ packet' = Append(packet, size)
  /\ result' = Append(result, "none")
  /\ StartPiece(Len(packet) + 1, size, TRUE, ready)
  /\ UNCHANGED <<connection, clientSide>>

\* TcpSession::SendDataPacket: the buffer is alive while the first piece is tried.
SendDataPacket(size) ==
  /\ packet' = Append(packet, size)
  /\ result' = Append(result, "none")
  /\ StartPiece(Len(packet) + 1, size, FALSE, ready)
  /\ UNCHANGED <<connection, clientSide>>

-----------------------------------------------------------------------------
(* The reactor: the socket is writable, or broken. *)

\* Mutant: the newest of the waiting pieces is tried.
WritableNewest ==
  /\ waiting # <<>>
  /\ UNCHANGED packet
  /\ Take(Last(waiting), left[Last(waiting)], TRUE)
  /\ ready' = Append(ready, Finished(Last(waiting), "ok"))
  /\ waiting' = Front(waiting)
  /\ UNCHANGED <<result, connection, clientSide>>

Writable ==
  /\ waiting # <<>>
  /\ UNCHANGED <<packet, result, connection, clientSide>>
  /\ LET p == Head(waiting) IN
       \/ /\ Take(p, left[p], TRUE)
          /\ ready' = Append(ready, Finished(p, "ok"))
       \/ /\ ~peer
          /\ \E e \in {"lost", "other"} : ready' = Append(ready, Finished(p, e))
          /\ UNCHANGED <<exhausted, stream, left>>
  /\ waiting' = Tail(waiting)

-----------------------------------------------------------------------------
(* The handler of a piece. *)

PieceDone(e) == ready # <<>> /\ Head(ready).ec = e

\* Mutant: the next piece starts a unit too early.
PieceOkAgain ==
  LET p == Head(ready).packet IN
  /\ PieceDone("ok")
  /\ IF left[p] > 0
     THEN /\ UNCHANGED <<packet, result>>
          /\ StartPiece(p, left[p] + 1, TRUE, Tail(ready))
     ELSE /\ ready' = Tail(ready)
          /\ result' = [result EXCEPT ![p] = "ok"]
          /\ UNCHANGED <<packet, kernel>>
  /\ UNCHANGED <<connection, clientSide>>

\* Mutant: a piece that was cut short is not gone on with.
PieceOkStalls ==
  LET p == Head(ready).packet IN
  /\ PieceDone("ok")
  /\ ready' = Tail(ready)
  /\ result' = [result EXCEPT ![p] = IF left[p] > 0 THEN @ ELSE "ok"]
  /\ UNCHANGED <<packet, kernel, connection, clientSide>>

\* What is left is written next; the packet's own handler only logs success.
PieceOk ==
  LET p == Head(ready).packet IN
  /\ PieceDone("ok")
  /\ IF left[p] > 0
     THEN /\ UNCHANGED <<packet, result>>
          /\ StartPiece(p, left[p], TRUE, Tail(ready))
     ELSE /\ ready' = Tail(ready)
          /\ result' = [result EXCEPT ![p] = "ok"]
          /\ UNCHANGED <<packet, kernel>>
  /\ UNCHANGED <<connection, clientSide>>

\* An error other than eof and connection_reset: only logged.
PieceError ==
  /\ PieceDone("other")
  /\ ready' = Tail(ready)
  /\ result' = [result EXCEPT ![Head(ready).packet] = "other"]
  /\ UNCHANGED <<packet, kernel, connection, clientSide>>

\* Mutant: what waits in the reactor is dropped, and no handler told.
ClearMyselfDropping(handlers) ==
  /\ socket' = "closed"
  /\ listed' = FALSE
  /\ ready' = handlers
  /\ waiting' = <<>>

\* Mutant: the session leaves the list, and its socket stays open.
ClearMyselfListOnly(handlers) ==
  /\ listed' = FALSE
  /\ ready' = handlers
  /\ UNCHANGED <<socket, waiting>>

\* ClearMyself: the socket is closed, which aborts what waits in the reactor, and
\* the session leaves the list.
ClearMyself(handlers) ==
  /\ socket' = "closed"
  /\ listed' = FALSE
  /\ ready' = handlers \o [i \in 1..Len(waiting) |-> Finished(waiting[i], "other")]
  /\ waiting' = <<>>

PieceLost ==
  /\ PieceDone("lost")
  /\ result' = [result EXCEPT ![Head(ready).packet] = "lost"]
  /\ ClearMyself(Tail(ready))
  /\ UNCHANGED <<packet, left, exhausted, stream, clientSide>>

PieceHandler == PieceOk \/ PieceError \/ PieceLost

-----------------------------------------------------------------------------
(* The client. *)

ClientReceives ==
  /\ peer
  /\ taken < Len(stream)
  /\ taken' = taken + 1
  /\ UNCHANGED <<packet, kernel, ready, result, connection, peer>>

ClientLeaves ==
  /\ peer
  /\ peer' = FALSE
  /\ UNCHANGED <<packet, kernel, ready, result, connection, taken>>

-----------------------------------------------------------------------------
(* What is true of the writer whoever sends. *)

\* The variables keep their shape.
WriterTypeOK ==
  /\ packet \in Seq(Sizes)
  /\ left \in [Packets -> Nat]
  /\ waiting \in Seq(Packets)
  /\ exhausted \in BOOLEAN
  /\ ready \in Seq(Piece)
  /\ result \in [Packets -> {"none", "ok", "lost", "other"}]
  /\ stream \in Seq(Unit)
  /\ taken \in 0..Len(stream)
  /\ socket \in {"open", "closed"}
  /\ listed \in BOOLEAN
  /\ peer \in BOOLEAN

UnitsOf(p) == {i \in 1..Len(stream) : stream[i].packet = p}

\* However a packet is cut, and whatever runs between its pieces, its units are
\* handed over in order, none twice, none left out; all of them if its handler is
\* told of success.
UnitsInOrder ==
  \A p \in Packets :
    /\ {stream[i].unit : i \in UnitsOf(p)} = 1..(packet[p] - left[p])
    /\ \A i, j \in UnitsOf(p) : i < j => stream[i].unit < stream[j].unit
    /\ result[p] = "ok" => left[p] = 0

\* Where a packet may be: in the reactor's queue w or among the handlers r.
Placed(w, r) == {w[i] : i \in 1..Len(w)} \cup {r[i].packet : i \in 1..Len(r)}
Apart(w, r) ==
  /\ \A i, j \in 1..Len(w) : w[i] = w[j] => i = j
  /\ \A i, j \in 1..Len(r) : r[i].packet = r[j].packet => i = j
  /\ \A i \in 1..Len(w), j \in 1..Len(r) : w[i] # r[j].packet

\* Every unfinished packet is in exactly one place: in the reactor's queue or among
\* the handlers; a finished one is in neither.
OnePlace ==
  Apart(waiting, ready) /\ Placed(waiting, ready) = {p \in Packets : result[p] = "none"}

\* Packets begin in the order of the calls: no later one gets a unit out before
\* the first unit of an earlier one that gets any.
BeginInOrder ==
  \A i, j \in 1..Len(stream) :
    stream[i].unit = 1 /\ stream[j].packet > stream[i].packet => i < j

\* What has been handed over is whole packets, one after the other in the order of
\* the calls, with the bytes they were given.
StreamWhole ==
  \A i \in 1..Len(stream) :
    LET u == stream[i]
        begins == i = 1 \/ stream[i - 1].packet # u.packet
        ends == i = Len(stream) \/ stream[i + 1].packet # u.packet
    IN  /\ u.intact
        /\ begins => u.unit = 1 /\ (i > 1 => stream[i - 1].packet < u.packet)
        /\ ~begins => u.unit = stream[i - 1].unit + 1
        /\ ends => u.unit = packet[u.packet]

\* All units of all packets.
Given == UNION {{p} \X (1..packet[p]) : p \in Packets}

SmallPackets == (\A p \in Packets : packet[p] <= Chunk) /\ Cardinality(Given) <= Room

\* Packets of one piece each that find room together, as the protocol's messages
\* do, are written whole and at once, with the bytes they were given: at no moment
\* is one of them there in part.
SmallPacketsWhole == SmallPackets => StreamWhole

=============================================================================
