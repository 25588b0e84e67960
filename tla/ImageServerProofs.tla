-------------------------- MODULE ImageServerProofs --------------------------
(* Proofs about a connection of the image server and its writer, for every     *)
(* size of the packets, of a piece and of the send buffer.                     *)
EXTENDS ImageServer, TLAPS

-----------------------------------------------------------------------------
(* The writer. *)

\* What is left of a packet is never more than the packet.
LeftFits == \A p \in Packets : left[p] <= packet[p]

WriterInv == WriterTypeOK /\ LeftFits

\* The kernel takes a part of what remains of p and appends its units.
LEMMA TakePart ==
  ASSUME WriterInv, packet' \in Seq(Sizes), Len(packet) <= Len(packet'),
         NEW p \in 1..Len(packet'), NEW remaining \in Nat,
         remaining <= packet'[p], NEW returned \in BOOLEAN,
         \A q \in 1..Len(packet') : q # p => q \in Packets,
         Take(p, remaining, returned)
  PROVE  /\ stream' \in Seq([packet : 1..Len(packet'), unit : Nat, intact : BOOLEAN])
         /\ taken <= Len(stream')
         /\ left' \in [1..Len(packet') -> Nat]
         /\ left'[p] <= packet'[p]
         /\ \A q \in 1..Len(packet') : q # p => left'[q] = left[q]
         /\ exhausted' \in BOOLEAN
<1> DEFINE piece == Least(remaining, Chunk)
           k == Least(piece, Free)
           before == packet'[p] - remaining
           NewUnit == [packet : 1..Len(packet'), unit : Nat, intact : BOOLEAN]
<1>1. Free \in Int /\ Free > 0
  BY WriterAssumption DEF Take, Free, WriterInv, WriterTypeOK
<1>2. piece \in Nat /\ piece <= remaining
  BY WriterAssumption DEF Least
<1> HIDE DEF piece
<1>3. k \in Nat /\ k <= piece
  BY <1>1, <1>2 DEF Least
<1>0. packet'[p] \in Nat
  <2>1. packet'[p] \in Sizes
    OBVIOUS
  <2> QED BY <2>1, WriterAssumption
<1>4. before \in Nat
  BY <1>0
<1>5. PICK intact \in BOOLEAN :
        stream' = stream \o [i \in 1..k |-> [packet |-> p, unit |-> before + i, intact |-> intact]]
  <2>1. PICK intact \in IF returned THEN BOOLEAN ELSE {TRUE} :
          stream' = stream \o [i \in 1..k |->
                      [packet |-> p, unit |-> before + i, intact |-> intact]]
    BY Zenon DEF Take, k, piece, before
  <2>2. intact \in BOOLEAN
    BY Zenon
  <2> QED BY <2>1, <2>2, Zenon
<1>6. left' = [q \in 1..Len(packet') |-> IF q = p THEN remaining - k ELSE left[q]]
  BY DEF Take, piece
<1>7. exhausted' = (k < piece)
  BY DEF Take, piece
<1> HIDE DEF k, piece, before, NewUnit
<1>8. stream \in Seq(NewUnit)
  <2>1. Unit \subseteq NewUnit
    BY DEF Unit, Packets, NewUnit, WriterInv, WriterTypeOK
  <2> QED BY <2>1 DEF WriterInv, WriterTypeOK
<1>9. [i \in 1..k |-> [packet |-> p, unit |-> before + i, intact |-> intact]] \in Seq(NewUnit)
  <2>1. \A i \in 1..k : [packet |-> p, unit |-> before + i, intact |-> intact] \in NewUnit
    BY <1>3, <1>4 DEF NewUnit
  <2> QED BY <1>3, <2>1
<1>10. stream' \in Seq(NewUnit) /\ Len(stream') = Len(stream) + k
  BY <1>3, <1>5, <1>8, <1>9
<1>11. taken <= Len(stream')
  BY <1>3, <1>8, <1>10 DEF WriterInv, WriterTypeOK
<1>12. remaining - k \in Nat /\ remaining - k <= packet'[p]
  BY <1>0, <1>2, <1>3
<1>13. \A q \in 1..Len(packet') : q # p => left[q] \in Nat
  BY DEF WriterInv, WriterTypeOK
<1>14. exhausted' \in BOOLEAN
  BY <1>7
<1> QED BY <1>6, <1>10, <1>11, <1>12, <1>13, <1>14 DEF NewUnit

\* Starting a piece keeps the shape of the writer, for the packet just given to it
\* or for one it knows.
LEMMA StartPieceKeeps ==
  ASSUME WriterInv, packet' \in Seq(Sizes), Len(packet) <= Len(packet'),
         NEW p \in 1..Len(packet'), NEW remaining \in Nat,
         remaining <= packet'[p], NEW returned \in BOOLEAN,
         \A q \in 1..Len(packet') : q # p => q \in Packets /\ packet'[q] = packet[q],
         result' \in [1..Len(packet') -> {"none", "ok", "lost", "other"}],
         NEW handlers \in Seq(Piece'),
         StartPiece(p, remaining, returned, handlers),
         UNCHANGED <<connection, clientSide>>
  PROVE  WriterInv'
<1> DEFINE NewUnit == [packet : 1..Len(packet'), unit : Nat, intact : BOOLEAN]
<1>1. packet'[p] \in Nat
  <2>1. packet'[p] \in Sizes
    OBVIOUS
  <2> QED BY <2>1, WriterAssumption
<1>2. Packets' = 1..Len(packet') /\ Unit' = NewUnit
  BY DEF Packets, Unit
<1>3. Packets \subseteq Packets'
  BY <1>2 DEF Packets, WriterInv, WriterTypeOK
<1>4. p \in Packets'
  BY <1>2
<1>5. waiting \in Seq(Packets')
  BY <1>3 DEF WriterInv, WriterTypeOK
<1>6. stream \in Seq(Unit')
  <2>1. Unit \subseteq Unit'
    BY <1>3 DEF Unit
  <2> QED BY <2>1 DEF WriterInv, WriterTypeOK
<1>7. \A e \in {"ok", "lost", "other"} : Append(handlers, Finished(p, e)) \in Seq(Piece')
  <2>1. \A e \in {"ok", "lost", "other"} : Finished(p, e) \in Piece'
    BY <1>4 DEF Finished, Piece
  <2> QED BY <2>1
<1>8. ready' \in Seq(Piece')
  BY <1>7 DEF StartPiece
<1>9. waiting' \in Seq(Packets')
  <2>1. waiting' = waiting \/ waiting' = Append(waiting, p)
    BY Zenon DEF StartPiece
  <2>2. Append(waiting, p) \in Seq(Packets')
    BY <1>4, <1>5
  <2> QED BY <1>5, <2>1, <2>2, Zenon
<1>10. \/ Take(p, remaining, returned)
       \/ KeepLeft(p, remaining) /\ UNCHANGED <<exhausted, stream>>
  BY DEF StartPiece
<1>11. /\ stream' \in Seq(Unit')
       /\ taken <= Len(stream')
       /\ left' \in [Packets' -> Nat]
       /\ left'[p] <= packet'[p]
       /\ \A q \in Packets' : q # p => left'[q] = left[q]
       /\ exhausted' \in BOOLEAN
  <2>1. CASE Take(p, remaining, returned)
    BY <1>2, <2>1, TakePart
  <2>2. CASE KeepLeft(p, remaining) /\ UNCHANGED <<exhausted, stream>>
    <3>1. left' = [q \in Packets' |-> IF q = p THEN remaining ELSE left[q]]
      BY <1>2, <2>2 DEF KeepLeft
    <3>2. \A q \in Packets' : q # p => left[q] \in Nat
      BY <1>2 DEF WriterInv, WriterTypeOK
    <3> QED BY <1>4, <1>6, <2>2, <3>1, <3>2 DEF WriterInv, WriterTypeOK
  <2> QED BY <1>10, <2>1, <2>2
<1>12. LeftFits'
  <2> SUFFICES ASSUME NEW q \in Packets' PROVE left'[q] <= packet'[q]
    BY DEF LeftFits
  <2>1. CASE q = p
    BY <1>11, <2>1
  <2>2. CASE q # p
    BY <1>2, <1>11, <2>2 DEF WriterInv, LeftFits
  <2> QED BY <2>1, <2>2
<1>13. taken' \in 0..Len(stream')
  BY <1>11 DEF clientSide, WriterInv, WriterTypeOK
<1>14. socket' \in {"open", "closed"} /\ listed' \in BOOLEAN /\ peer' \in BOOLEAN
  BY DEF clientSide, connection, WriterInv, WriterTypeOK
<1>15. result' \in [Packets' -> {"none", "ok", "lost", "other"}]
  BY <1>2
<1> QED BY <1>8, <1>9, <1>11, <1>12, <1>13, <1>14, <1>15 DEF WriterInv, WriterTypeOK

\* A call of SendDataPacket keeps the shape of the writer.
LEMMA SendDataPacketKeeps ==
  ASSUME WriterInv, NEW size \in Sizes, SendDataPacket(size)
  PROVE  WriterInv'
<1> DEFINE p == Len(packet) + 1
<1>1. packet \in Seq(Sizes) /\ size \in Nat \ {0}
  BY WriterAssumption DEF WriterInv, WriterTypeOK
<1>2. /\ packet' \in Seq(Sizes) /\ Len(packet') = p /\ packet'[p] = size
      /\ \A q \in 1..Len(packet) : packet'[q] = packet[q]
  BY <1>1 DEF SendDataPacket
<1>3. result' \in [1..Len(packet') -> {"none", "ok", "lost", "other"}]
  <2> DEFINE Ec == {"none", "ok", "lost", "other"}
  <2>1. result \in [1..Len(packet) -> Ec] /\ Len(packet) \in Nat
    BY <1>1 DEF WriterInv, WriterTypeOK, Packets
  <2>2. result \in Seq(Ec) /\ Len(result) = Len(packet)
    BY <2>1
  <2>3. result' = Append(result, "none") /\ "none" \in Ec
    BY DEF SendDataPacket
  <2> HIDE DEF Ec
  <2>4. result' \in Seq(Ec) /\ Len(result') = p
    BY <2>2, <2>3
  <2>5. result' \in [1..p -> Ec]
    BY <2>4
  <2> QED BY <1>2, <2>5 DEF Ec
<1>4. ready \in Seq(Piece')
  <2>1. Piece \subseteq Piece'
    BY <1>1, <1>2 DEF Piece, Packets
  <2> QED BY <2>1 DEF WriterInv, WriterTypeOK
<1>5. p \in 1..Len(packet') /\ Len(packet) <= Len(packet')
  BY <1>1, <1>2
<1>6. \A q \in 1..Len(packet') : q # p => q \in Packets /\ packet'[q] = packet[q]
  BY <1>1, <1>2 DEF Packets
<1>7. StartPiece(p, size, FALSE, ready) /\ UNCHANGED <<connection, clientSide>>
  BY DEF SendDataPacket
<1> HIDE DEF p
<1>8. size <= packet'[p]
  BY <1>1, <1>2
<1> QED BY <1>1, <1>2, <1>3, <1>4, <1>5, <1>6, <1>7, <1>8, StartPieceKeeps

\* So do the reactor, the handler of a piece and the client.
LEMMA WriterStepKeeps ==
  ASSUME WriterInv, Writable \/ PieceHandler \/ ClientReceives \/ ClientLeaves
  PROVE  WriterInv'
<1> DEFINE Ec == {"none", "ok", "lost", "other"}
<1>1. /\ packet \in Seq(Sizes) /\ Len(packet) \in Nat /\ Packets = 1..Len(packet)
      /\ waiting \in Seq(Packets) /\ ready \in Seq(Piece)
      /\ \A q \in Packets : packet[q] \in Nat /\ left[q] \in Nat /\ left[q] <= packet[q]
  <2>1. packet \in Seq(Sizes) /\ \A q \in 1..Len(packet) : packet[q] \in Sizes
    BY DEF WriterInv, WriterTypeOK
  <2>2. \A q \in 1..Len(packet) : packet[q] \in Nat
    BY <2>1, WriterAssumption
  <2>3. left \in [Packets -> Nat] /\ waiting \in Seq(Packets) /\ ready \in Seq(Piece)
    BY DEF WriterInv, WriterTypeOK
  <2>4. \A q \in Packets : left[q] <= packet[q]
    BY DEF WriterInv, LeftFits
  <2>5. Packets = 1..Len(packet) /\ Len(packet) \in Nat
    BY <2>1 DEF Packets
  <2> QED BY <2>1, <2>2, <2>3, <2>4, <2>5
<1>2. ASSUME UNCHANGED packet PROVE Packets' = Packets /\ Piece' = Piece /\ Unit' = Unit
  BY <1>2 DEF Packets, Piece, Unit
<1>3. ASSUME ready # <<>>
      PROVE  /\ Head(ready).packet \in Packets
             /\ Tail(ready) \in Seq(Piece)
             /\ \A e \in Ec : [result EXCEPT ![Head(ready).packet] = e] \in [Packets -> Ec]
  <2>1. Head(ready) \in Piece /\ Tail(ready) \in Seq(Piece)
    BY <1>1, <1>3
  <2>2. result \in [Packets -> Ec]
    BY DEF WriterInv, WriterTypeOK
  <2> QED BY <2>1, <2>2 DEF Piece
<1>4. CASE Writable
  <2> DEFINE p == Head(waiting)
  <2>1. p \in Packets /\ Tail(waiting) \in Seq(Packets)
    BY <1>1, <1>4 DEF Writable
  <2>2. UNCHANGED <<packet, result, connection, clientSide>> /\ waiting' = Tail(waiting)
    BY <1>4 DEF Writable
  <2>3. Packets' = Packets /\ Piece' = Piece /\ Unit' = Unit
    BY <1>2, <2>2
  <2>4. \E e \in {"ok", "lost", "other"} : ready' = Append(ready, Finished(p, e))
    BY <1>4, Zenon DEF Writable
  <2>5. ready' \in Seq(Piece)
    <3>1. \A e \in {"ok", "lost", "other"} : Finished(p, e) \in Piece
      BY <2>1 DEF Finished, Piece
    <3> QED BY <1>1, <2>4, <3>1
  <2>6. /\ stream' \in Seq(Unit) /\ taken' \in 0..Len(stream')
        /\ left' \in [Packets -> Nat] /\ LeftFits' /\ exhausted' \in BOOLEAN
    <3>1. CASE Take(p, left[p], TRUE)
      <4>1. /\ stream' \in Seq([packet : 1..Len(packet'), unit : Nat, intact : BOOLEAN])
            /\ taken <= Len(stream')
            /\ left' \in [1..Len(packet') -> Nat] /\ left'[p] <= packet'[p]
            /\ \A q \in 1..Len(packet') : q # p => left'[q] = left[q]
            /\ exhausted' \in BOOLEAN
        <5>1. packet' \in Seq(Sizes) /\ Len(packet) <= Len(packet') /\ p \in 1..Len(packet')
              /\ left[p] \in Nat /\ left[p] <= packet'[p]
          BY <1>1, <2>1, <2>2
        <5>2. \A q \in 1..Len(packet') : q # p => q \in Packets
          BY <1>1, <2>2
        <5>3. TRUE \in BOOLEAN
          OBVIOUS
        <5> HIDE DEF p
        <5> QED BY <3>1, <5>1, <5>2, <5>3, TakePart
      <4>2. stream' \in Seq(Unit) /\ taken' \in 0..Len(stream')
        BY <1>1, <2>2, <4>1 DEF Unit, clientSide, WriterInv, WriterTypeOK
      <4>3. LeftFits'
        BY <1>1, <2>2, <2>3, <4>1 DEF LeftFits
      <4> QED BY <1>1, <2>2, <4>1, <4>2, <4>3
    <3>2. CASE UNCHANGED <<exhausted, stream, left>>
      BY <1>1, <2>2, <2>3, <3>2 DEF WriterInv, WriterTypeOK, LeftFits, clientSide
    <3> QED BY <1>4, <3>1, <3>2 DEF Writable
  <2> QED BY <2>1, <2>2, <2>3, <2>5, <2>6 DEF WriterInv, WriterTypeOK, connection, clientSide
<1>5. CASE PieceOk
  <2> DEFINE p == Head(ready).packet
  <2>1. ready # <<>> /\ UNCHANGED <<packet, connection, clientSide>>
    BY <1>5, Zenon DEF PieceOk, PieceDone
  <2>2. p \in Packets /\ Tail(ready) \in Seq(Piece)
        /\ Packets' = Packets /\ Piece' = Piece /\ Unit' = Unit
    BY <1>2, <1>3, <2>1
  <2>3. CASE left[p] > 0 /\ UNCHANGED result /\ StartPiece(p, left[p], TRUE, Tail(ready))
    <3>1. result' \in [1..Len(packet') -> Ec]
      BY <1>1, <2>1, <2>3 DEF WriterInv, WriterTypeOK
    <3>2. packet' \in Seq(Sizes) /\ Len(packet) <= Len(packet') /\ p \in 1..Len(packet')
          /\ left[p] \in Nat /\ left[p] <= packet'[p]
      BY <1>1, <2>1, <2>2
    <3>3. \A q \in 1..Len(packet') : q # p => q \in Packets /\ packet'[q] = packet[q]
      BY <1>1, <2>1
    <3>4. Tail(ready) \in Seq(Piece')
      BY <2>2
    <3>5. TRUE \in BOOLEAN /\ UNCHANGED <<connection, clientSide>>
      BY <2>1
    <3> HIDE DEF p
    <3> QED BY <2>3, <3>1, <3>2, <3>3, <3>4, <3>5, StartPieceKeeps
  <2>4. CASE /\ ready' = Tail(ready) /\ result' = [result EXCEPT ![p] = "ok"]
             /\ UNCHANGED <<packet, kernel>>
    BY <1>1, <1>3, <2>1, <2>2, <2>4
    DEF WriterInv, WriterTypeOK, LeftFits, kernel, connection, clientSide
  <2> QED BY <1>5, <2>3, <2>4, Zenon DEF PieceOk
<1>6. CASE PieceError
  <2>1. ready # <<>> /\ UNCHANGED <<packet, kernel, connection, clientSide>>
    BY <1>6, Zenon DEF PieceError, PieceDone
  <2>2. ready' = Tail(ready) /\ result' = [result EXCEPT ![Head(ready).packet] = "other"]
    BY <1>6, Zenon DEF PieceError
  <2> QED BY <1>1, <1>2, <1>3, <2>1, <2>2
          DEF WriterInv, WriterTypeOK, LeftFits, kernel, connection, clientSide
<1>7. CASE PieceLost
  <2> DEFINE aborted == [i \in 1..Len(waiting) |-> Finished(waiting[i], "other")]
  <2>1. ready # <<>> /\ UNCHANGED <<packet, left, exhausted, stream, clientSide>>
    BY <1>7, Zenon DEF PieceLost, PieceDone
  <2>2. /\ socket' = "closed" /\ listed' = FALSE /\ waiting' = <<>>
        /\ ready' = Tail(ready) \o aborted
        /\ result' = [result EXCEPT ![Head(ready).packet] = "lost"]
    BY <1>7, Zenon DEF PieceLost, ClearMyself
  <2>3. aborted \in Seq(Piece)
    <3>1. \A i \in 1..Len(waiting) : Finished(waiting[i], "other") \in Piece
      BY <1>1 DEF Finished, Piece
    <3> QED BY <1>1, <3>1
  <2> HIDE DEF aborted
  <2>4. ready' \in Seq(Piece)
    BY <1>3, <2>1, <2>2, <2>3
  <2>5. waiting' \in Seq(Packets)
    BY <2>2
  <2> QED BY <1>1, <1>2, <1>3, <2>1, <2>2, <2>4, <2>5
          DEF WriterInv, WriterTypeOK, LeftFits, clientSide
<1>8. CASE ClientReceives \/ ClientLeaves
  <2>1. UNCHANGED <<packet, kernel, ready, result, connection>>
    BY <1>8, Zenon DEF ClientReceives, ClientLeaves
  <2>2. taken' \in 0..Len(stream)
    <3>1. taken \in 0..Len(stream) /\ stream \in Seq(Unit)
      BY Zenon DEF WriterInv, WriterTypeOK
    <3>2. taken' = taken \/ (taken < Len(stream) /\ taken' = taken + 1)
      <4>1. CASE ClientReceives
        BY <4>1 DEF ClientReceives
      <4>2. CASE ClientLeaves
        BY <4>2 DEF ClientLeaves
      <4> QED BY <1>8, <4>1, <4>2
    <3>3. Len(stream) \in Nat
      BY <3>1
    <3> QED BY <3>1, <3>2, <3>3
  <2>3. peer' \in BOOLEAN
    BY <1>8, Zenon DEF ClientReceives, ClientLeaves, WriterInv, WriterTypeOK
  <2> QED BY <1>1, <1>2, <2>1, <2>2, <2>3
          DEF WriterInv, WriterTypeOK, LeftFits, kernel, connection
<1> QED BY <1>4, <1>5, <1>6, <1>7, <1>8 DEF PieceHandler

-----------------------------------------------------------------------------
(* The connection. *)

\* Nothing waits for a closed socket: ClearMyself aborts what does.
NothingWaits == socket = "closed" => waiting = <<>>

\* While a request is answered nothing is read and there is no end marker yet; a
\* session that listens has none either.
EndNotYet ==
  /\ request # "none" => op = "none" /\ ends = {}
  /\ op = "listen" => ends = {}

ImageInv == TypeOK /\ LeftFits /\ NothingWaits /\ EndNotYet /\ EndIsLastCall

LEMMA ImageInit == Init => ImageInv
<1> SUFFICES ASSUME Init PROVE ImageInv
  OBVIOUS
<1>1. WriterInit
  BY DEF Init
<1>2. Packets = {}
  BY <1>1 DEF WriterInit, Packets
<1>3. WriterTypeOK
  <2>1. packet \in Seq(Sizes) /\ waiting \in Seq(Packets) /\ ready \in Seq(Piece) /\ stream \in Seq(Unit)
    BY <1>1 DEF WriterInit
  <2>2. left \in [Packets -> Nat] /\ result \in [Packets -> {"none", "ok", "lost", "other"}]
    <3>1. \A S : <<>> \in [1..0 -> S]
      OBVIOUS
    <3>2. Packets = 1..0
      BY <1>1 DEF WriterInit, Packets
    <3> QED BY <1>1, <3>1, <3>2, Zenon DEF WriterInit
  <2>3. taken \in 0..Len(stream)
    BY <1>1 DEF WriterInit
  <2> QED BY <1>1, <2>1, <2>2, <2>3, Zenon DEF WriterInit, WriterTypeOK
<1>4. TypeOK
  <2>1. reads \in 0..MaxRequests
    BY ImageAssumption DEF Init
  <2>2. friends \in Seq(Avatar) /\ ends \subseteq Packets
    BY DEF Init
  <2> QED BY <1>3, <2>1, <2>2, Zenon DEF Init, TypeOK
<1>5. LeftFits
  BY <1>2 DEF LeftFits
<1>6. NothingWaits /\ EndNotYet /\ EndIsLastCall
  BY <1>1 DEF Init, WriterInit, NothingWaits, EndNotYet, EndIsLastCall
<1> QED BY <1>4, <1>5, <1>6 DEF ImageInv

\* A packet that is sent while the socket is closed does not wait.
LEMMA StartedDoesNotWait ==
  ASSUME NothingWaits, NEW p, NEW remaining, NEW returned, NEW handlers,
         StartPiece(p, remaining, returned, handlers), UNCHANGED socket
  PROVE  NothingWaits' /\ (socket = "closed" => stream' = stream)
  BY DEF StartPiece, NothingWaits

\* Steps that start, end or refuse a request, and send nothing.
LEMMA ListenKeeps ==
  ASSUME ImageInv, Listen \/ SkipImage \/ AvatarThrows \/ DownloadDone
  PROVE  ImageInv' /\ UNCHANGED writer
<1>1. UNCHANGED writer
  BY Zenon DEF Listen, ListenError, ListenDownload, ListenAllUnparsed, ListenAll, ListenOther,
               SkipImage, AvatarThrows, DownloadDone
<1>2. UNCHANGED <<packet, left, waiting, exhausted, ready, result, stream, taken, socket, listed, peer>>
  BY <1>1 DEF writer, kernel, connection, clientSide
<1>3. WriterTypeOK' /\ LeftFits' /\ NothingWaits' /\ Packets' = Packets
  BY <1>2 DEF ImageInv, TypeOK, WriterTypeOK, LeftFits, NothingWaits, Packets, Piece, Unit
<1>4. /\ running' \in BOOLEAN /\ op' \in {"none", "listen"}
      /\ request' \in {"none", "download", "all"} /\ UNCHANGED ends
  BY Zenon DEF ImageInv, TypeOK, Listen, ListenError, ListenDownload, ListenAllUnparsed, ListenAll,
               ListenOther, SkipImage, AvatarThrows, DownloadDone
<1>5. reads' \in 0..MaxRequests
  <2>1. reads \in 0..MaxRequests
    BY DEF ImageInv, TypeOK
  <2>2. reads' = reads \/ (reads < MaxRequests /\ reads' = reads + 1)
    BY DEF Listen, ListenError, ListenDownload, ListenAllUnparsed, ListenAll, ListenOther,
           Received, SkipImage, AvatarThrows, DownloadDone
  <2> QED BY <2>1, <2>2, ImageAssumption
<1>6. friends' \in Seq(Avatar)
  <2>1. friends \in Seq(Avatar)
    BY DEF ImageInv, TypeOK
  <2>2. CASE ListenDownload
    <3>1. PICK avatar \in Avatar : friends' = <<>> \/ friends' = <<avatar>>
      BY <2>2 DEF ListenDownload
    <3>2. <<avatar>> \in Seq(Avatar) /\ <<>> \in Seq(Avatar)
      OBVIOUS
    <3> QED BY <3>1, <3>2, Zenon
  <2>3. CASE ListenAll
    <3>1. PICK n \in 0..MaxFriends : friends' \in [1..n -> Avatar]
      BY <2>3 DEF ListenAll, FriendLists
    <3>2. n \in Nat
      BY ImageAssumption
    <3> QED BY <3>1, <3>2
  <2>4. CASE SkipImage
    BY <2>1, <2>4 DEF SkipImage
  <2>5. CASE ListenError \/ ListenAllUnparsed \/ ListenOther \/ AvatarThrows \/ DownloadDone
    BY <2>1, <2>5 DEF ListenError, ListenAllUnparsed, ListenOther, AvatarThrows, DownloadDone
  <2> QED BY <2>2, <2>3, <2>4, <2>5 DEF Listen
<1>7. TypeOK'
  BY <1>3, <1>4, <1>5, <1>6 DEF ImageInv, TypeOK
<1>8. EndNotYet' /\ EndIsLastCall'
  BY <1>2, <1>4 DEF ImageInv, TypeOK, EndNotYet, EndIsLastCall, Listen, ListenError, ListenDownload,
         ListenAllUnparsed, ListenAll, ListenOther, Received, Idle, Answering,
         SkipImage, AvatarThrows, DownloadDone
<1> QED BY <1>1, <1>3, <1>7, <1>8 DEF ImageInv

\* The end marker is the packet after the last image.
LEMMA SendKeeps ==
  ASSUME ImageInv, SendImage \/ SendEndOfReply
  PROVE  ImageInv' /\ (socket = "closed" => stream' = stream)
<1>1. PICK size \in Sizes : SendDataPacket(size)
  <2>1. CASE SendImage
    <3>1. Head(friends) \in Avatar
      BY <2>1 DEF ImageInv, TypeOK, SendImage
    <3>2. Head(friends).size \in Sizes
      BY <2>1, <3>1 DEF SendImage, Avatar
    <3> QED BY <2>1, <3>2 DEF SendImage
  <2>2. CASE SendEndOfReply
    BY <2>2, ImageAssumption DEF SendEndOfReply
  <2> QED BY <2>1, <2>2
<1>2. WriterInv
  BY DEF ImageInv, TypeOK, WriterInv
<1>3. WriterTypeOK' /\ LeftFits'
  BY <1>1, <1>2, SendDataPacketKeeps DEF WriterInv
<1>4. NothingWaits' /\ (socket = "closed" => stream' = stream)
  <2>1. StartPiece(Len(packet) + 1, size, FALSE, ready) /\ UNCHANGED socket
    BY <1>1 DEF SendDataPacket, connection
  <2> QED BY <2>1, StartedDoesNotWait DEF ImageInv
<1>5. /\ Len(packet) \in Nat /\ Packets = 1..Len(packet)
      /\ Packets' = 1..Len(packet') /\ Len(packet') = Len(packet) + 1
  <2>1. packet \in Seq(Sizes) /\ packet' = Append(packet, size)
    BY <1>1, <1>2 DEF WriterInv, WriterTypeOK, SendDataPacket
  <2> QED BY <2>1 DEF Packets
<1>6. running' \in BOOLEAN /\ reads' \in 0..MaxRequests /\ op' \in {"none", "listen"}
  BY DEF ImageInv, TypeOK, SendImage, SendEndOfReply
<1>7. request # "none" /\ op = "none" /\ ends = {} /\ op' = "none"
  BY DEF ImageInv, EndNotYet, SendImage, SendEndOfReply, Answering
<1>8. CASE SendImage
  <2>1. friends' \in Seq(Avatar) /\ UNCHANGED <<request, ends>>
    BY <1>8 DEF ImageInv, TypeOK, SendImage
  <2>2. TypeOK'
    BY <1>3, <1>6, <1>7, <2>1 DEF ImageInv, TypeOK
  <2>3. EndNotYet' /\ EndIsLastCall'
    BY <1>7, <2>1 DEF EndNotYet, EndIsLastCall
  <2> QED BY <1>3, <1>4, <2>2, <2>3 DEF ImageInv
<1>9. CASE SendEndOfReply
  <2>1. /\ ends' = {Len(packet')} /\ Len(packet') \in Packets'
        /\ request' = "none" /\ UNCHANGED friends
    BY <1>5, <1>7, <1>9 DEF SendEndOfReply
  <2>2. TypeOK'
    BY <1>3, <1>6, <1>7, <2>1 DEF ImageInv, TypeOK
  <2>3. EndNotYet' /\ EndIsLastCall'
    BY <1>7, <2>1 DEF EndNotYet, EndIsLastCall
  <2> QED BY <1>3, <1>4, <2>2, <2>3 DEF ImageInv
<1> QED BY <1>4, <1>8, <1>9

\* The reactor, the handlers of pieces and the client leave the requests alone.
LEMMA WriterKeeps ==
  ASSUME ImageInv, Write \/ Reactor \/ Client
  PROVE  ImageInv' /\ (socket = "closed" => stream' = stream)
<1>1. UNCHANGED image /\ (Writable \/ PieceHandler \/ ClientReceives \/ ClientLeaves)
  BY DEF Write, Reactor, Client
<1>2. WriterTypeOK' /\ LeftFits'
  BY <1>1, WriterStepKeeps DEF WriterInv, ImageInv, TypeOK
<1>3. UNCHANGED packet
  BY <1>1 DEF Writable, PieceHandler, PieceOk, PieceError, PieceLost, ClientReceives, ClientLeaves
<1>4. NothingWaits' /\ (socket = "closed" => stream' = stream)
  <2>1. CASE PieceOk
    <3> DEFINE p == Head(ready).packet
    <3>1. UNCHANGED socket
      BY <2>1 DEF PieceOk, connection
    <3>2. CASE StartPiece(p, left[p], TRUE, Tail(ready))
      BY <3>1, <3>2, StartedDoesNotWait DEF ImageInv
    <3>3. CASE UNCHANGED kernel
      BY <3>1, <3>3 DEF ImageInv, NothingWaits, kernel
    <3> QED BY <2>1, <3>2, <3>3 DEF PieceOk, kernel
  <2>2. CASE PieceLost
    BY <2>2 DEF PieceLost, ClearMyself, NothingWaits
  <2>3. CASE Writable
    BY <2>3 DEF Writable, connection, ImageInv, NothingWaits
  <2>4. CASE PieceError \/ ClientReceives \/ ClientLeaves
    BY <2>4 DEF PieceError, ClientReceives, ClientLeaves, kernel, connection, ImageInv, NothingWaits
  <2> QED BY <1>1, <2>1, <2>2, <2>3, <2>4 DEF PieceHandler
<1>5. TypeOK'
  BY <1>1, <1>2, <1>3 DEF ImageInv, TypeOK, image, Packets
<1>6. EndNotYet' /\ EndIsLastCall'
  BY <1>1, <1>3 DEF ImageInv, EndNotYet, EndIsLastCall, image
<1> QED BY <1>2, <1>4, <1>5, <1>6 DEF ImageInv

LEMMA ImageStep ==
  ASSUME ImageInv, [Next]_vars
  PROVE  ImageInv' /\ (socket = "closed" => stream' = stream)
<1>1. CASE UNCHANGED vars
  <2>1. UNCHANGED <<packet, left, waiting, exhausted, ready, result, stream, taken, socket,
                    listed, peer, running, op, request, friends, ends, reads>>
    BY <1>1 DEF vars, writer, image, kernel, connection, clientSide
  <2> QED BY <2>1 DEF ImageInv, TypeOK, WriterTypeOK, LeftFits, NothingWaits, EndNotYet,
                      EndIsLastCall, Packets, Piece, Unit
<1>2. CASE Listen \/ SkipImage \/ AvatarThrows \/ DownloadDone
  BY <1>2, ListenKeeps DEF writer, kernel
<1>3. CASE SendImage \/ SendEndOfReply
  BY <1>3, SendKeeps
<1>4. CASE Write \/ Reactor \/ Client
  BY <1>4, WriterKeeps
<1> QED BY <1>1, <1>2, <1>3, <1>4 DEF Next, Answer

-----------------------------------------------------------------------------

\* Types, what is left of the packets, what waits for a closed socket and where the
\* end marker is hold together in every reachable state.
THEOREM ImageIsConsistent == Spec => []ImageInv
<1>1. ImageInv /\ [Next]_vars => ImageInv'
  BY ImageStep
<1> QED BY <1>1, ImageInit, PTL DEF Spec

\* The types of the connection and of its writer.
THEOREM ImageTypeCorrect == Spec => []TypeOK
<1>1. ImageInv => TypeOK
  BY DEF ImageInv
<1> QED BY <1>1, ImageIsConsistent, PTL

\* A connection gets at most one end marker, as the last packet it is sent, and
\* nobody listens to it afterwards.
THEOREM EndIsTheLastCall == Spec => []EndIsLastCall
<1>1. ImageInv => EndIsLastCall
  BY DEF ImageInv
<1> QED BY <1>1, ImageIsConsistent, PTL

\* No unit is handed to the kernel once the socket is closed, by no packet and by no
\* piece that was under way.
THEOREM ClosedTakesNoMore == Spec => NothingAfterClose
<1>1. ImageInv /\ [Next]_vars => [socket = "closed" => stream' = stream]_vars
  BY ImageStep
<1> QED BY <1>1, ImageIsConsistent, PTL DEF Spec, NothingAfterClose
=============================================================================
