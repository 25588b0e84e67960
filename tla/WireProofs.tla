----------------------------- MODULE WireProofs -----------------------------
(* The proof that an image connection implements the abstract Wire: every step *)
(* of its handlers, of the reactor and of the client is one of Wire's, or does *)
(* not show.                                                                   *)
EXTENDS PacketOrderProofs

-----------------------------------------------------------------------------
(* The refinement mapping. *)

\* What the kernel takes is what goes out.
LEMMA OnWireGrows ==
  ASSUME stream \in Seq(Unit), NEW p, NEW n \in Nat, NEW k \in Nat,
         More(stream, stream', p, n, k)
  PROVE  OnWire' = OnWire \o [i \in 1..k |-> [packet |-> p, unit |-> n + i]]
<1> DEFINE new == [i \in 1..k |-> [packet |-> p, unit |-> n + i]]
           T == {OnWire[i] : i \in 1..Len(stream)} \cup {new[i] : i \in 1..k}
<1>1. /\ Len(stream) \in Nat /\ Len(stream') = Len(stream) + k
      /\ \A i \in 1..Len(stream) : stream'[i] = stream[i]
      /\ \A i \in 1..k : stream'[Len(stream) + i].packet = p /\ stream'[Len(stream) + i].unit = n + i
  BY DEF More
<1>2. /\ OnWire \in [1..Len(stream) -> T] /\ new \in [1..k -> T]
      /\ \A i \in 1..Len(stream) : OnWire[i] = [packet |-> stream[i].packet, unit |-> stream[i].unit]
      /\ \A i \in 1..k : new[i] = [packet |-> p, unit |-> n + i]
  BY DEF OnWire
<1>3. OnWire' = [i \in 1..(Len(stream) + k) |->
                   [packet |-> stream'[i].packet, unit |-> stream'[i].unit]]
  BY <1>1 DEF OnWire
<1> HIDE DEF T, new
<1>4. OnWire \in Seq(T) /\ Len(OnWire) = Len(stream) /\ new \in Seq(T) /\ Len(new) = k
  BY <1>1, <1>2
<1>8. OnWire \o new \in [1..(Len(stream) + k) -> T]
  <2>1. OnWire \o new \in Seq(T)
    BY <1>4
  <2>2. Len(OnWire \o new) = Len(stream) + k
    BY <1>4
  <2> DEFINE all == OnWire \o new
  <2> HIDE DEF all
  <2>3. all \in Seq(T) /\ Len(all) = Len(stream) + k
    BY <2>1, <2>2 DEF all
  <2>4. all \in [1..(Len(stream) + k) -> T]
    BY <2>3
  <2> QED BY <2>4 DEF all
<1>5. /\ \A i \in 1..Len(stream) : (OnWire \o new)[i] = OnWire[i]
      /\ \A i \in 1..k : (OnWire \o new)[Len(stream) + i] = new[i]
  BY <1>1, <1>4, SMT
<1>6. ASSUME NEW i \in 1..(Len(stream) + k) PROVE OnWire'[i] = (OnWire \o new)[i]
  <2>1. CASE i \in 1..Len(stream)
    BY <1>1, <1>2, <1>3, <1>5, <2>1
  <2>2. CASE i \notin 1..Len(stream)
    <3>1. i - Len(stream) \in 1..k /\ Len(stream) + (i - Len(stream)) = i
      BY <1>1, <2>2
    <3>2. stream'[i].packet = p /\ stream'[i].unit = n + (i - Len(stream))
      BY <1>1, <3>1
    <3>3. (OnWire \o new)[i] = [packet |-> p, unit |-> n + (i - Len(stream))]
      BY <1>2, <1>5, <3>1
    <3> QED BY <1>3, <3>2, <3>3
  <2> QED BY <2>1, <2>2
<1>7. OnWire' = OnWire \o new
  <2> DEFINE all == OnWire \o new
  <2>1. all = [i \in 1..(Len(stream) + k) |-> all[i]]
    BY <1>8
  <2>2. OnWire' = [i \in 1..(Len(stream) + k) |-> OnWire'[i]]
    BY <1>3
  <2> HIDE DEF all
  <2> QED BY <1>6, <2>1, <2>2 DEF all
<1> QED BY <1>7 DEF new

LEMMA OnWireLength == ASSUME stream \in Seq(Unit) PROVE Len(OnWire) = Len(stream)
<1>1. Len(stream) \in Nat
  OBVIOUS
<1> DEFINE T == {[packet |-> stream[i].packet, unit |-> stream[i].unit] : i \in 1..Len(stream)}
<1>2. OnWire \in [1..Len(stream) -> T]
  BY DEF OnWire
<1> HIDE DEF T
<1> QED BY <1>1, <1>2

\* What does not show.
Seen == <<packet, left, stream, result, socket, taken>>

LEMMA UnseenStutters == ASSUME UNCHANGED Seen PROVE UNCHANGED W!vars
  BY DEF Seen, W!vars, Out, OnWire, Packets

\* More of a packet that was given before goes out.
LEMMA TakeIsEmit ==
  ASSUME OrderInv, UNCHANGED <<packet, result, socket, taken>>, socket = "open",
         NEW p \in Packets, result[p] = "none", left[p] > 0, Take(p, left[p], TRUE),
         p \in Unbegun => \A q \in Packets : q > p => q \in Unbegun
  PROVE  W!Emit(p)
<1>1. WriterInv
  BY DEF OrderInv, ImageInv, TypeOK, WriterInv
<1>2. /\ packet \in Seq(Sizes) /\ left \in [Packets -> Nat] /\ left[p] <= packet[p]
      /\ Packets = 1..Len(packet) /\ DOMAIN packet = Packets /\ stream \in Seq(Unit)
      /\ Len(stream) \in Nat /\ taken \in Nat
      /\ \A q \in Packets : packet[q] \in Nat /\ left[q] \in Nat
  <2>1. \A q \in Packets : packet[q] \in Sizes
    BY <1>1 DEF WriterInv, WriterTypeOK, Packets
  <2>2. \A q \in Packets : packet[q] \in Nat
    BY <2>1, WriterAssumption
  <2>3. left \in [Packets -> Nat] /\ left[p] <= packet[p]
    BY <1>1 DEF WriterInv, WriterTypeOK, LeftFits
  <2>4. packet \in Seq(Sizes) /\ stream \in Seq(Unit) /\ taken \in Nat
    BY <1>1 DEF WriterInv, WriterTypeOK
  <2>5. Packets = 1..Len(packet) /\ DOMAIN packet = Packets /\ Len(stream) \in Nat
    BY <2>4 DEF Packets
  <2> QED BY <2>2, <2>3, <2>4, <2>5
<1>3. PICK k \in Nat :
        /\ k <= left[p] /\ k > 0 /\ k <= Free
        /\ More(stream, stream', p, packet[p] - left[p], k)
        /\ left' = [q \in Packets |-> IF q = p THEN left[p] - k ELSE left[q]]
  <2>1. /\ packet' \in Seq(Sizes) /\ p \in 1..Len(packet') /\ left[p] \in Nat
        /\ left[p] <= packet'[p] /\ TRUE \in BOOLEAN /\ 1..Len(packet') = Packets
        /\ packet'[p] = packet[p]
    BY <1>2
  <2> QED BY <1>1, <2>1, TakeIsMore
<1>4. /\ Out \in [Packets -> Int] /\ Out[p] = packet[p] - left[p] /\ Out[p] \in Nat
      /\ \A q \in Packets : Out[q] = packet[q] - left[q]
  BY <1>2 DEF Out
<1>5. Out' = [Out EXCEPT ![p] = @ + k]
  <2>1. Out' = [q \in Packets |-> packet[q] - left'[q]]
    BY DEF Out, Packets
  <2>2. \A q \in Packets : packet[q] - left'[q] = IF q = p THEN Out[p] + k ELSE Out[q]
    BY <1>2, <1>3, <1>4
  <2> QED BY <1>4, <2>1, <2>2
<1>6. OnWire' = OnWire \o [i \in 1..k |-> [packet |-> p, unit |-> Out[p] + i]]
  BY <1>2, <1>3, <1>4, OnWireGrows
<1>7. Out[p] = 0 => \A q \in DOMAIN packet : q > p => Out[q] = 0
  BY <1>2, <1>4 DEF Unbegun
<1>8. k \in 1..(packet[p] - Out[p])
  BY <1>2, <1>3, <1>4
<1>9. Len(OnWire) - taken + k <= Room
  BY <1>2, <1>3, OnWireLength, WriterAssumption DEF Free
<1>10. W!Goes(p, Out[p], k)
  BY <1>6, <1>9 DEF W!Goes
<1> QED BY <1>5, <1>7, <1>8, <1>10 DEF W!Emit

\* The handler of a packet is told.
LEMMA ToldIsFinish ==
  ASSUME OrderInv, UNCHANGED <<packet, left, stream, taken>>,
         NEW p \in Packets, result[p] = "none", NEW e \in {"ok", "lost", "other"},
         e = "ok" => left[p] = 0, result' = [result EXCEPT ![p] = e],
         IF e = "lost" THEN socket' = "closed" ELSE UNCHANGED socket
  PROVE  W!Finish(p)
<1>1. left[p] = 0 => Out[p] = packet[p]
  <2>1. packet[p] \in Sizes
    BY DEF OrderInv, ImageInv, TypeOK, WriterTypeOK, Packets
  <2>2. packet[p] \in Nat
    BY <2>1, WriterAssumption
  <2> QED BY <2>2 DEF Out
<1>2. UNCHANGED <<Out, OnWire>>
  BY DEF Out, OnWire, Packets
<1>3. (socket = "open")' = (socket = "open" /\ e # "lost")
  BY Zenon
<1> QED BY <1>1, <1>2, <1>3 DEF W!Finish

LEMMA AppendIsFunction ==
  ASSUME NEW n \in Nat, NEW f \in [1..n -> Int], NEW x \in Int
  PROVE  Append(f, x) = [q \in 1..(n + 1) |-> IF q = n + 1 THEN x ELSE f[q]]
<1>1. f \in Seq(Int) /\ Len(f) = n
  OBVIOUS
<1>2. /\ Append(f, x) \in Seq(Int) /\ Len(Append(f, x)) = n + 1 /\ Append(f, x)[n + 1] = x
      /\ \A q \in 1..n : Append(f, x)[q] = f[q]
  BY <1>1
<1> DEFINE a == Append(f, x)
<1>4. \A q \in 1..(n + 1) : q = n + 1 \/ q \in 1..n
  OBVIOUS
<1> HIDE DEF a
<1>7. a \in Seq(Int) /\ Len(a) = n + 1
  BY <1>2 DEF a
<1>3. a \in [1..(n + 1) -> Int]
  BY <1>7
<1>5. a = [q \in 1..(n + 1) |-> a[q]]
  BY <1>3
<1>6. \A q \in 1..(n + 1) : a[q] = IF q = n + 1 THEN x ELSE f[q]
  BY <1>2, <1>4 DEF a
<1> QED BY <1>5, <1>6 DEF a

\* A packet is given, and what the kernel takes in the call goes out at once.
LEMMA SendIsGive ==
  ASSUME OrderInv, NEW size \in Sizes, SendDataPacket(size)
  PROVE  W!Give(size)
<1> DEFINE p == Len(packet) + 1
<1>1. WriterInv
  BY DEF OrderInv, ImageInv, TypeOK, WriterInv
<1>2. /\ packet \in Seq(Sizes) /\ left \in [Packets -> Nat] /\ stream \in Seq(Unit)
      /\ Len(packet) \in Nat /\ Packets = 1..Len(packet) /\ size \in Nat \ {0}
      /\ Len(stream) \in Nat /\ taken \in Nat
  BY <1>1, WriterAssumption DEF WriterInv, WriterTypeOK, Packets
<1>3. \A q \in Packets : packet[q] \in Nat
  <2>1. \A q \in Packets : packet[q] \in Sizes
    BY <1>2
  <2> QED BY <2>1, WriterAssumption
<1>4. /\ packet' = Append(packet, size) /\ result' = Append(result, "none")
      /\ UNCHANGED <<socket, taken>> /\ StartPiece(p, size, FALSE, ready)
  BY DEF SendDataPacket, connection, clientSide
<1>5. /\ packet' \in Seq(Sizes) /\ Len(packet') = p /\ packet'[p] = size
      /\ \A q \in Packets : packet'[q] = packet[q]
      /\ Packets' = 1..p /\ p \in 1..p /\ p \notin Packets
      /\ \A q \in 1..p : q # p => q \in Packets
  BY <1>2, <1>4 DEF Packets
<1>6. Out \in [1..Len(packet) -> Int] /\ \A q \in Packets : Out[q] = packet[q] - left[q]
  BY <1>2, <1>3 DEF Out
<1>a. p = Len(packet) + 1
  OBVIOUS
<1> HIDE DEF p
<1>7. ASSUME NEW k \in 0..size,
             left' = [q \in 1..p |-> IF q = p THEN size - k ELSE left[q]]
      PROVE  Out' = Append(Out, k)
  <2>1. Out' = [q \in 1..p |-> packet'[q] - left'[q]]
    BY <1>5 DEF Out
  <2>2. \A q \in 1..p : packet'[q] - left'[q] = IF q = p THEN k ELSE Out[q]
    <3>1. k \in Int /\ size - (size - k) = k /\ left'[p] = size - k
      BY <1>2, <1>5, <1>7
    <3>2. \A q \in 1..p : q # p => left'[q] = left[q] /\ packet'[q] = packet[q]
      BY <1>5, <1>7
    <3> QED BY <1>5, <1>6, <3>1, <3>2
  <2>3. Len(packet) \in Nat /\ Out \in [1..Len(packet) -> Int]
    BY <1>2, <1>6
  <2>4. Append(Out, k) = [q \in 1..p |-> IF q = p THEN k ELSE Out[q]]
    <3>1. Append(Out, k) = [q \in 1..(Len(packet) + 1) |-> IF q = Len(packet) + 1 THEN k ELSE Out[q]]
      <4>1. k \in Int
        OBVIOUS
      <4> QED BY <2>3, <4>1, AppendIsFunction
    <3> QED BY <1>a, <3>1
  <2> QED BY <2>1, <2>2, <2>4
<1>8. CASE Take(p, size, FALSE) /\ socket = "open"
  <2>1. packet' \in Seq(Sizes) /\ p \in 1..Len(packet') /\ size \in Nat /\ size <= packet'[p] /\ FALSE \in BOOLEAN
    BY <1>2, <1>5
  <2>2. PICK k \in Nat :
          /\ k <= size /\ k > 0 /\ k <= Free
          /\ More(stream, stream', p, packet'[p] - size, k)
          /\ left' = [q \in 1..Len(packet') |-> IF q = p THEN size - k ELSE left[q]]
    <3>1. size > 0
      BY <1>2
    <3>2. \E k \in Nat :
            /\ k <= size /\ (size > 0 => k > 0) /\ k <= Free
            /\ More(stream, stream', p, packet'[p] - size, k)
            /\ left' = [q \in 1..Len(packet') |-> IF q = p THEN size - k ELSE left[q]]
      BY <1>1, <1>8, <2>1, TakeIsMore
    <3> QED BY <3>1, <3>2
  <2>3. packet'[p] - size = 0
    BY <1>2, <1>5
  <2>8. More(stream, stream', p, 0, k)
    BY <2>2, <2>3, Zenon
  <2>4. OnWire' = OnWire \o [i \in 1..k |-> [packet |-> p, unit |-> 0 + i]]
    BY <1>2, <2>8, OnWireGrows
  <2>5. Len(OnWire) - taken + k <= Room
    BY <1>2, <2>2, OnWireLength, WriterAssumption DEF Free
  <2>6. W!Goes(p, 0, k)
    BY <1>8, <2>4, <2>5 DEF W!Goes
  <2>7. k \in 0..size /\ k # 0 /\ Out' = Append(Out, k)
    BY <1>2, <1>5, <1>7, <2>2
  <2> QED BY <1>4, <1>a, <2>6, <2>7 DEF W!Give
<1>9. CASE KeepLeft(p, size) /\ UNCHANGED stream
  <2>1. left' = [q \in 1..p |-> IF q = p THEN size - 0 ELSE left[q]]
    BY <1>2, <1>5, <1>9 DEF KeepLeft
  <2>2. 0 \in 0..size /\ Out' = Append(Out, 0)
    BY <1>2, <1>7, <2>1
  <2>3. UNCHANGED OnWire
    BY <1>9 DEF OnWire
  <2> QED BY <1>4, <2>2, <2>3 DEF W!Give
<1>10. (Take(p, size, FALSE) /\ socket = "open") \/ (KeepLeft(p, size) /\ UNCHANGED stream)
  BY <1>4, Zenon DEF StartPiece
<1> QED BY <1>8, <1>9, <1>10

LEMMA WritesAreWire == ASSUME OrderInv, Writes PROVE [W!Next]_W!vars
<1>1. /\ waiting \in Seq(Packets) /\ ready \in Seq(Piece) /\ packet \in Seq(Sizes)
      /\ DOMAIN packet = Packets /\ left \in [Packets -> Nat] /\ OnePlace /\ BeginInv
      /\ stream \in Seq(Unit) /\ taken \in Nat
  BY DEF OrderInv, ImageInv, TypeOK, WriterTypeOK, Packets
<1>2. ASSUME ready # <<>>
      PROVE  /\ Head(ready).packet \in Packets /\ result[Head(ready).packet] = "none"
             /\ Head(ready).ec = "ok" => Head(ready).packet \notin Unbegun
  <2>1. Head(ready) = ready[1] /\ 1 \in 1..Len(ready)
    BY <1>1, <1>2
  <2>2. Head(ready).packet \in Placed(waiting, ready)
    BY <2>1 DEF Placed
  <2> QED BY <1>1, <2>1, <2>2 DEF OnePlace, BeginInv, Underway
<1>3. CASE Writable
  <2> DEFINE p == Head(waiting)
  <2>1. /\ waiting # <<>> /\ UNCHANGED <<packet, result, socket, taken>>
        /\ Take(p, left[p], TRUE) \/ UNCHANGED <<left, stream>>
    BY <1>3, Zenon DEF Writable, connection, clientSide
  <2>2. p = waiting[1] /\ 1 \in 1..Len(waiting)
    BY <1>1, <2>1
  <2>3. p \in Packets /\ result[p] = "none" /\ socket = "open"
    <3>1. p \in Placed(waiting, ready)
      BY <2>2 DEF Placed
    <3> QED BY <1>1, <2>1, <3>1
            DEF OnePlace, OrderInv, ImageInv, NothingWaits, TypeOK, WriterTypeOK
  <2>4. left[p] > 0 /\ (p \in Unbegun => \A q \in Packets : q > p => q \in Unbegun)
    BY <1>1, <2>2 DEF BeginInv, InLine
  <2> HIDE DEF p
  <2>5. CASE Take(p, left[p], TRUE)
    <3>1. W!Emit(p)
      BY <2>1, <2>3, <2>4, <2>5, TakeIsEmit
    <3> QED BY <1>1, <2>3, <3>1 DEF W!Next
  <2>6. CASE UNCHANGED <<left, stream>>
    BY <2>1, <2>6, UnseenStutters DEF Seen
  <2> QED BY <2>1, <2>5, <2>6
<1>4. CASE PieceOk
  <2> DEFINE p == Head(ready).packet
  <2>1. /\ ready # <<>> /\ Head(ready).ec = "ok" /\ UNCHANGED <<packet, socket, taken>>
        /\ \/ left[p] > 0 /\ UNCHANGED result /\ StartPiece(p, left[p], TRUE, Tail(ready))
           \/ ~(left[p] > 0) /\ result' = [result EXCEPT ![p] = "ok"] /\ UNCHANGED <<left, stream>>
    BY <1>4, Zenon DEF PieceOk, PieceDone, kernel, connection, clientSide
  <2>2. p \in Packets /\ result[p] = "none" /\ p \notin Unbegun
    BY <1>2, <2>1
  <2> HIDE DEF p
  <2>3. CASE left[p] > 0 /\ UNCHANGED result /\ StartPiece(p, left[p], TRUE, Tail(ready))
    <3>1. CASE Take(p, left[p], TRUE) /\ socket = "open"
      <4>1. W!Emit(p)
        BY <2>1, <2>2, <2>3, <3>1, TakeIsEmit
      <4> QED BY <1>1, <2>2, <4>1 DEF W!Next
    <3>2. CASE KeepLeft(p, left[p]) /\ UNCHANGED stream
      <4>1. UNCHANGED left
        BY <1>1, <2>1, <3>2 DEF KeepLeft
      <4> QED BY <2>1, <2>3, <3>2, <4>1, UnseenStutters DEF Seen
    <3> QED BY <2>3, <3>1, <3>2, Zenon DEF StartPiece
  <2>4. CASE ~(left[p] > 0) /\ result' = [result EXCEPT ![p] = "ok"] /\ UNCHANGED <<left, stream>>
    <3>1. left[p] = 0
      BY <1>1, <2>2, <2>4
    <3>2. W!Finish(p)
      BY <2>1, <2>2, <2>4, <3>1, ToldIsFinish
    <3> QED BY <1>1, <2>2, <3>2 DEF W!Next
  <2> QED BY <2>1, <2>3, <2>4
<1>5. CASE PieceError
  <2> DEFINE p == Head(ready).packet
  <2>1. /\ ready # <<>> /\ result' = [result EXCEPT ![p] = "other"]
        /\ UNCHANGED <<packet, left, stream, socket, taken>>
    BY <1>5, Zenon DEF PieceError, PieceDone, kernel, connection, clientSide
  <2>2. p \in Packets /\ result[p] = "none"
    BY <1>2, <2>1
  <2> HIDE DEF p
  <2>3. W!Finish(p)
    BY <2>1, <2>2, ToldIsFinish
  <2> QED BY <1>1, <2>2, <2>3 DEF W!Next
<1>6. CASE PieceLost
  <2> DEFINE p == Head(ready).packet
  <2>1. /\ ready # <<>> /\ result' = [result EXCEPT ![p] = "lost"] /\ socket' = "closed"
        /\ UNCHANGED <<packet, left, stream, taken>>
    BY <1>6, Zenon DEF PieceLost, PieceDone, ClearMyself, clientSide
  <2>2. p \in Packets /\ result[p] = "none"
    BY <1>2, <2>1
  <2> HIDE DEF p
  <2>3. W!Finish(p)
    BY <2>1, <2>2, ToldIsFinish
  <2> QED BY <1>1, <2>2, <2>3 DEF W!Next
<1>7. CASE ClientReceives
  <2>1. /\ taken < Len(OnWire) /\ taken' = taken + 1
        /\ UNCHANGED <<packet, left, stream, result, socket>>
    BY <1>1, <1>7, OnWireLength DEF ClientReceives, kernel, connection
  <2>2. W!Receive
    BY <2>1 DEF W!Receive, Out, OnWire, Packets
  <2> QED BY <2>2 DEF W!Next
<1>8. CASE ClientLeaves
  <2>1. UNCHANGED Seen
    BY <1>8, Zenon DEF ClientLeaves, Seen, kernel, connection
  <2> QED BY <2>1, UnseenStutters
<1> QED BY <1>3, <1>4, <1>5, <1>6, <1>7, <1>8 DEF Writes, PieceHandler

LEMMA StepIsWire == ASSUME OrderInv, [Next]_vars PROVE [W!Next]_W!vars
<1>1. CASE UNCHANGED writer
  <2>1. UNCHANGED Seen
    BY <1>1, Zenon DEF writer, kernel, connection, clientSide, Seen
  <2> QED BY <2>1, UnseenStutters
<1>2. ASSUME NEW size \in Sizes, SendDataPacket(size) PROVE W!Next
  BY <1>2, SendIsGive DEF W!Next
<1> QED BY <1>1, <1>2, StepOfWriter, WritesAreWire DEF OrderInv

LEMMA InitIsWire == Init => W!Init
  BY DEF Init, WriterInit, W!Init, Out, OnWire, Packets

-----------------------------------------------------------------------------

\* An image connection, with its pieces, the queue of the reactor, the errors and
\* the clean-up in the handler of a write, does no more to its packets than Wire
\* allows: each goes out in order while its outcome is open, a later one does not
\* begin before an earlier one, success means all of it, and a loss ends everything.
THEOREM ImageImplementsWire == Spec => ImplementsWire
<1>1. OrderInv /\ [Next]_vars => [W!Next]_W!vars
  BY StepIsWire
<1>2. Spec => W!Init /\ [][W!Next]_W!vars
  BY <1>1, InitIsWire, OrderInit, OrderStep, PTL DEF Spec
<1> QED BY <1>2 DEF ImplementsWire, W!Spec
=============================================================================
