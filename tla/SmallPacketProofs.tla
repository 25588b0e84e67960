-------------------------- MODULE SmallPacketProofs --------------------------
(* Proofs that packets of one piece that find room are written whole and at    *)
(* once, which is how the chat server uses SendDataPacket.                     *)
EXTENDS PacketOrderProofs, FiniteSetTheorems

-----------------------------------------------------------------------------
(* One packet. *)

\* A whole packet, later than those before it, behind whole packets.
LEMMA WholeGrows ==
  ASSUME WriterInv, StreamWhole, NEW size \in Sizes,
         packet' = Append(packet, size),
         More(stream, stream', Len(packet) + 1, 0, size),
         \A i \in 1..size : stream'[Len(stream) + i].intact
  PROVE  StreamWhole'
<1> DEFINE p == Len(packet) + 1
           n == Len(stream)
<1>1. /\ n \in Nat /\ size \in Nat \ {0} /\ Len(stream') = n + size /\ Len(packet) \in Nat
      /\ \A i \in 1..n : stream'[i] = stream[i]
      /\ \A i \in 1..size : stream'[n + i].packet = p /\ stream'[n + i].unit = i
  BY WriterAssumption DEF More, WriterInv, WriterTypeOK
<1>2. packet'[p] = size /\ \A q \in Packets : packet'[q] = packet[q] /\ q < p /\ q # p
  BY <1>1 DEF WriterInv, WriterTypeOK, Packets
<1>3. \A i \in 1..n : stream[i].packet \in Packets
  <2>1. \A i \in 1..n : stream[i] \in Unit
    BY DEF WriterInv, WriterTypeOK
  <2> QED BY <2>1 DEF Unit
<1>4. ASSUME NEW i \in 1..Len(stream'), i \notin 1..n
      PROVE  /\ i > n /\ stream'[i].packet = p /\ stream'[i].unit = i - n
             /\ stream'[i].intact /\ i - n <= size
  <2>1. i - n \in 1..size /\ n + (i - n) = i
    BY <1>1, <1>4
  <2>2. /\ stream'[n + (i - n)].packet = p /\ stream'[n + (i - n)].unit = i - n
        /\ stream'[n + (i - n)].intact
    BY <1>1, <2>1
  <2>3. i > n /\ i - n <= size
    BY <1>1, <2>1
  <2> QED BY <2>1, <2>2, <2>3
<1>5. ASSUME NEW i \in 1..n
      PROVE  i - 1 \in 1..n \/ i = 1
  BY <1>1
<1> HIDE DEF p, n
<1> SUFFICES ASSUME NEW i \in 1..Len(stream')
             PROVE  LET u == stream'[i]
                        begins == i = 1 \/ stream'[i - 1].packet # u.packet
                        final == i = Len(stream') \/ stream'[i + 1].packet # u.packet
                    IN  /\ u.intact
                        /\ begins => u.unit = 1 /\ (i > 1 => stream'[i - 1].packet < u.packet)
                        /\ ~begins => u.unit = stream'[i - 1].unit + 1
                        /\ final => u.unit = packet'[u.packet]
  BY DEF StreamWhole
<1>6. CASE i \in 1..n
  <2>1. /\ stream'[i] = stream[i] /\ stream[i].packet \in Packets
        /\ packet'[stream[i].packet] = packet[stream[i].packet] /\ stream[i].packet # p
        /\ i # 1 => stream'[i - 1] = stream[i - 1]
    <3>1. stream'[i] = stream[i] /\ stream[i].packet \in Packets
      BY <1>1, <1>3, <1>6
    <3>2. i # 1 => stream'[i - 1] = stream[i - 1]
      BY <1>1, <1>5, <1>6
    <3> QED BY <1>2, <3>1, <3>2
  <2>2. i + 1 \in 1..n \/ (i = n /\ stream'[i + 1].packet = p)
    BY <1>1, <1>6
  <2>3. i = n \/ (i + 1 \in 1..n /\ stream'[i + 1] = stream[i + 1])
    BY <1>1, <2>2
  <2>4. /\ stream[i].intact
        /\ (i = 1 \/ stream[i - 1].packet # stream[i].packet)
             => stream[i].unit = 1 /\ (i > 1 => stream[i - 1].packet < stream[i].packet)
        /\ ~(i = 1 \/ stream[i - 1].packet # stream[i].packet)
             => stream[i].unit = stream[i - 1].unit + 1
        /\ (i = n \/ stream[i + 1].packet # stream[i].packet)
             => stream[i].unit = packet[stream[i].packet]
    BY <1>6, Zenon DEF StreamWhole, n
  <2>5. i = Len(stream') \/ stream'[i + 1].packet # stream'[i].packet
        => stream'[i].unit = packet'[stream'[i].packet]
    <3>1. i # Len(stream')
      BY <1>1, <1>6
    <3> QED BY <2>1, <2>2, <2>3, <2>4, <3>1
  <2> QED BY <1>1, <1>6, <2>1, <2>4, <2>5
<1>7. CASE i \notin 1..n
  <2>1. i > n /\ stream'[i].packet = p /\ stream'[i].unit = i - n /\ stream'[i].intact
    BY <1>4, <1>7
  <2>2. CASE i = n + 1
    <3>1. i > 1 => i - 1 \in 1..n /\ stream'[i - 1].packet < p
      BY <1>1, <1>2, <1>3, <2>2
    <3>2. i > 1 => stream'[i - 1].packet # p
      BY <1>1, <1>2, <1>3, <3>1
    <3>3. i = 1 \/ i > 1
      BY <1>1, <2>2
    <3>4. i # Len(stream') => i + 1 \in 1..Len(stream') /\ stream'[i + 1].packet = p
      BY <1>1, <1>4, <2>2
    <3>5. i = Len(stream') => size = 1
      BY <1>1, <2>2
    <3>6. stream'[i].unit = 1
      BY <1>1, <2>1, <2>2
    <3> QED BY <1>2, <2>1, <3>1, <3>2, <3>3, <3>4, <3>5, <3>6
  <2>3. CASE i # n + 1
    <3>1. /\ i - 1 \in 1..Len(stream') /\ i - 1 \notin 1..n /\ i # 1
          /\ stream'[i - 1].packet = p /\ stream'[i - 1].unit = i - 1 - n
      BY <1>1, <1>4, <1>7, <2>1, <2>3
    <3>2. i # Len(stream') => i + 1 \in 1..Len(stream') /\ stream'[i + 1].packet = p
      BY <1>1, <1>4, <2>1
    <3>3. i = Len(stream') => i - n = size
      BY <1>1
    <3>4. stream'[i].unit = stream'[i - 1].unit + 1
      BY <1>1, <2>1, <3>1
    <3> QED BY <1>2, <2>1, <3>1, <3>2, <3>3, <3>4
  <2> QED BY <2>2, <2>3
<1> QED BY <1>6, <1>7

-----------------------------------------------------------------------------
(* The writer at rest. *)

\* No piece waits, no write was cut short, what was written was written whole.
Calm ==
  /\ waiting = <<>> /\ ~exhausted
  /\ \A i \in 1..Len(ready) : ready[i].ec = "ok" => left[ready[i].packet] = 0
  /\ StreamWhole

\* The call of SendDataPacket in this step, if there is one, is given a packet of one
\* piece that the send buffer has room for.
CallFindsRoom ==
  packet' # packet => packet'[Len(packet')] <= Chunk /\ packet'[Len(packet')] <= Free

LEMMA CalmInit == Init => Calm
  BY DEF Init, WriterInit, Calm, StreamWhole

\* All of the packet is taken by the call, while its buffer is alive.
LEMMA WholeIsTaken ==
  ASSUME WriterInv, NEW size \in Sizes, size <= Chunk, size <= Free,
         packet' = Append(packet, size), Take(Len(packet) + 1, size, FALSE)
  PROVE  /\ More(stream, stream', Len(packet) + 1, 0, size)
         /\ \A i \in 1..size : stream'[Len(stream) + i].intact
         /\ left' = [q \in 1..(Len(packet) + 1) |-> IF q = Len(packet) + 1 THEN 0 ELSE left[q]]
         /\ ~exhausted'
<1> DEFINE p == Len(packet) + 1
<1>1. size \in Nat \ {0} /\ Len(packet) \in Nat /\ stream \in Seq(Unit)
  BY WriterAssumption DEF WriterInv, WriterTypeOK
<1>2. Len(packet') = p /\ packet'[p] = size /\ DOMAIN packet' = 1..p
  BY <1>1 DEF WriterInv, WriterTypeOK
<1>3. Free \in Int /\ Chunk \in Nat
  BY WriterAssumption DEF Free, WriterInv, WriterTypeOK
<1>4. Least(size, Chunk) = size /\ Least(size, Free) = size
  BY <1>1, <1>3 DEF Least
<1>5. packet'[p] - size = 0
  BY <1>1, <1>2
<1>6. /\ \E b \in {TRUE} : stream' = stream \o [i \in 1..size |->
              [packet |-> p, unit |-> 0 + i, intact |-> b]]
      /\ left' = [q \in 1..p |-> IF q = p THEN size - size ELSE left[q]]
      /\ exhausted' = (size < size)
  BY <1>2, <1>4, <1>5 DEF Take
<1>7. stream' = stream \o [i \in 1..size |-> [packet |-> p, unit |-> 0 + i, intact |-> TRUE]]
  BY <1>6
<1> HIDE DEF p
<1>8. More(stream, stream', p, 0, size)
  BY <1>1, <1>7, NewUnits
<1>9. \A i \in 1..size : stream'[Len(stream) + i].intact
  <2> DEFINE new == [i \in 1..size |-> [packet |-> p, unit |-> 0 + i, intact |-> TRUE]]
             New == [packet : {p}, unit : Nat, intact : {TRUE}]
             T == Unit \cup New
  <2>1. \A i \in 1..size : new[i].intact
    OBVIOUS
  <2>2. new \in [1..size -> New]
    BY <1>1
  <2> HIDE DEF new, New
  <2>5. new \in [1..size -> T] /\ stream \in Seq(T)
    BY <1>1, <2>2
  <2> HIDE DEF T
  <2>3. new \in Seq(T) /\ stream \in Seq(T) /\ Len(new) = size
    BY <1>1, <2>5
  <2>4. \A i \in 1..size : (stream \o new)[Len(stream) + i] = new[i]
    BY <1>1, <2>3, SMT
  <2> QED BY <1>7, <2>1, <2>4 DEF new
<1>10. size - size = 0 /\ ~(size < size)
  BY <1>1
<1> QED BY <1>6, <1>8, <1>9, <1>10 DEF p

LEMMA CalmSend ==
  ASSUME WriterInv, Calm, NEW size \in Sizes, size <= Chunk, size <= Free,
         SendDataPacket(size)
  PROVE  /\ Calm' /\ Len(stream') <= Len(stream) + size
<1> DEFINE p == Len(packet) + 1
<1>1. /\ size \in Nat \ {0} /\ Len(packet) \in Nat /\ ready \in Seq(Piece)
      /\ waiting = <<>> /\ ~exhausted /\ Free > 0 /\ Len(stream) \in Nat
      /\ packet' = Append(packet, size) /\ StartPiece(p, size, FALSE, ready)
  <2>1. size \in Nat \ {0} /\ Free \in Int
    BY WriterAssumption DEF Free, WriterInv, WriterTypeOK
  <2>2. Free > 0
    BY <2>1
  <2>3. packet' = Append(packet, size) /\ StartPiece(p, size, FALSE, ready)
    BY DEF SendDataPacket
  <2>4. ready \in Seq(Piece) /\ Len(packet) \in Nat /\ Len(stream) \in Nat
    BY DEF WriterInv, WriterTypeOK
  <2>5. waiting = <<>> /\ ~exhausted
    BY DEF Calm
  <2> HIDE DEF p
  <2> QED BY <2>1, <2>2, <2>3, <2>4, <2>5
<1>2. /\ DOMAIN packet' = 1..p /\ packet'[p] = size
      /\ \A q \in Packets : packet'[q] = packet[q] /\ q \in 1..p /\ q # p
  BY <1>1 DEF WriterInv, WriterTypeOK, Packets
<1>3. \A i \in 1..Len(ready) : ready[i].packet \in Packets
  <2>1. \A i \in 1..Len(ready) : ready[i] \in Piece
    BY <1>1
  <2> QED BY <2>1 DEF Piece
<1>4. \A i \in 1..Len(stream) : stream[i].packet \in Packets
  <2>1. \A i \in 1..Len(stream) : stream[i] \in Unit
    BY DEF WriterInv, WriterTypeOK
  <2> QED BY <2>1 DEF Unit
<1>5. CASE (\E e \in {"lost", "other"} : ready' = Append(ready, Finished(p, e)))
           /\ KeepLeft(p, size) /\ UNCHANGED <<waiting, exhausted, stream>>
  <2>1. PICK e \in {"lost", "other"} : ready' = Append(ready, Finished(p, e))
    BY <1>5
  <2>2. \A q \in Packets : left'[q] = left[q]
    BY <1>2, <1>5 DEF KeepLeft
  <2>3. \A i \in 1..Len(ready') : ready'[i].ec = "ok" => left'[ready'[i].packet] = 0
    BY <1>1, <1>3, <2>1, <2>2, AppendsOne DEF Calm, Finished
  <2>4. StreamWhole'
    BY <1>2, <1>4, <1>5 DEF Calm, StreamWhole
  <2> QED BY <1>1, <1>5, <2>3, <2>4 DEF Calm
<1>6. CASE Take(p, size, FALSE) /\ ready' = Append(ready, Finished(p, "ok")) /\ UNCHANGED waiting
  <2>1. /\ More(stream, stream', p, 0, size)
        /\ \A i \in 1..size : stream'[Len(stream) + i].intact
        /\ left' = [q \in 1..p |-> IF q = p THEN 0 ELSE left[q]]
        /\ ~exhausted'
    BY <1>1, <1>6, WholeIsTaken
  <2>2. p \in 1..p
    BY <1>1
  <2>3. left'[p] = 0 /\ \A q \in Packets : left'[q] = left[q]
    BY <1>2, <2>1, <2>2
  <2>4. \A i \in 1..Len(ready') : ready'[i].ec = "ok" => left'[ready'[i].packet] = 0
    BY <1>1, <1>3, <1>6, <2>3, AppendsOne DEF Calm, Finished
  <2>5. StreamWhole'
    BY <1>1, <2>1, WholeGrows DEF Calm
  <2> QED BY <1>1, <1>6, <2>1, <2>4, <2>5 DEF Calm, More
<1>7. waiting = <<>> /\ ~exhausted /\ ~(~(waiting = <<>> /\ ~exhausted /\ Free > 0))
  BY <1>1
<1> QED BY <1>1, <1>5, <1>6, <1>7, Zenon DEF StartPiece

\* Handlers only find that all is written, and the reactor has nothing to do.
LEMMA CalmWrites ==
  ASSUME WriterInv, Calm, Writes
  PROVE  Calm' /\ UNCHANGED <<packet, stream>>
<1>1. waiting = <<>> /\ ~Writable /\ ready \in Seq(Piece)
  BY DEF Calm, Writable, WriterInv, WriterTypeOK
<1>2. ASSUME ready # <<>>
      PROVE  /\ \A i \in 1..Len(Tail(ready)) : i + 1 \in 1..Len(ready) /\ Tail(ready)[i] = ready[i + 1]
             /\ Head(ready) = ready[1] /\ 1 \in 1..Len(ready)
  BY <1>1, <1>2
<1>3. ASSUME ready # <<>>, ready' = Tail(ready), UNCHANGED <<packet, left, exhausted, stream, waiting>>
      PROVE  Calm'
  BY <1>2, <1>3 DEF Calm, StreamWhole
<1>4. CASE PieceOk
  <2>1. ready # <<>> /\ Head(ready).ec = "ok" /\ UNCHANGED packet
    BY <1>4, Zenon DEF PieceOk, PieceDone
  <2>2. left[Head(ready).packet] = 0
    BY <1>2, <2>1 DEF Calm
  <2>3. ready' = Tail(ready) /\ UNCHANGED kernel
    <3>1. ~(left[Head(ready).packet] > 0)
      BY <2>2
    <3> QED BY <1>4, <3>1, Zenon DEF PieceOk
  <2> QED BY <1>3, <2>1, <2>3 DEF kernel
<1>5. CASE PieceError
  BY <1>3, <1>5 DEF PieceError, PieceDone, kernel
<1>6. CASE PieceLost
  <2>1. /\ ready # <<>> /\ UNCHANGED <<packet, left, exhausted, stream>> /\ waiting' = <<>>
        /\ ready' = Tail(ready) \o [i \in 1..Len(waiting) |-> Finished(waiting[i], "other")]
    BY <1>6, Zenon DEF PieceLost, PieceDone, ClearMyself
  <2>2. Tail(ready) \in Seq(Piece) /\ [i \in 1..Len(waiting) |-> Finished(waiting[i], "other")] = <<>>
    BY <1>1, <2>1
  <2>3. ready' = Tail(ready)
    BY <2>1, <2>2
  <2> QED BY <1>1, <1>3, <2>1, <2>3
<1>7. CASE ClientReceives \/ ClientLeaves
  <2>1. UNCHANGED <<packet, left, exhausted, stream, waiting, ready>>
    BY <1>7, Zenon DEF ClientReceives, ClientLeaves, kernel
  <2> QED BY <2>1 DEF Calm, StreamWhole
<1> QED BY <1>1, <1>4, <1>5, <1>6, <1>7 DEF Writes, PieceHandler

LEMMA CalmStep ==
  ASSUME ImageInv, Calm, [Next]_vars, [CallFindsRoom]_vars
  PROVE  Calm'
<1>1. WriterInv
  BY DEF ImageInv, TypeOK, WriterInv
<1>2. CASE UNCHANGED writer
  BY <1>2 DEF writer, kernel, Calm, StreamWhole
<1>3. ASSUME NEW size \in Sizes, SendDataPacket(size) PROVE Calm'
  <2>1. packet' = Append(packet, size) /\ packet \in Seq(Sizes)
    BY <1>1, <1>3 DEF SendDataPacket, WriterInv, WriterTypeOK
  <2>2. Len(packet') = Len(packet) + 1 /\ packet'[Len(packet')] = size /\ packet' # packet
    BY <2>1
  <2>3. size <= Chunk /\ size <= Free
    BY <2>2 DEF CallFindsRoom, vars, writer
  <2> QED BY <1>1, <1>3, <2>3, CalmSend
<1>4. CASE Writes
  BY <1>1, <1>4, CalmWrites
<1> QED BY <1>2, <1>3, <1>4, StepOfWriter

\* For how long a connection lives: as long as every call of SendDataPacket gives it
\* a packet of one piece that the send buffer has room for, what is written is whole
\* packets with the bytes they were given, at every moment, though nothing queues
\* them and the buffer of a call is gone when it returns.
THEOREM CallsThatFindRoomWriteWhole == Spec /\ [][CallFindsRoom]_vars => []StreamWhole
<1>1. ImageInv /\ Calm /\ [Next]_vars /\ [CallFindsRoom]_vars => Calm'
  BY CalmStep
<1>2. Calm => StreamWhole
  BY DEF Calm
<1> QED BY <1>1, <1>2, CalmInit, ImageIsConsistent, PTL DEF Spec

-----------------------------------------------------------------------------
(* Packets that find room together. *)

LEMMA UnitsOfOne ==
  ASSUME NEW p, NEW n \in Nat
  PROVE  IsFiniteSet({p} \X (1..n)) /\ Cardinality({p} \X (1..n)) = n
<1> DEFINE f == [u \in 1..n |-> <<p, u>>]
<1>1. f \in Bijection(1..n, {p} \X (1..n))
  <2>1. f \in [1..n -> {p} \X (1..n)]
    OBVIOUS
  <2>2. \A u, v \in 1..n : f[u] = f[v] => u = v
    OBVIOUS
  <2>3. \A x \in {p} \X (1..n) : \E u \in 1..n : f[u] = x
    OBVIOUS
  <2> HIDE DEF f
  <2> QED BY <2>1, <2>2, <2>3 DEF Bijection, Injection, Surjection, IsInjective
<1>2. ExistsBijection(1..n, {p} \X (1..n))
  BY <1>1 DEF ExistsBijection
<1>3. IsFiniteSet(1..n) /\ Cardinality(1..n) = n
  BY FS_Interval
<1> QED BY <1>2, <1>3, FS_Bijection

\* A call adds the units of its packet.
LEMMA GivenGrows ==
  ASSUME packet \in Seq(Sizes), IsFiniteSet(Given), NEW size \in Sizes,
         packet' = Append(packet, size)
  PROVE  IsFiniteSet(Given') /\ Cardinality(Given') = Cardinality(Given) + size
<1> DEFINE p == Len(packet) + 1
           new == {p} \X (1..size)
<1>1. size \in Nat /\ Len(packet) \in Nat
  BY WriterAssumption
<1>2. /\ Packets' = Packets \cup {p} /\ p \notin Packets
      /\ packet'[p] = size /\ \A q \in Packets : packet'[q] = packet[q]
  BY <1>1 DEF Packets
<1> HIDE DEF p
<1>3. Given' = Given \cup new
  BY <1>2 DEF Given
<1>4. Given \cap new = {}
  BY <1>2 DEF Given
<1>5. IsFiniteSet(new) /\ Cardinality(new) = size
  BY <1>1, UnitsOfOne
<1> HIDE DEF new
<1>6. Cardinality({}) = 0 /\ Cardinality(Given) \in Nat
  BY FS_EmptySet, FS_CardinalityType
<1>7. /\ IsFiniteSet(Given \cup new)
      /\ Cardinality(Given \cup new)
         = Cardinality(Given) + Cardinality(new) - Cardinality(Given \cap new)
  BY <1>5, FS_Union
<1>8. Cardinality(Given \cap new) = 0
  BY <1>4, <1>6, Zenon
<1>9. Cardinality(Given \cup new) = Cardinality(Given) + size
  BY <1>1, <1>5, <1>6, <1>7, <1>8
<1> QED BY <1>3, <1>7, <1>9, Zenon

\* As long as all packets are small they have found the writer at rest, and there is
\* no more in the stream than was given.
SmallInv ==
  /\ IsFiniteSet(Given)
  /\ SmallPackets => Calm /\ Len(stream) <= Cardinality(Given)

LEMMA SmallInit == Init => SmallInv
<1> SUFFICES ASSUME Init PROVE SmallInv
  OBVIOUS
<1>1. Given = {} /\ Len(stream) = 0
  BY DEF Init, WriterInit, Given, Packets
<1> QED BY <1>1, CalmInit, FS_EmptySet DEF SmallInv

LEMMA SmallStep == ASSUME ImageInv, SmallInv, [Next]_vars PROVE SmallInv'
<1>1. WriterInv /\ packet \in Seq(Sizes) /\ IsFiniteSet(Given)
  BY DEF ImageInv, TypeOK, WriterInv, WriterTypeOK, SmallInv
<1>2. UNCHANGED packet => UNCHANGED <<Given, SmallPackets>>
  BY DEF Given, SmallPackets, Packets
<1>3. CASE UNCHANGED writer
  BY <1>2, <1>3 DEF writer, kernel, SmallInv, Calm, StreamWhole
<1>4. CASE Writes
  <2>1. UNCHANGED packet
    BY <1>4, Zenon DEF Writes, Writable, PieceHandler, PieceOk, PieceError, PieceLost,
                       ClientReceives, ClientLeaves
  <2>2. Calm => Calm' /\ UNCHANGED stream
    BY <1>1, <1>4, CalmWrites
  <2> QED BY <1>2, <2>1, <2>2 DEF SmallInv
<1>5. ASSUME NEW size \in Sizes, SendDataPacket(size) PROVE SmallInv'
  <2>1. packet' = Append(packet, size)
    BY <1>5 DEF SendDataPacket
  <2>2. IsFiniteSet(Given') /\ Cardinality(Given') = Cardinality(Given) + size
    BY <1>1, <2>1, GivenGrows
  <2>3. SUFFICES ASSUME SmallPackets' PROVE Calm' /\ Len(stream') <= Cardinality(Given')
    BY <2>2 DEF SmallInv
  <2>4. /\ size \in Nat /\ Cardinality(Given) \in Nat /\ Len(stream) \in Nat
        /\ taken \in Nat /\ Room \in Nat
    BY <1>1, FS_CardinalityType, WriterAssumption DEF WriterInv, WriterTypeOK
  <2>5. SmallPackets /\ size <= Chunk
    <3>1. /\ Len(packet) + 1 \in Packets' /\ packet'[Len(packet) + 1] = size
          /\ \A q \in Packets : q \in Packets' /\ packet'[q] = packet[q]
      BY <1>1, <2>1 DEF Packets
    <3>2. Cardinality(Given) <= Room
      BY <2>2, <2>3, <2>4 DEF SmallPackets
    <3> QED BY <2>3, <3>1, <3>2 DEF SmallPackets
  <2>6. Calm /\ Len(stream) <= Cardinality(Given)
    BY <2>5 DEF SmallInv
  <2>7. size <= Free
    BY <2>2, <2>3, <2>4, <2>6 DEF SmallPackets, Free
  <2>8. Calm' /\ Len(stream') <= Len(stream) + size
    BY <1>1, <1>5, <2>5, <2>6, <2>7, CalmSend
  <2>9. Len(stream') \in Nat
    <3>1. ImageInv'
      BY ImageStep
    <3> QED BY <3>1 DEF ImageInv, TypeOK, WriterTypeOK
  <2> QED BY <2>2, <2>4, <2>6, <2>8, <2>9
<1> QED BY <1>3, <1>4, <1>5, StepOfWriter

\* Packets of one piece that find room together are written whole and at once, in
\* the order of the calls, with the bytes they were given.
THEOREM SmallPacketsAreWhole == Spec => []SmallPacketsWhole
<1>1. ImageInv /\ SmallInv /\ [Next]_vars => SmallInv'
  BY SmallStep
<1>2. SmallInv => SmallPacketsWhole
  BY DEF SmallInv, Calm, SmallPacketsWhole
<1> QED BY <1>1, <1>2, SmallInit, ImageIsConsistent, PTL DEF Spec
=============================================================================
