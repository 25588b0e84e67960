-------------------------- MODULE PacketOrderProofs --------------------------
(* Proofs about what the pieces of overlapping packets do to one another: each *)
(* packet is in one place at a time, its units come in order, and packets begin *)
(* in the order of the calls.                                                  *)
EXTENDS ImageServerProofs

-----------------------------------------------------------------------------
(* Places. *)

LEMMA QueuedIsPlaced ==
  ASSUME NEW S, NEW P, NEW w \in Seq(S), NEW r \in Seq(P), NEW p,
         Apart(w, r), p \notin Placed(w, r)
  PROVE  Apart(Append(w, p), r) /\ Placed(Append(w, p), r) = Placed(w, r) \cup {p}
<1>1. /\ Len(Append(w, p)) = Len(w) + 1 /\ Append(w, p)[Len(w) + 1] = p /\ Len(w) \in Nat
      /\ \A i \in 1..Len(w) : Append(w, p)[i] = w[i] /\ w[i] # p
      /\ \A i \in 1..Len(r) : r[i].packet # p
  BY DEF Placed
<1>2. Apart(Append(w, p), r)
  BY <1>1 DEF Apart
<1>3. Placed(Append(w, p), r) = Placed(w, r) \cup {p}
  BY <1>1 DEF Placed
<1> QED BY <1>2, <1>3

LEMMA HandledIsPlaced ==
  ASSUME NEW S, NEW P, NEW w \in Seq(S), NEW r \in Seq(P), NEW p, NEW e,
         Apart(w, r), p \notin Placed(w, r)
  PROVE  /\ Apart(w, Append(r, Finished(p, e)))
         /\ Placed(w, Append(r, Finished(p, e))) = Placed(w, r) \cup {p}
<1> DEFINE more == Append(r, Finished(p, e))
<1>1. /\ Len(more) = Len(r) + 1 /\ more[Len(r) + 1].packet = p /\ Len(r) \in Nat
      /\ \A i \in 1..Len(r) : more[i] = r[i] /\ r[i].packet # p
      /\ \A i \in 1..Len(w) : w[i] # p
  BY DEF Placed, Finished
<1> HIDE DEF more
<1>2. Apart(w, more)
  <2>1. ASSUME NEW i \in 1..Len(more), NEW j \in 1..Len(more), more[i].packet = more[j].packet
        PROVE  i = j
    <3>1. CASE i \in 1..Len(r) /\ j \in 1..Len(r)
      BY <1>1, <2>1, <3>1 DEF Apart
    <3>2. CASE ~(i \in 1..Len(r) /\ j \in 1..Len(r))
      BY <1>1, <2>1, <3>2
    <3> QED BY <3>1, <3>2
  <2>2. ASSUME NEW i \in 1..Len(w), NEW j \in 1..Len(more) PROVE w[i] # more[j].packet
    BY <1>1 DEF Apart
  <2>3. \A i, j \in 1..Len(w) : w[i] = w[j] => i = j
    BY DEF Apart
  <2> QED BY <2>1, <2>2, <2>3 DEF Apart
<1>3. Placed(w, more) = Placed(w, r) \cup {p}
  BY <1>1 DEF Placed
<1> QED BY <1>2, <1>3 DEF more

\* The handler that runs takes its packet out, and so does the reactor.
LEMMA HandlerRuns ==
  ASSUME NEW S, NEW P, NEW w \in Seq(S), NEW r \in Seq(P), r # <<>>, Apart(w, r)
  PROVE  /\ Apart(w, Tail(r))
         /\ Placed(w, Tail(r)) = Placed(w, r) \ {Head(r).packet}
         /\ Head(r).packet \in Placed(w, r)
<1>1. /\ Len(Tail(r)) = Len(r) - 1 /\ Len(r) \in Nat \ {0} /\ Head(r) = r[1]
      /\ \A i \in 1..Len(Tail(r)) : Tail(r)[i] = r[i + 1]
  OBVIOUS
<1>2. Apart(w, Tail(r))
  BY <1>1 DEF Apart
<1>3. ASSUME NEW i \in 2..Len(r) PROVE r[i] = Tail(r)[i - 1] /\ i - 1 \in 1..Len(Tail(r))
  BY <1>1
<1>4. Placed(w, Tail(r)) = Placed(w, r) \ {r[1].packet}
  <2>1. ASSUME NEW p \in Placed(w, Tail(r)) PROVE p \in Placed(w, r) /\ p # r[1].packet
    BY <1>1 DEF Placed, Apart
  <2>2. ASSUME NEW p \in Placed(w, r), p # r[1].packet PROVE p \in Placed(w, Tail(r))
    <3>1. CASE \E i \in 1..Len(w) : p = w[i]
      BY <3>1 DEF Placed
    <3>2. CASE \E i \in 1..Len(r) : p = r[i].packet
      <4>1. PICK i \in 2..Len(r) : p = r[i].packet
        BY <1>1, <2>2, <3>2
      <4> QED BY <1>3, <4>1 DEF Placed
    <3> QED BY <2>2, <3>1, <3>2 DEF Placed
  <2> QED BY <2>1, <2>2
<1>5. r[1].packet \in Placed(w, r)
  BY <1>1 DEF Placed
<1> QED BY <1>1, <1>2, <1>4, <1>5

LEMMA ReactorTakes ==
  ASSUME NEW S, NEW P, NEW w \in Seq(S), NEW r \in Seq(P), w # <<>>, Apart(w, r)
  PROVE  /\ Apart(Tail(w), r)
         /\ Placed(Tail(w), r) = Placed(w, r) \ {Head(w)}
         /\ Head(w) \in Placed(w, r)
<1>1. /\ Len(Tail(w)) = Len(w) - 1 /\ Len(w) \in Nat \ {0} /\ Head(w) = w[1]
      /\ \A i \in 1..Len(Tail(w)) : Tail(w)[i] = w[i + 1]
  OBVIOUS
<1>2. Apart(Tail(w), r)
  BY <1>1 DEF Apart
<1>3. ASSUME NEW i \in 2..Len(w) PROVE w[i] = Tail(w)[i - 1] /\ i - 1 \in 1..Len(Tail(w))
  BY <1>1
<1>4. Placed(Tail(w), r) = Placed(w, r) \ {w[1]}
  <2>1. ASSUME NEW p \in Placed(Tail(w), r) PROVE p \in Placed(w, r) /\ p # w[1]
    BY <1>1 DEF Placed, Apart
  <2>2. ASSUME NEW p \in Placed(w, r), p # w[1] PROVE p \in Placed(Tail(w), r)
    <3>1. CASE \E i \in 1..Len(r) : p = r[i].packet
      BY <3>1 DEF Placed
    <3>2. CASE \E i \in 1..Len(w) : p = w[i]
      <4>1. PICK i \in 2..Len(w) : p = w[i]
        BY <1>1, <2>2, <3>2
      <4> QED BY <1>3, <4>1 DEF Placed
    <3> QED BY <2>2, <3>1, <3>2 DEF Placed
  <2> QED BY <2>1, <2>2
<1>5. w[1] \in Placed(w, r)
  BY <1>1 DEF Placed
<1> QED BY <1>1, <1>2, <1>4, <1>5

\* ClearMyself moves what waits behind the handlers.
Behind(w, r, all) ==
  /\ Len(all) = Len(r) + Len(w)
  /\ \A i \in 1..Len(r) : all[i] = r[i]
  /\ \A i \in 1..Len(w) : all[Len(r) + i] = Finished(w[i], "other")

LEMMA AbortedBehind ==
  ASSUME NEW S, NEW P, NEW w \in Seq(S), NEW r \in Seq(P)
  PROVE  Behind(w, r, r \o [i \in 1..Len(w) |-> Finished(w[i], "other")])
<1> DEFINE aborted == [i \in 1..Len(w) |-> Finished(w[i], "other")]
           all == r \o aborted
           T == P \cup {aborted[i] : i \in 1..Len(w)}
<1>1. \A i \in 1..Len(w) : aborted[i] = Finished(w[i], "other")
  OBVIOUS
<1>2. aborted \in [1..Len(w) -> T] /\ Len(w) \in Nat /\ r \in Seq(T)
  OBVIOUS
<1> HIDE DEF aborted, T
<1>3. aborted \in Seq(T) /\ Len(aborted) = Len(w)
  BY <1>2
<1>4. /\ Len(all) = Len(r) + Len(w) /\ Len(r) \in Nat
      /\ \A i \in 1..Len(r) : all[i] = r[i]
      /\ \A i \in 1..Len(w) : all[Len(r) + i] = aborted[i]
  BY <1>2, <1>3, SMT
<1>5. \A i \in 1..Len(w) : all[Len(r) + i] = Finished(w[i], "other")
  BY <1>1, <1>4
<1> QED BY <1>4, <1>5 DEF aborted, Behind

LEMMA AbortedArePlaced ==
  ASSUME NEW S, NEW P, NEW w \in Seq(S), NEW r \in Seq(P), Apart(w, r),
         NEW all, Behind(w, r, all)
  PROVE  Apart(<<>>, all) /\ Placed(<<>>, all) = Placed(w, r)
<1>1. /\ Len(r) \in Nat /\ Len(w) \in Nat /\ Len(all) = Len(r) + Len(w)
      /\ \A i \in 1..Len(r) : all[i] = r[i]
      /\ \A i \in 1..Len(w) : all[Len(r) + i].packet = w[i]
  <2>1. \A i \in 1..Len(w) : Finished(w[i], "other").packet = w[i]
    BY DEF Finished
  <2> QED BY <2>1 DEF Behind
<1>2. ASSUME NEW i \in 1..Len(all)
      PROVE  \/ i \in 1..Len(r)
             \/ i - Len(r) \in 1..Len(w) /\ all[i].packet = w[i - Len(r)]
  <2>1. CASE i > Len(r)
    <3>1. i - Len(r) \in 1..Len(w) /\ Len(r) + (i - Len(r)) = i
      BY <1>1, <2>1
    <3> QED BY <1>1, <3>1
  <2> QED BY <1>1, <2>1
<1>3. Apart(<<>>, all)
  <2>1. ASSUME NEW i \in 1..Len(all), NEW j \in 1..Len(all), all[i].packet = all[j].packet
        PROVE  i = j
    <3>1. CASE i \in 1..Len(r) /\ j \in 1..Len(r)
      BY <1>1, <2>1, <3>1 DEF Apart
    <3>2. CASE i \in 1..Len(r) /\ j \notin 1..Len(r)
      BY <1>1, <1>2, <2>1, <3>2 DEF Apart
    <3>3. CASE i \notin 1..Len(r) /\ j \in 1..Len(r)
      BY <1>1, <1>2, <2>1, <3>3 DEF Apart
    <3>4. CASE i \notin 1..Len(r) /\ j \notin 1..Len(r)
      <4>1. i - Len(r) = j - Len(r)
        BY <1>2, <2>1, <3>4 DEF Apart
      <4> QED BY <1>1, <4>1
    <3> QED BY <3>1, <3>2, <3>3, <3>4
  <2> QED BY <2>1 DEF Apart
<1>4. Placed(<<>>, all) = Placed(w, r)
  <2>1. ASSUME NEW p \in Placed(<<>>, all) PROVE p \in Placed(w, r)
    <3>1. PICK i \in 1..Len(all) : p = all[i].packet
      BY <2>1 DEF Placed
    <3> QED BY <1>1, <1>2, <3>1 DEF Placed
  <2>2. ASSUME NEW p \in Placed(w, r) PROVE p \in Placed(<<>>, all)
    <3>1. CASE \E i \in 1..Len(w) : p = w[i]
      <4>1. PICK i \in 1..Len(w) : p = w[i]
        BY <3>1
      <4>2. Len(r) + i \in 1..Len(all) /\ all[Len(r) + i].packet = p
        BY <1>1, <4>1
      <4> QED BY <4>2 DEF Placed
    <3>2. CASE \E i \in 1..Len(r) : p = r[i].packet
      <4>1. PICK i \in 1..Len(r) : p = r[i].packet
        BY <3>2
      <4>2. i \in 1..Len(all) /\ all[i].packet = p
        BY <1>1, <4>1
      <4> QED BY <4>2 DEF Placed
    <3> QED BY <2>2, <3>1, <3>2 DEF Placed
  <2> QED BY <2>1, <2>2
<1> QED BY <1>3, <1>4

\* A piece that is started puts its packet in one place.
LEMMA StartPiecePlaces ==
  ASSUME NEW S, NEW P, waiting \in Seq(S), NEW handlers \in Seq(P),
         NEW p, NEW remaining, NEW returned,
         Apart(waiting, handlers), p \notin Placed(waiting, handlers),
         StartPiece(p, remaining, returned, handlers)
  PROVE  Apart(waiting', ready') /\ Placed(waiting', ready') = Placed(waiting, handlers) \cup {p}
<1>1. CASE UNCHANGED waiting /\ \E e \in {"ok", "lost", "other"} : ready' = Append(handlers, Finished(p, e))
  <2>1. PICK e \in {"ok", "lost", "other"} : ready' = Append(handlers, Finished(p, e))
    BY <1>1
  <2> QED BY <1>1, <2>1, HandledIsPlaced
<1>2. CASE waiting' = Append(waiting, p) /\ ready' = handlers
  BY <1>2, QueuedIsPlaced
<1>3. \/ UNCHANGED waiting /\ \E e \in {"ok", "lost", "other"} : ready' = Append(handlers, Finished(p, e))
      \/ waiting' = Append(waiting, p) /\ ready' = handlers
  BY Zenon DEF StartPiece
<1> QED BY <1>1, <1>2, <1>3

\* What every step of the writer does to the places.
Writes == Writable \/ PieceHandler \/ ClientReceives \/ ClientLeaves

LEMMA PlacesInit == Init => OnePlace
  BY DEF Init, WriterInit, OnePlace, Apart, Placed, Packets

LEMMA SendPlaces ==
  ASSUME WriterInv, OnePlace, NEW size \in Sizes, SendDataPacket(size)
  PROVE  OnePlace'
<1> DEFINE p == Len(packet) + 1
<1>1. /\ waiting \in Seq(Packets) /\ ready \in Seq(Piece)
      /\ Len(packet) \in Nat /\ Packets = 1..Len(packet) /\ Packets' = Packets \cup {p}
  BY DEF WriterInv, WriterTypeOK, SendDataPacket, Packets
<1>2. result' = Append(result, "none") /\ StartPiece(p, size, FALSE, ready)
  BY DEF SendDataPacket
<1>3. result'[p] = "none" /\ \A q \in Packets : result'[q] = result[q]
  <2> DEFINE Ec == {"none", "ok", "lost", "other"}
  <2>1. result \in [1..Len(packet) -> Ec] /\ Len(packet) \in Nat
    BY <1>1 DEF WriterInv, WriterTypeOK
  <2>2. result \in Seq(Ec) /\ Len(result) = Len(packet)
    BY <2>1
  <2>3. result' = Append(result, "none") /\ "none" \in Ec
    BY <1>2
  <2> HIDE DEF Ec
  <2>4. result'[Len(result) + 1] = "none" /\ \A q \in 1..Len(result) : result'[q] = result[q]
    BY <2>2, <2>3
  <2> QED BY <1>1, <2>2, <2>4
<1>4. p \notin Placed(waiting, ready)
  BY <1>1 DEF OnePlace
<1> HIDE DEF p
<1>5. Apart(waiting', ready') /\ Placed(waiting', ready') = Placed(waiting, ready) \cup {p}
  BY <1>1, <1>2, <1>4, StartPiecePlaces DEF OnePlace
<1> QED BY <1>1, <1>3, <1>5 DEF OnePlace

LEMMA WritesPlaces == ASSUME WriterInv, OnePlace, Writes PROVE OnePlace'
<1>1. /\ waiting \in Seq(Packets) /\ ready \in Seq(Piece) /\ <<>> \in Seq(Packets)
      /\ result \in [Packets -> {"none", "ok", "lost", "other"}]
  BY DEF WriterInv, WriterTypeOK
<1>2. UNCHANGED packet => Packets' = Packets
  BY DEF Packets
<1>3. CASE Writable
  <2>1. /\ waiting # <<>> /\ waiting' = Tail(waiting) /\ UNCHANGED <<packet, result>>
        /\ \E e \in {"ok", "lost", "other"} : ready' = Append(ready, Finished(Head(waiting), e))
    BY <1>3, Zenon DEF Writable
  <2>2. /\ Apart(Tail(waiting), ready) /\ Tail(waiting) \in Seq(Packets)
        /\ Placed(Tail(waiting), ready) = Placed(waiting, ready) \ {Head(waiting)}
        /\ Head(waiting) \in Placed(waiting, ready)
    BY <1>1, <2>1, ReactorTakes DEF OnePlace
  <2>3. PICK e \in {"ok", "lost", "other"} : ready' = Append(ready, Finished(Head(waiting), e))
    BY <2>1
  <2>5. Head(waiting) \notin Placed(Tail(waiting), ready)
    BY <2>2
  <2>4. /\ Apart(waiting', ready')
        /\ Placed(waiting', ready') = Placed(Tail(waiting), ready) \cup {Head(waiting)}
    <3> DEFINE w == Tail(waiting)
               p == Head(waiting)
    <3>1. w \in Seq(Packets) /\ Apart(w, ready) /\ p \notin Placed(w, ready)
          /\ waiting' = w /\ ready' = Append(ready, Finished(p, e))
      BY <2>1, <2>2, <2>3, <2>5
    <3> HIDE DEF w, p
    <3>2. Apart(waiting', ready') /\ Placed(waiting', ready') = Placed(w, ready) \cup {p}
      BY <1>1, <3>1, HandledIsPlaced
    <3> QED BY <3>2 DEF w, p
  <2> QED BY <1>2, <2>1, <2>2, <2>4 DEF OnePlace
<1>4. ASSUME ready # <<>>
      PROVE  /\ Apart(waiting, Tail(ready)) /\ Tail(ready) \in Seq(Piece)
             /\ Placed(waiting, Tail(ready)) = Placed(waiting, ready) \ {Head(ready).packet}
             /\ Head(ready).packet \in Packets /\ result[Head(ready).packet] = "none"
  BY <1>1, <1>4, HandlerRuns DEF OnePlace
<1>5. ASSUME UNCHANGED packet, ready # <<>>, NEW e \in {"ok", "lost", "other"},
             result' = [result EXCEPT ![Head(ready).packet] = e],
             Apart(waiting', ready'), Placed(waiting', ready') = Placed(waiting, Tail(ready))
      PROVE  OnePlace'
  BY <1>1, <1>2, <1>4, <1>5 DEF OnePlace
<1>6. CASE PieceOk
  <2> DEFINE p == Head(ready).packet
  <2>1. ready # <<>> /\ UNCHANGED packet
    BY <1>6, Zenon DEF PieceOk, PieceDone
  <2>2. CASE UNCHANGED result /\ StartPiece(p, left[p], TRUE, Tail(ready))
    <3>1. p \notin Placed(waiting, Tail(ready))
      BY <1>4, <2>1
    <3> HIDE DEF p
    <3>2. /\ Apart(waiting', ready')
          /\ Placed(waiting', ready') = Placed(waiting, Tail(ready)) \cup {p}
      BY <1>1, <1>4, <2>1, <2>2, <3>1, StartPiecePlaces
    <3> QED BY <1>2, <1>4, <2>1, <2>2, <3>2 DEF OnePlace, p
  <2>3. CASE ready' = Tail(ready) /\ result' = [result EXCEPT ![p] = "ok"] /\ UNCHANGED waiting
    BY <1>4, <1>5, <2>1, <2>3
  <2> QED BY <1>6, <2>2, <2>3, Zenon DEF PieceOk, kernel
<1>7. CASE PieceError
  <2>1. /\ ready # <<>> /\ UNCHANGED <<packet, waiting>> /\ ready' = Tail(ready)
        /\ result' = [result EXCEPT ![Head(ready).packet] = "other"]
    BY <1>7, Zenon DEF PieceError, PieceDone, kernel
  <2> QED BY <1>4, <1>5, <2>1
<1>8. CASE PieceLost
  <2>1. /\ ready # <<>> /\ UNCHANGED packet /\ waiting' = <<>>
        /\ ready' = Tail(ready) \o [i \in 1..Len(waiting) |-> Finished(waiting[i], "other")]
        /\ result' = [result EXCEPT ![Head(ready).packet] = "lost"]
    BY <1>8, Zenon DEF PieceLost, PieceDone, ClearMyself
  <2>2. Apart(waiting', ready') /\ Placed(waiting', ready') = Placed(waiting, Tail(ready))
    <3>1. Tail(ready) \in Seq(Piece) /\ Apart(waiting, Tail(ready))
      BY <1>4, <2>1
    <3>2. Behind(waiting, Tail(ready), ready')
      BY <1>1, <2>1, <3>1, AbortedBehind, Zenon
    <3>3. Apart(<<>>, ready') /\ Placed(<<>>, ready') = Placed(waiting, Tail(ready))
      <4> DEFINE r == Tail(ready)
      <4>1. r \in Seq(Piece) /\ Apart(waiting, r) /\ Behind(waiting, r, ready')
        BY <3>1, <3>2
      <4> HIDE DEF r
      <4>2. Apart(<<>>, ready') /\ Placed(<<>>, ready') = Placed(waiting, r)
        BY <1>1, <4>1, AbortedArePlaced
      <4> QED BY <4>2 DEF r
    <3> QED BY <2>1, <3>3
  <2> QED BY <1>5, <2>1, <2>2
<1>9. CASE ClientReceives \/ ClientLeaves
  <2>1. UNCHANGED <<packet, waiting, ready, result>>
    BY <1>9, Zenon DEF ClientReceives, ClientLeaves, kernel
  <2> QED BY <1>2, <2>1 DEF OnePlace
<1> QED BY <1>3, <1>6, <1>7, <1>8, <1>9 DEF Writes, PieceHandler

-----------------------------------------------------------------------------
(* Units. *)

\* The units of p in s are the first n, in order.
Cut(s, p, n) ==
  LET units == {i \in 1..Len(s) : s[i].packet = p} IN
  /\ {s[i].unit : i \in units} = 1..n
  /\ \A i, j \in units : i < j => s[i].unit < s[j].unit

\* k more units of p behind s.
More(s, t, p, n, k) ==
  /\ Len(t) = Len(s) + k
  /\ \A i \in 1..Len(s) : t[i] = s[i]
  /\ \A i \in 1..k : t[Len(s) + i].packet = p /\ t[Len(s) + i].unit = n + i

LEMMA NewUnits ==
  ASSUME NEW U, NEW s \in Seq(U), NEW p, NEW n \in Nat, NEW k \in Nat, NEW b
  PROVE  More(s, s \o [i \in 1..k |-> [packet |-> p, unit |-> n + i, intact |-> b]], p, n, k)
<1> DEFINE new == [i \in 1..k |-> [packet |-> p, unit |-> n + i, intact |-> b]]
           T == U \cup [packet : {p}, unit : Nat, intact : {b}]
<1>1. \A i \in 1..k : new[i].packet = p /\ new[i].unit = n + i
  OBVIOUS
<1>2. new \in [1..k -> T] /\ s \in Seq(T)
  <2>1. new \in [1..k -> [packet : {p}, unit : Nat, intact : {b}]]
    OBVIOUS
  <2> HIDE DEF new
  <2> QED BY <2>1
<1> HIDE DEF new, T
<1>3. new \in Seq(T) /\ Len(new) = k
  BY <1>2
<1>4. /\ Len(s \o new) = Len(s) + k
      /\ \A i \in 1..Len(s) : (s \o new)[i] = s[i]
      /\ \A i \in 1..k : (s \o new)[Len(s) + i] = new[i]
  BY <1>2, <1>3, SMT
<1> QED BY <1>1, <1>4 DEF More, new

\* They make the first n units of p the first n + k, and are none of q.
LEMMA CutGrows ==
  ASSUME NEW U, NEW s \in Seq(U), NEW p, NEW n \in Nat, NEW k \in Nat,
         NEW t, More(s, t, p, n, k)
  PROVE  /\ Cut(s, p, n) => Cut(t, p, n + k)
         /\ \A q, m : q # p /\ Cut(s, q, m) => Cut(t, q, m)
<1>1. /\ Len(s) \in Nat /\ Len(t) = Len(s) + k
      /\ \A i \in 1..Len(s) : t[i] = s[i]
      /\ \A i \in 1..k : t[Len(s) + i].packet = p /\ t[Len(s) + i].unit = n + i
  BY DEF More
<1>2. ASSUME NEW i \in 1..Len(t), i \notin 1..Len(s)
      PROVE  i > Len(s) /\ t[i].packet = p /\ t[i].unit = n + (i - Len(s)) /\ i - Len(s) \in 1..k
  <2>1. i - Len(s) \in 1..k /\ Len(s) + (i - Len(s)) = i
    BY <1>1, <1>2
  <2> QED BY <1>1, <2>1
<1>3. ASSUME Cut(s, p, n) PROVE Cut(t, p, n + k)
  <2> DEFINE old == {i \in 1..Len(s) : s[i].packet = p}
             units == {i \in 1..Len(t) : t[i].packet = p}
  <2>1. {s[i].unit : i \in old} = 1..n /\ \A i, j \in old : i < j => s[i].unit < s[j].unit
    BY <1>3, Zenon DEF Cut
  <2>2. ASSUME NEW i \in units, i \in 1..Len(s) PROVE i \in old /\ t[i].unit = s[i].unit /\ s[i].unit \in 1..n
    BY <1>1, <2>1, <2>2
  <2>3. ASSUME NEW i \in units PROVE t[i].unit \in 1..(n + k)
    <3>1. CASE i \in 1..Len(s)
      <4>1. t[i].unit \in 1..n
        BY <2>2, <3>1
      <4> QED BY <4>1
    <3>2. CASE i \notin 1..Len(s)
      <4>1. i - Len(s) \in 1..k /\ t[i].unit = n + (i - Len(s))
        BY <1>2, <3>2
      <4> QED BY <4>1
    <3> QED BY <3>1, <3>2
  <2>4. ASSUME NEW u \in 1..(n + k) PROVE \E i \in units : t[i].unit = u
    <3>1. CASE u \in 1..n
      <4>1. PICK i \in old : s[i].unit = u
        BY <2>1, <3>1
      <4> QED BY <1>1, <4>1
    <3>2. CASE u \notin 1..n
      <4>1. u - n \in 1..k /\ n + (u - n) = u
        BY <3>2
      <4> DEFINE i == Len(s) + (u - n)
      <4>2. t[i].packet = p /\ t[i].unit = n + (u - n)
        BY <1>1, <4>1, Zenon
      <4>3. i \in 1..Len(t)
        BY <1>1, <4>1
      <4> HIDE DEF i
      <4> QED BY <4>1, <4>2, <4>3
    <3> QED BY <3>1, <3>2
  <2>5. ASSUME NEW i \in units, NEW j \in units, i < j PROVE t[i].unit < t[j].unit
    <3>1. CASE j \in 1..Len(s)
      <4>1. i \in 1..Len(s)
        BY <1>1, <2>5, <3>1
      <4> QED BY <2>1, <2>2, <2>5, <3>1, <4>1
    <3>2. CASE i \in 1..Len(s) /\ j \notin 1..Len(s)
      BY <1>2, <2>2, <3>2
    <3>3. CASE i \notin 1..Len(s) /\ j \notin 1..Len(s)
      BY <1>1, <1>2, <2>5, <3>3
    <3> QED BY <3>1, <3>2, <3>3
  <2>6. {t[i].unit : i \in units} = 1..(n + k)
    BY <2>3, <2>4, Zenon
  <2> QED BY <2>5, <2>6, Zenon DEF Cut
<1>4. ASSUME NEW q, NEW m, q # p, Cut(s, q, m) PROVE Cut(t, q, m)
  <2>1. {i \in 1..Len(t) : t[i].packet = q} = {i \in 1..Len(s) : s[i].packet = q}
    <3>1. ASSUME NEW i \in 1..Len(t), t[i].packet = q PROVE i \in 1..Len(s) /\ s[i].packet = q
      BY <1>1, <1>2, <1>4, <3>1
    <3>2. ASSUME NEW i \in 1..Len(s), s[i].packet = q PROVE i \in 1..Len(t) /\ t[i].packet = q
      BY <1>1, <3>2
    <3> QED BY <3>1, <3>2
  <2>2. \A i \in {j \in 1..Len(s) : s[j].packet = q} : t[i].unit = s[i].unit
    BY <1>1
  <2> DEFINE old == {i \in 1..Len(s) : s[i].packet = q}
  <2>3. {s[i].unit : i \in old} = 1..m /\ \A i, j \in old : i < j => s[i].unit < s[j].unit
    BY <1>4, Zenon DEF Cut
  <2>4. {i \in 1..Len(t) : t[i].packet = q} = old /\ \A i \in old : t[i].unit = s[i].unit
    BY <2>1, <2>2
  <2> HIDE DEF old
  <2>5. {t[i].unit : i \in old} = 1..m /\ \A i, j \in old : i < j => t[i].unit < t[j].unit
    BY <2>3, <2>4
  <2> QED BY <2>4, <2>5, Zenon DEF Cut
<1> QED BY <1>3, <1>4

\* The kernel takes some of what remains of p, behind what it has taken.
LEMMA TakeIsMore ==
  ASSUME WriterInv, packet' \in Seq(Sizes), NEW p \in 1..Len(packet'),
         NEW remaining \in Nat, remaining <= packet'[p], NEW returned \in BOOLEAN,
         Take(p, remaining, returned)
  PROVE  \E k \in Nat :
           /\ k <= remaining /\ (remaining > 0 => k > 0) /\ k <= Free
           /\ More(stream, stream', p, packet'[p] - remaining, k)
           /\ left' = [q \in 1..Len(packet') |-> IF q = p THEN remaining - k ELSE left[q]]
<1> DEFINE piece == Least(remaining, Chunk)
           k == Least(piece, Free)
           before == packet'[p] - remaining
<1>1. Free \in Int /\ Free > 0
  BY WriterAssumption DEF Take, Free, WriterInv, WriterTypeOK
<1>2. piece \in Nat /\ piece <= remaining /\ (remaining > 0 => piece > 0)
  BY WriterAssumption DEF Least
<1>3. packet'[p] \in Nat
  <2>1. packet'[p] \in Sizes
    OBVIOUS
  <2> QED BY <2>1, WriterAssumption
<1>4. before \in Nat
  BY <1>3
<1>5. PICK intact :
        stream' = stream \o [i \in 1..k |-> [packet |-> p, unit |-> before + i, intact |-> intact]]
  BY Zenon DEF Take
<1>6. left' = [q \in 1..Len(packet') |-> IF q = p THEN remaining - k ELSE left[q]]
  BY DEF Take
<1> HIDE DEF piece
<1>7. k \in Nat /\ k <= remaining /\ (remaining > 0 => k > 0) /\ k <= Free
  BY <1>1, <1>2 DEF Least
<1>8. stream \in Seq(Unit)
  BY DEF WriterInv, WriterTypeOK
<1> HIDE DEF k, before
<1>9. More(stream, stream', p, before, k)
  BY <1>4, <1>5, <1>7, <1>8, NewUnits, Zenon
<1> QED BY <1>6, <1>7, <1>9 DEF before

AllCut ==
  \A p \in Packets : Cut(stream, p, packet[p] - left[p]) /\ (result[p] = "ok" => left[p] = 0)

LEMMA AllCutIsOrder == (UnitsInOrder <=> AllCut) /\ (UnitsInOrder' <=> AllCut')
  BY Zenon DEF UnitsInOrder, UnitsOf, AllCut, Cut

LEMMA StartedIsTaken ==
  ASSUME NEW p, NEW remaining, NEW returned, NEW handlers,
         StartPiece(p, remaining, returned, handlers)
  PROVE  Take(p, remaining, returned) \/ (KeepLeft(p, remaining) /\ UNCHANGED stream)
  BY DEF StartPiece

\* A piece that is started goes on where the packet was left.
LEMMA PieceCuts ==
  ASSUME WriterInv, packet' \in Seq(Sizes), NEW p \in 1..Len(packet'),
         NEW remaining \in Nat, remaining <= packet'[p], NEW returned \in BOOLEAN,
         Take(p, remaining, returned) \/ (KeepLeft(p, remaining) /\ UNCHANGED stream),
         Cut(stream, p, packet'[p] - remaining)
  PROVE  /\ Cut(stream', p, packet'[p] - left'[p])
         /\ \A q \in 1..Len(packet') : q # p => left'[q] = left[q]
         /\ \A q, m : q # p /\ Cut(stream, q, m) => Cut(stream', q, m)
<1>1. CASE Take(p, remaining, returned)
  <2>1. PICK k \in Nat :
          /\ k <= remaining
          /\ More(stream, stream', p, packet'[p] - remaining, k)
          /\ left' = [q \in 1..Len(packet') |-> IF q = p THEN remaining - k ELSE left[q]]
    BY <1>1, TakeIsMore
  <2>2. stream \in Seq(Unit)
    BY DEF WriterInv, WriterTypeOK
  <2>3. packet'[p] \in Nat
    <3>1. packet'[p] \in Sizes
      OBVIOUS
    <3> QED BY <3>1, WriterAssumption
  <2>4. packet'[p] - remaining \in Nat
    BY <2>3
  <2> DEFINE n == packet'[p] - remaining
  <2>5. n + k = packet'[p] - left'[p]
    BY <2>1, <2>3
  <2>6. Cut(stream', p, n + k) /\ \A q, m : q # p /\ Cut(stream, q, m) => Cut(stream', q, m)
    <3>1. n \in Nat /\ More(stream, stream', p, n, k) /\ Cut(stream, p, n)
      BY <2>1, <2>4
    <3> HIDE DEF n
    <3> QED BY <2>2, <3>1, CutGrows
  <2> HIDE DEF n
  <2> QED BY <2>1, <2>5, <2>6
<1>2. CASE KeepLeft(p, remaining) /\ UNCHANGED stream
  BY <1>2 DEF KeepLeft
<1> QED BY <1>1, <1>2

LEMMA CutsInit == Init => UnitsInOrder
  BY DEF Init, WriterInit, UnitsInOrder, UnitsOf, Packets

LEMMA SendCuts ==
  ASSUME WriterInv, UnitsInOrder, NEW size \in Sizes, SendDataPacket(size)
  PROVE  UnitsInOrder'
<1> DEFINE p == Len(packet) + 1
           Ec == {"none", "ok", "lost", "other"}
<1>1. packet \in Seq(Sizes) /\ Len(packet) \in Nat /\ Packets = 1..Len(packet) /\ size \in Nat
  BY WriterAssumption DEF WriterInv, WriterTypeOK, Packets
<1>2. /\ packet' = Append(packet, size) /\ result' = Append(result, "none")
      /\ Take(p, size, FALSE) \/ (KeepLeft(p, size) /\ UNCHANGED stream)
  BY StartedIsTaken, Zenon DEF SendDataPacket
<1>3. /\ packet' \in Seq(Sizes) /\ Len(packet') = p /\ packet'[p] = size
      /\ \A q \in Packets : packet'[q] = packet[q]
  BY <1>1, <1>2
<1>4. result'[p] = "none" /\ \A q \in Packets : result'[q] = result[q]
  <2>1. result \in [1..Len(packet) -> Ec] /\ Len(packet) \in Nat
    BY <1>1 DEF WriterInv, WriterTypeOK
  <2>2. result \in Seq(Ec) /\ Len(result) = Len(packet)
    BY <2>1
  <2>3. result' = Append(result, "none") /\ "none" \in Ec
    BY <1>2
  <2> HIDE DEF Ec
  <2>4. result'[Len(result) + 1] = "none" /\ \A q \in 1..Len(result) : result'[q] = result[q]
    BY <2>2, <2>3
  <2> QED BY <1>1, <2>2, <2>4
<1>5. Cut(stream, p, packet'[p] - size)
  <2>1. \A i \in 1..Len(stream) : stream[i].packet # p
    <3>1. stream \in Seq(Unit)
      BY DEF WriterInv, WriterTypeOK
    <3>2. \A i \in 1..Len(stream) : stream[i] \in Unit
      BY <3>1
    <3> QED BY <1>1, <3>2 DEF Unit
  <2>2. packet'[p] - size = 0
    BY <1>1, <1>3
  <2> HIDE DEF p
  <2> QED BY <2>1, <2>2 DEF Cut
<1>6. p \in 1..Len(packet') /\ Packets' = Packets \cup {p} /\ p \notin Packets /\ size <= packet'[p]
  BY <1>1, <1>3 DEF Packets
<1>7. FALSE \in BOOLEAN
  OBVIOUS
<1> HIDE DEF p
<1>8. /\ Cut(stream', p, packet'[p] - left'[p])
      /\ \A q \in 1..Len(packet') : q # p => left'[q] = left[q]
      /\ \A q, m : q # p /\ Cut(stream, q, m) => Cut(stream', q, m)
  BY <1>1, <1>2, <1>3, <1>5, <1>6, <1>7, PieceCuts
<1>9. \A q \in Packets : Cut(stream, q, packet[q] - left[q]) /\ (result[q] = "ok" => left[q] = 0)
  BY AllCutIsOrder DEF AllCut
<1>10. \A q \in Packets' :
         Cut(stream', q, packet'[q] - left'[q]) /\ (result'[q] = "ok" => left'[q] = 0)
  <2> SUFFICES ASSUME NEW q \in Packets'
               PROVE  Cut(stream', q, packet'[q] - left'[q]) /\ (result'[q] = "ok" => left'[q] = 0)
    OBVIOUS
  <2>1. CASE q = p
    BY <1>4, <1>8, <2>1
  <2>2. CASE q # p
    <3>1. q \in Packets /\ q \in 1..Len(packet')
      BY <1>6, <2>2 DEF Packets
    <3> QED BY <1>3, <1>4, <1>8, <1>9, <2>2, <3>1
  <2> QED BY <2>1, <2>2
<1> QED BY <1>10, AllCutIsOrder DEF AllCut

LEMMA WritesCuts ==
  ASSUME WriterInv, OnePlace, UnitsInOrder, Writes
  PROVE  UnitsInOrder'
<1>1. /\ packet \in Seq(Sizes) /\ Packets = 1..Len(packet)
      /\ waiting \in Seq(Packets) /\ ready \in Seq(Piece)
      /\ left \in [Packets -> Nat] /\ result \in [Packets -> {"none", "ok", "lost", "other"}]
      /\ \A q \in Packets : left[q] <= packet[q]
  BY DEF WriterInv, WriterTypeOK, LeftFits, Packets
<1>2. \A q \in Packets : Cut(stream, q, packet[q] - left[q]) /\ (result[q] = "ok" => left[q] = 0)
  BY AllCutIsOrder DEF AllCut
<1>3. UNCHANGED packet /\ Packets' = Packets
  BY DEF Writes, Writable, PieceHandler, PieceOk, PieceError, PieceLost, ClientReceives,
         ClientLeaves, Packets
<1>4. SUFFICES \A q \in Packets :
                 Cut(stream', q, packet[q] - left'[q]) /\ (result'[q] = "ok" => left'[q] = 0)
  BY <1>3, AllCutIsOrder DEF AllCut
\* What starts a piece of a packet that has not finished.
<1>5. ASSUME NEW p \in Packets, result[p] = "none", UNCHANGED result,
             \/ Take(p, left[p], TRUE)
             \/ (KeepLeft(p, left[p]) /\ UNCHANGED stream)
      PROVE  \A q \in Packets :
               Cut(stream', q, packet[q] - left'[q]) /\ (result'[q] = "ok" => left'[q] = 0)
  <2>1. /\ Cut(stream', p, packet'[p] - left'[p])
        /\ \A q \in 1..Len(packet') : q # p => left'[q] = left[q]
        /\ \A q, m : q # p /\ Cut(stream, q, m) => Cut(stream', q, m)
    <3>1. /\ packet' \in Seq(Sizes) /\ p \in 1..Len(packet') /\ left[p] \in Nat
          /\ left[p] <= packet'[p] /\ TRUE \in BOOLEAN /\ Cut(stream, p, packet'[p] - left[p])
      BY <1>1, <1>2, <1>3
    <3>2. Take(p, left[p], TRUE) \/ (KeepLeft(p, left[p]) /\ UNCHANGED stream)
      BY <1>5
    <3> QED BY <3>1, <3>2, PieceCuts, Zenon
  <2> SUFFICES ASSUME NEW q \in Packets
               PROVE  Cut(stream', q, packet[q] - left'[q]) /\ (result'[q] = "ok" => left'[q] = 0)
    OBVIOUS
  <2>2. CASE q = p
    BY <1>3, <1>5, <2>1, <2>2
  <2>3. CASE q # p
    BY <1>1, <1>2, <1>3, <1>5, <2>1, <2>3
  <2> QED BY <2>2, <2>3
\* What only ends one.
<1>6. ASSUME UNCHANGED <<stream, left>>,
             \/ UNCHANGED result
             \/ /\ ready # <<>>
                /\ \E e \in {"ok", "lost", "other"} :
                     /\ result' = [result EXCEPT ![Head(ready).packet] = e]
                     /\ e = "ok" => left[Head(ready).packet] = 0
      PROVE  \A q \in Packets :
               Cut(stream', q, packet[q] - left'[q]) /\ (result'[q] = "ok" => left'[q] = 0)
  BY <1>1, <1>2, <1>6
<1>7. CASE Writable
  <2> DEFINE p == Head(waiting)
  <2>1. /\ waiting # <<>> /\ UNCHANGED result
        /\ Take(p, left[p], TRUE) \/ UNCHANGED <<exhausted, stream, left>>
    BY <1>7, Zenon DEF Writable
  <2>2. p \in Packets /\ p \in Placed(waiting, ready)
    BY <1>1, <2>1, ReactorTakes DEF OnePlace
  <2>3. result[p] = "none"
    BY <2>2 DEF OnePlace
  <2> HIDE DEF p
  <2> QED BY <1>5, <1>6, <2>1, <2>2, <2>3
<1>8. CASE PieceOk
  <2> DEFINE p == Head(ready).packet
  <2>1. ready # <<>> /\ p \in Packets
    <3>1. ready # <<>>
      BY <1>8 DEF PieceOk, PieceDone
    <3>2. Head(ready) \in Piece
      BY <1>1, <3>1
    <3> QED BY <3>1, <3>2 DEF Piece
  <2>2. CASE left[p] > 0
    <3>1. UNCHANGED result /\ StartPiece(p, left[p], TRUE, Tail(ready))
      BY <1>8, <2>2, Zenon DEF PieceOk
    <3>2. result[p] = "none"
      BY <1>1, <2>1, HandlerRuns DEF OnePlace
    <3>3. Take(p, left[p], TRUE) \/ (KeepLeft(p, left[p]) /\ UNCHANGED stream)
      BY <3>1, StartedIsTaken, Zenon
    <3> HIDE DEF p
    <3> QED BY <1>5, <2>1, <3>1, <3>2, <3>3
  <2>3. CASE ~(left[p] > 0)
    <3>1. result' = [result EXCEPT ![p] = "ok"] /\ UNCHANGED kernel
      BY <1>8, <2>3, Zenon DEF PieceOk
    <3>2. left[p] = 0
      BY <1>1, <2>1, <2>3
    <3> QED BY <1>6, <2>1, <3>1, <3>2 DEF kernel
  <2> QED BY <2>2, <2>3
<1>9. CASE PieceError
  BY <1>6, <1>9 DEF PieceError, PieceDone, kernel
<1>10. CASE PieceLost
  BY <1>6, <1>10 DEF PieceLost, PieceDone
<1>11. CASE ClientReceives \/ ClientLeaves
  BY <1>6, <1>11 DEF ClientReceives, ClientLeaves, kernel
<1> QED BY <1>7, <1>8, <1>9, <1>10, <1>11 DEF Writes, PieceHandler

-----------------------------------------------------------------------------
(* Beginnings. *)

Unbegun == {p \in Packets : left[p] = packet[p]}

\* What is written has begun.
Underway(r) == \A i \in 1..Len(r) : r[i].ec = "ok" => r[i].packet \notin Unbegun

LEMMA AppendsOne ==
  ASSUME NEW P, NEW r \in Seq(P), NEW x
  PROVE  /\ Len(Append(r, x)) = Len(r) + 1 /\ Len(r) \in Nat /\ Append(r, x)[Len(r) + 1] = x
         /\ \A i \in 1..Len(r) : Append(r, x)[i] = r[i]
  OBVIOUS

\* Those that wait to begin do so in the order of the calls, and before any later one.
InLine ==
  /\ \A i \in 1..Len(waiting) : left[waiting[i]] > 0
  /\ \A i \in 1..Len(waiting), q \in Packets :
       waiting[i] \in Unbegun /\ q > waiting[i] => q \in Unbegun
  /\ \A i, j \in 1..Len(waiting) :
       i < j /\ waiting[i] \in Unbegun /\ waiting[j] \in Unbegun => waiting[i] < waiting[j]

LEMMA WrittenHasBegun ==
  ASSUME WriterInv, UnitsInOrder, NEW j \in 1..Len(stream)
  PROVE  stream[j].packet \in Packets \ Unbegun
<1> DEFINE q == stream[j].packet
<1>1. q \in Packets
  <2>1. stream[j] \in Unit
    BY DEF WriterInv, WriterTypeOK
  <2> QED BY <2>1 DEF Unit
<1>2. stream[j].unit \in 1..(packet[q] - left[q])
  BY <1>1 DEF UnitsInOrder, UnitsOf
<1>3. packet[q] # left[q]
  <2>1. packet[q] \in Sizes /\ left[q] \in Nat
    BY <1>1 DEF WriterInv, WriterTypeOK, Packets
  <2> QED BY <1>2, <2>1, WriterAssumption
<1> QED BY <1>1, <1>3 DEF Unbegun

\* Units of p may follow if they do not begin it, or if no later packet has begun.
LEMMA MoreBegin ==
  ASSUME WriterInv, UnitsInOrder, BeginInOrder, NEW p \in Nat, NEW n \in Nat, NEW k \in Nat,
         More(stream, stream', p, n, k),
         n > 0 \/ \A q \in Packets : q > p => q \in Unbegun
  PROVE  BeginInOrder'
<1>1. /\ Len(stream) \in Nat /\ Len(stream') = Len(stream) + k
      /\ \A i \in 1..Len(stream) : stream'[i] = stream[i]
      /\ \A i \in 1..k : stream'[Len(stream) + i].packet = p /\ stream'[Len(stream) + i].unit = n + i
  BY DEF More, WriterInv, WriterTypeOK
<1>2. ASSUME NEW i \in 1..Len(stream'), i \notin 1..Len(stream)
      PROVE  i > Len(stream) /\ stream'[i].packet = p /\ (n > 0 => stream'[i].unit # 1)
  <2>1. i - Len(stream) \in 1..k /\ Len(stream) + (i - Len(stream)) = i
    BY <1>1, <1>2
  <2>2. stream'[i].packet = p /\ stream'[i].unit = n + (i - Len(stream))
    BY <1>1, <2>1
  <2> QED BY <1>1, <1>2, <2>1, <2>2
<1> SUFFICES ASSUME NEW i \in 1..Len(stream'), NEW j \in 1..Len(stream'),
                    stream'[i].unit = 1, stream'[j].packet > stream'[i].packet
             PROVE  i < j
  BY DEF BeginInOrder
<1>3. CASE i \in 1..Len(stream) /\ j \in 1..Len(stream)
  BY <1>1, <1>3 DEF BeginInOrder
<1>4. CASE i \in 1..Len(stream) /\ j \notin 1..Len(stream)
  BY <1>1, <1>2, <1>4
<1>5. CASE i \notin 1..Len(stream) /\ j \in 1..Len(stream)
  <2>1. stream'[i].packet = p /\ ~(n > 0) /\ stream'[j] = stream[j]
    BY <1>1, <1>2, <1>5
  <2>2. stream[j].packet \in Packets \ Unbegun
    BY <1>5, WrittenHasBegun
  <2> QED BY <2>1, <2>2
<1>6. CASE i \notin 1..Len(stream) /\ j \notin 1..Len(stream)
  BY <1>2, <1>6
<1> QED BY <1>3, <1>4, <1>5, <1>6

\* A piece that is started, of the packet just given or of one that has begun.
LEMMA StartPieceBegins ==
  ASSUME WriterInv, UnitsInOrder, BeginInOrder, InLine,
         packet' \in Seq(Sizes), NEW p \in 1..Len(packet'), Len(packet) <= Len(packet'),
         \A q \in 1..Len(packet') : q # p => q \in Packets /\ packet'[q] = packet[q],
         NEW remaining \in Nat \ {0}, remaining <= packet'[p], NEW returned \in BOOLEAN,
         NEW handlers \in Seq(Piece), Underway(handlers),
         p \notin Placed(waiting, handlers),
         \/ p \in Packets /\ p \notin Unbegun /\ remaining = left[p] /\ UNCHANGED packet
         \/ p \notin Packets /\ remaining = packet'[p] /\ \A q \in Packets : q < p,
         StartPiece(p, remaining, returned, handlers)
  PROVE  Underway(ready)' /\ InLine' /\ BeginInOrder'
<1>1. /\ Len(packet) \in Nat /\ Packets = 1..Len(packet) /\ Packets' = 1..Len(packet')
      /\ Packets' = Packets \cup {p}
      /\ waiting \in Seq(Packets) /\ handlers \in Seq(Piece) /\ packet'[p] \in Nat
      /\ left \in [Packets -> Nat]
  <2>1. packet'[p] \in Sizes
    OBVIOUS
  <2>2. packet'[p] \in Nat
    BY <2>1, WriterAssumption
  <2>3. packet \in Seq(Sizes) /\ waiting \in Seq(Packets) /\ left \in [Packets -> Nat]
    BY DEF WriterInv, WriterTypeOK
  <2>4. Len(packet) \in Nat /\ Packets = 1..Len(packet) /\ Packets' = 1..Len(packet')
    BY <2>3 DEF Packets
  <2>5. Len(packet') \in Nat
    OBVIOUS
  <2>6. Packets' = Packets \cup {p}
    BY <2>4, <2>5
  <2> QED BY <2>2, <2>3, <2>4, <2>6
<1>2. /\ \A i \in 1..Len(waiting) : waiting[i] # p /\ waiting[i] \in Packets
      /\ \A i \in 1..Len(handlers) : handlers[i].packet # p /\ handlers[i].packet \in Packets
  <2>1. \A i \in 1..Len(waiting) : waiting[i] \in Packets
    BY <1>1
  <2>2. \A i \in 1..Len(handlers) : handlers[i] \in Piece
    BY <1>1
  <2>3. \A i \in 1..Len(handlers) : handlers[i].packet \in Packets
    BY <2>2 DEF Piece
  <2> QED BY <2>1, <2>3 DEF Placed
<1>3. CASE /\ Take(p, remaining, returned) /\ waiting = <<>> /\ UNCHANGED waiting
           /\ ready' = Append(handlers, Finished(p, "ok"))
  <2>1. PICK k \in Nat :
          /\ k <= remaining /\ k > 0
          /\ More(stream, stream', p, packet'[p] - remaining, k)
          /\ left' = [q \in 1..Len(packet') |-> IF q = p THEN remaining - k ELSE left[q]]
    BY <1>3, TakeIsMore
  <2> DEFINE n == packet'[p] - remaining
  <2>2. n \in Nat /\ (n > 0 \/ \A q \in Packets : q > p => q \in Unbegun)
    BY <1>1 DEF Unbegun
  <2>3. BeginInOrder'
    <3>1. p \in Nat /\ More(stream, stream', p, n, k)
      BY <1>1, <2>1
    <3> HIDE DEF n
    <3> QED BY <2>2, <3>1, MoreBegin
  <2>4. InLine'
    BY <1>3 DEF InLine
  <2>5. p \notin Unbegun' /\ \A q \in Packets : q # p => (q \in Unbegun' <=> q \in Unbegun)
    BY <1>1, <2>1 DEF Unbegun
  <2>6. Underway(ready)'
    BY <1>1, <1>2, <1>3, <2>5, AppendsOne DEF Underway, Finished
  <2> QED BY <2>3, <2>4, <2>6
<1>4. ASSUME KeepLeft(p, remaining), UNCHANGED stream
      PROVE  /\ BeginInOrder'
             /\ left'[p] = remaining /\ (p \in Unbegun' <=> p \notin Packets)
             /\ \A q \in Packets : q # p => left'[q] = left[q] /\ (q \in Unbegun' <=> q \in Unbegun)
  <2>1. left' = [q \in 1..Len(packet') |-> IF q = p THEN remaining ELSE left[q]]
    BY <1>4 DEF KeepLeft
  <2>2. BeginInOrder'
    BY <1>4 DEF BeginInOrder
  <2> QED BY <1>1, <2>1, <2>2 DEF Unbegun
<1>5. ASSUME KeepLeft(p, remaining), UNCHANGED stream, UNCHANGED waiting PROVE InLine'
  <2>1. \A q \in Packets' : q \notin Packets => q \in Unbegun'
    BY <1>1, <1>4, <1>5
  <2>2. \A i \in 1..Len(waiting) : left'[waiting[i]] = left[waiting[i]]
                                   /\ (waiting[i] \in Unbegun' <=> waiting[i] \in Unbegun)
    BY <1>2, <1>4, <1>5
  <2>3. \A q \in Packets : q \in Unbegun => q \in Unbegun'
    BY <1>4, <1>5
  <2> QED BY <1>5, <2>1, <2>2, <2>3 DEF InLine
<1>6. CASE /\ KeepLeft(p, remaining) /\ UNCHANGED stream /\ UNCHANGED waiting
           /\ \E e \in {"lost", "other"} : ready' = Append(handlers, Finished(p, e))
  <2>1. Underway(ready)'
    BY <1>1, <1>2, <1>4, <1>6, AppendsOne DEF Underway, Finished
  <2> QED BY <1>4, <1>5, <1>6, <2>1
<1>7. CASE /\ KeepLeft(p, remaining) /\ UNCHANGED stream
           /\ waiting' = Append(waiting, p) /\ ready' = handlers
  <2>1. Underway(ready)'
    BY <1>1, <1>2, <1>4, <1>7 DEF Underway
  <2>2. InLine'
    <3>1. /\ Len(waiting') = Len(waiting) + 1 /\ Len(waiting) \in Nat
          /\ \A i \in 1..Len(waiting) : waiting'[i] = waiting[i]
          /\ waiting'[Len(waiting) + 1] = p
      BY <1>1, <1>7
    <3>2. \A i \in 1..Len(waiting) : left'[waiting[i]] = left[waiting[i]] /\ waiting[i] \in Packets
                                     /\ (waiting[i] \in Unbegun' <=> waiting[i] \in Unbegun)
      BY <1>2, <1>4, <1>7
    <3>3. \A q \in Packets' : (q \notin Packets \/ q \in Unbegun) => q \in Unbegun'
      BY <1>1, <1>4, <1>7
    <3>4. p \in Unbegun' => \A q \in Packets : q < p
      BY <1>4, <1>7
    <3>5. \A i \in 1..Len(waiting') : left'[waiting'[i]] > 0
      BY <1>4, <1>7, <3>1, <3>2 DEF InLine
    <3>6. ASSUME NEW i \in 1..Len(waiting'), NEW q \in Packets',
                 waiting'[i] \in Unbegun', q > waiting'[i]
          PROVE  q \in Unbegun'
      <4>1. CASE i \in 1..Len(waiting)
        <5>1. waiting[i] \in Unbegun /\ waiting'[i] = waiting[i]
          BY <3>1, <3>2, <3>6, <4>1
        <5>2. q \in Packets => q \in Unbegun
          BY <3>6, <4>1, <5>1 DEF InLine
        <5> QED BY <3>3, <5>2
      <4>2. CASE i \notin 1..Len(waiting)
        <5>1. waiting'[i] = p
          BY <3>1, <4>2
        <5>2. \A x \in Packets : x < p
          BY <3>4, <3>6, <5>1
        <5>3. q \notin Packets
          BY <1>1, <3>6, <5>1, <5>2
        <5> QED BY <3>3, <5>3
      <4> QED BY <4>1, <4>2
    <3>7. ASSUME NEW i \in 1..Len(waiting'), NEW j \in 1..Len(waiting'), i < j,
                 waiting'[i] \in Unbegun', waiting'[j] \in Unbegun'
          PROVE  waiting'[i] < waiting'[j]
      <4>1. i \in 1..Len(waiting) /\ waiting'[i] = waiting[i] /\ waiting[i] \in Unbegun
            /\ waiting[i] \in Packets
        BY <3>1, <3>2, <3>7
      <4>2. CASE j \in 1..Len(waiting)
        <5>1. waiting'[j] = waiting[j] /\ waiting[j] \in Unbegun
          BY <3>1, <3>2, <3>7, <4>2
        <5> QED BY <3>7, <4>1, <4>2, <5>1 DEF InLine
      <4>3. CASE j \notin 1..Len(waiting)
        <5>1. waiting'[j] = p
          BY <3>1, <4>3
        <5> QED BY <3>4, <3>7, <4>1, <5>1
      <4> QED BY <4>2, <4>3
    <3> QED BY <3>5, <3>6, <3>7, Zenon DEF InLine
  <2> QED BY <1>4, <1>7, <2>1, <2>2
<1>8. \/ /\ Take(p, remaining, returned) /\ waiting = <<>> /\ UNCHANGED waiting
         /\ ready' = Append(handlers, Finished(p, "ok"))
      \/ /\ KeepLeft(p, remaining) /\ UNCHANGED stream /\ UNCHANGED waiting
         /\ \E e \in {"lost", "other"} : ready' = Append(handlers, Finished(p, e))
      \/ /\ KeepLeft(p, remaining) /\ UNCHANGED stream
         /\ waiting' = Append(waiting, p) /\ ready' = handlers
  BY DEF StartPiece
<1> QED BY <1>3, <1>6, <1>7, <1>8

BeginInv == Underway(ready) /\ InLine /\ BeginInOrder

LEMMA BeginsInit == Init => BeginInv
  BY DEF Init, WriterInit, BeginInv, Underway, InLine, BeginInOrder

LEMMA SendBegins ==
  ASSUME WriterInv, OnePlace, UnitsInOrder, BeginInv, NEW size \in Sizes, SendDataPacket(size)
  PROVE  BeginInv'
<1> DEFINE p == Len(packet) + 1
<1>1. packet \in Seq(Sizes) /\ Len(packet) \in Nat /\ Packets = 1..Len(packet) /\ size \in Nat \ {0}
  BY WriterAssumption DEF WriterInv, WriterTypeOK, Packets
<1>2. packet' = Append(packet, size) /\ StartPiece(p, size, FALSE, ready)
  BY DEF SendDataPacket
<1>3. /\ packet' \in Seq(Sizes) /\ Len(packet') = p /\ packet'[p] = size
      /\ \A q \in Packets : packet'[q] = packet[q]
  BY <1>1, <1>2
<1>4. /\ p \in 1..Len(packet') /\ Len(packet) <= Len(packet')
      /\ \A q \in 1..Len(packet') : q # p => q \in Packets /\ packet'[q] = packet[q]
      /\ p \notin Packets /\ (\A q \in Packets : q < p) /\ size <= packet'[p]
      /\ ready \in Seq(Piece) /\ FALSE \in BOOLEAN
  BY <1>1, <1>3 DEF WriterInv, WriterTypeOK
<1>5. p \notin Placed(waiting, ready)
  BY <1>4 DEF OnePlace
<1> HIDE DEF p
<1>6. Underway(ready)' /\ InLine' /\ BeginInOrder'
  BY <1>1, <1>2, <1>3, <1>4, <1>5, StartPieceBegins DEF BeginInv
<1> QED BY <1>6 DEF BeginInv

LEMMA WritesBegins ==
  ASSUME WriterInv, OnePlace, UnitsInOrder, BeginInv, Writes
  PROVE  BeginInv'
<1>1. /\ packet \in Seq(Sizes) /\ Packets = 1..Len(packet) /\ Len(packet) \in Nat
      /\ waiting \in Seq(Packets) /\ ready \in Seq(Piece)
      /\ left \in [Packets -> Nat] /\ \A q \in Packets : left[q] <= packet[q] /\ packet[q] \in Nat
  <2>1. /\ packet \in Seq(Sizes) /\ waiting \in Seq(Packets) /\ ready \in Seq(Piece)
        /\ left \in [Packets -> Nat] /\ \A q \in Packets : left[q] <= packet[q]
    BY DEF WriterInv, WriterTypeOK, LeftFits
  <2>2. Packets = 1..Len(packet) /\ Len(packet) \in Nat
    BY <2>1 DEF Packets
  <2>3. \A q \in Packets : packet[q] \in Sizes
    BY <2>1, <2>2
  <2> QED BY <2>1, <2>2, <2>3, WriterAssumption
<1>2. UNCHANGED packet /\ Packets' = Packets
  BY DEF Writes, Writable, PieceHandler, PieceOk, PieceError, PieceLost, ClientReceives,
         ClientLeaves, Packets
<1>3. Underway(ready) /\ InLine /\ BeginInOrder
  BY DEF BeginInv
<1>4. ASSUME ready # <<>> PROVE Underway(Tail(ready)) /\ Tail(ready) \in Seq(Piece)
  <2>1. /\ Len(Tail(ready)) = Len(ready) - 1 /\ Len(ready) \in Nat /\ Tail(ready) \in Seq(Piece)
        /\ \A i \in 1..Len(Tail(ready)) : Tail(ready)[i] = ready[i + 1] /\ i + 1 \in 1..Len(ready)
    BY <1>1, <1>4
  <2> QED BY <1>3, <2>1 DEF Underway
<1>5. ASSUME UNCHANGED <<left, stream, waiting>>, Underway(ready') PROVE BeginInv'
  <2>1. Unbegun' = Unbegun
    BY <1>2, <1>5 DEF Unbegun
  <2> QED BY <1>2, <1>3, <1>5, <2>1 DEF BeginInv, Underway, InLine, BeginInOrder
<1>6. CASE Writable
  <2> DEFINE p == Head(waiting)
             w == Tail(waiting)
  <2>1. /\ waiting # <<>> /\ waiting' = w
        /\ \/ Take(p, left[p], TRUE) /\ ready' = Append(ready, Finished(p, "ok"))
           \/ /\ UNCHANGED <<exhausted, stream, left>>
              /\ \E e \in {"lost", "other"} : ready' = Append(ready, Finished(p, e))
    BY <1>6, Zenon DEF Writable
  <2>2. /\ p \in Packets /\ p = waiting[1] /\ 1 \in 1..Len(waiting) /\ Len(w) = Len(waiting) - 1
        /\ \A i \in 1..Len(w) : w[i] = waiting[i + 1] /\ i + 1 \in 1..Len(waiting) /\ w[i] \in Packets
    BY <1>1, <2>1
  <2>3. \A i \in 1..Len(w) : w[i] # p
    BY <2>2 DEF OnePlace, Apart
  <2>4. left[p] > 0 /\ (p \in Unbegun => \A q \in Packets : q > p => q \in Unbegun)
    BY <1>3, <2>2 DEF InLine
  <2>5. ASSUME \A q \in Packets : q # p => left'[q] = left[q] /\ (q \in Unbegun' <=> q \in Unbegun)
        PROVE  InLine'
    <3>1. \A i \in 1..Len(w) : left'[w[i]] > 0
      BY <1>3, <2>2, <2>3, <2>5 DEF InLine
    <3>2. ASSUME NEW i \in 1..Len(w), NEW j \in 1..Len(w), i < j, w[i] \in Unbegun', w[j] \in Unbegun'
          PROVE  w[i] < w[j]
      BY <1>3, <2>2, <2>3, <2>5, <3>2 DEF InLine
    <3>3. ASSUME NEW i \in 1..Len(w), NEW q \in Packets, w[i] \in Unbegun', q > w[i]
          PROVE  q \in Unbegun'
      <4>1. w[i] \in Unbegun /\ q \in Unbegun
        BY <1>3, <2>2, <2>3, <2>5, <3>3 DEF InLine
      <4>2. q # p
        <5>1. p \in Unbegun => p < w[i]
          BY <1>3, <2>2, <4>1 DEF InLine
        <5> QED BY <1>1, <2>2, <3>3, <4>1, <5>1
      <4> QED BY <2>5, <4>1, <4>2
    <3> HIDE DEF w
    <3> QED BY <1>2, <2>1, <3>1, <3>2, <3>3 DEF InLine
  <2> HIDE DEF p, w
  <2>6. CASE Take(p, left[p], TRUE) /\ ready' = Append(ready, Finished(p, "ok"))
    <3>1. packet' \in Seq(Sizes) /\ p \in 1..Len(packet') /\ left[p] \in Nat
          /\ left[p] <= packet'[p] /\ TRUE \in BOOLEAN
      BY <1>1, <1>2, <2>2
    <3>2. PICK k \in Nat :
            /\ k <= left[p] /\ k > 0
            /\ More(stream, stream', p, packet[p] - left[p], k)
            /\ left' = [q \in Packets |-> IF q = p THEN left[p] - k ELSE left[q]]
      BY <1>1, <1>2, <2>4, <2>6, <3>1, TakeIsMore
    <3> DEFINE n == packet[p] - left[p]
    <3>3. n \in Nat /\ (n > 0 \/ p \in Unbegun) /\ p \in Nat
      BY <1>1, <2>2 DEF Unbegun
    <3>4. BeginInOrder'
      <4>1. More(stream, stream', p, n, k)
        BY <3>2
      <4> HIDE DEF n
      <4> QED BY <1>3, <2>4, <3>3, <4>1, MoreBegin
    <3>5. p \notin Unbegun' /\ \A q \in Packets : q # p => left'[q] = left[q] /\ (q \in Unbegun' <=> q \in Unbegun)
      BY <1>1, <1>2, <2>2, <3>2 DEF Unbegun
    <3>6. Underway(ready)'
      <4>1. \A i \in 1..Len(ready) : ready[i].packet \in Packets
        <5>1. \A i \in 1..Len(ready) : ready[i] \in Piece
          BY <1>1
        <5> QED BY <5>1 DEF Piece
      <4> QED BY <1>1, <1>3, <2>6, <3>5, <4>1, AppendsOne DEF Underway, Finished
    <3> QED BY <2>5, <3>4, <3>5, <3>6 DEF BeginInv
  <2>7. CASE /\ UNCHANGED <<exhausted, stream, left>>
             /\ \E e \in {"lost", "other"} : ready' = Append(ready, Finished(p, e))
    <3>1. Unbegun' = Unbegun
      BY <1>2, <2>7 DEF Unbegun
    <3>2. Underway(ready)'
      BY <1>1, <1>3, <2>7, <3>1, AppendsOne DEF Underway, Finished
    <3> QED BY <1>3, <2>5, <2>7, <3>1, <3>2 DEF BeginInv, BeginInOrder
  <2> QED BY <2>1, <2>6, <2>7
<1>7. CASE PieceOk
  <2> DEFINE p == Head(ready).packet
  <2>1. /\ ready # <<>> /\ Head(ready).ec = "ok"
        /\ \/ left[p] > 0 /\ StartPiece(p, left[p], TRUE, Tail(ready))
           \/ ready' = Tail(ready) /\ UNCHANGED kernel
    BY <1>7, Zenon DEF PieceOk, PieceDone
  <2>2. p \in Packets /\ p \notin Unbegun
    <3>1. Head(ready) = ready[1] /\ 1 \in 1..Len(ready) /\ ready[1] \in Piece
      BY <1>1, <2>1
    <3> QED BY <1>3, <2>1, <3>1 DEF Underway, Piece
  <2>3. p \notin Placed(waiting, Tail(ready))
    BY <1>1, <2>1, HandlerRuns DEF OnePlace
  <2>4. CASE left[p] > 0 /\ StartPiece(p, left[p], TRUE, Tail(ready))
    <3>1. /\ packet' \in Seq(Sizes) /\ p \in 1..Len(packet') /\ Len(packet) <= Len(packet')
          /\ \A q \in 1..Len(packet') : q # p => q \in Packets /\ packet'[q] = packet[q]
          /\ left[p] \in Nat \ {0} /\ left[p] <= packet'[p] /\ TRUE \in BOOLEAN
      BY <1>1, <1>2, <2>2, <2>4
    <3>2. Underway(Tail(ready)) /\ Tail(ready) \in Seq(Piece)
      BY <1>4, <2>1
    <3> HIDE DEF p
    <3>3. Underway(ready)' /\ InLine' /\ BeginInOrder'
      BY <1>2, <1>3, <2>2, <2>3, <2>4, <3>1, <3>2, StartPieceBegins
    <3> QED BY <3>3 DEF BeginInv
  <2>5. CASE ready' = Tail(ready) /\ UNCHANGED kernel
    BY <1>4, <1>5, <2>1, <2>5 DEF kernel
  <2> QED BY <2>1, <2>4, <2>5
<1>8. CASE PieceError
  BY <1>4, <1>5, <1>8 DEF PieceError, PieceDone, kernel
<1>9. CASE PieceLost
  <2>1. /\ ready # <<>> /\ UNCHANGED <<left, stream>> /\ waiting' = <<>>
        /\ ready' = Tail(ready) \o [i \in 1..Len(waiting) |-> Finished(waiting[i], "other")]
    BY <1>9, Zenon DEF PieceLost, PieceDone, ClearMyself
  <2>2. Behind(waiting, Tail(ready), ready') /\ Underway(Tail(ready)) /\ Tail(ready) \in Seq(Piece)
    BY <1>1, <1>4, <2>1, AbortedBehind, Zenon
  <2>3. Unbegun' = Unbegun
    BY <1>2, <2>1 DEF Unbegun
  <2>4. Underway(ready')
    <3> DEFINE r == Tail(ready)
    <3>1. Len(r) \in Nat /\ Len(waiting) \in Nat
      BY <1>1, <2>2
    <3>2. ASSUME NEW i \in 1..Len(ready'), i \notin 1..Len(r) PROVE ready'[i].ec = "other"
      <4>1. i - Len(r) \in 1..Len(waiting) /\ Len(r) + (i - Len(r)) = i
        BY <2>2, <3>1, <3>2 DEF Behind
      <4>2. ready'[i] = Finished(waiting[i - Len(r)], "other")
        BY <2>2, <4>1 DEF Behind
      <4> QED BY <4>2 DEF Finished
    <3> HIDE DEF r
    <3> QED BY <2>2, <3>2 DEF Underway, Behind, r
  <2> QED BY <1>3, <2>1, <2>3, <2>4 DEF BeginInv, Underway, InLine, BeginInOrder
<1>10. CASE ClientReceives \/ ClientLeaves
  <2>1. UNCHANGED <<left, stream, waiting, ready>>
    BY <1>10, Zenon DEF ClientReceives, ClientLeaves, kernel
  <2> QED BY <1>3, <1>5, <2>1
<1> QED BY <1>6, <1>7, <1>8, <1>9, <1>10 DEF Writes, PieceHandler

-----------------------------------------------------------------------------
(* The connection. *)

OrderInv == ImageInv /\ OnePlace /\ UnitsInOrder /\ BeginInv

LEMMA OrderInit == Init => OrderInv
  BY ImageInit, PlacesInit, CutsInit, BeginsInit DEF OrderInv

\* Whatever the connection does, to its writer it is a call, a step of its own, or
\* nothing.
LEMMA StepOfWriter ==
  ASSUME ImageInv, [Next]_vars
  PROVE  UNCHANGED writer \/ (\E size \in Sizes : SendDataPacket(size)) \/ Writes
<1>1. CASE SendImage
  <2>1. Head(friends) \in Avatar /\ Head(friends).kind = "file"
    BY <1>1 DEF SendImage, ImageInv, TypeOK
  <2>2. Head(friends).size \in Sizes
    BY <2>1 DEF Avatar
  <2> QED BY <1>1, <2>2 DEF SendImage
<1>2. CASE SendEndOfReply
  BY <1>2, ImageAssumption DEF SendEndOfReply
<1>3. CASE Listen \/ SkipImage \/ AvatarThrows \/ DownloadDone
  BY <1>3, Zenon DEF Listen, ListenError, ListenDownload, ListenAllUnparsed, ListenAll,
                     ListenOther, SkipImage, AvatarThrows, DownloadDone
<1>4. CASE Write \/ Reactor \/ Client
  BY <1>4, Zenon DEF Write, Reactor, Client, Writes
<1>5. CASE UNCHANGED vars
  BY <1>5 DEF vars
<1> QED BY <1>1, <1>2, <1>3, <1>4, <1>5 DEF Next, Answer

LEMMA OrderStep == OrderInv /\ [Next]_vars => OrderInv'
<1> SUFFICES ASSUME OrderInv, [Next]_vars PROVE OrderInv'
  OBVIOUS
<1>1. ImageInv' /\ WriterInv /\ OnePlace /\ UnitsInOrder /\ BeginInv
  BY ImageStep DEF OrderInv, ImageInv, TypeOK, WriterInv
<1>2. ASSUME UNCHANGED writer PROVE OnePlace' /\ UnitsInOrder' /\ BeginInv'
  <2>1. UNCHANGED <<packet, left, waiting, ready, result, stream>>
    BY <1>2 DEF writer, kernel
  <2>2. OnePlace'
    BY <1>1, <2>1 DEF OnePlace, Packets
  <2>3. AllCut'
    BY <1>1, <2>1, AllCutIsOrder DEF AllCut, Packets
  <2>4. BeginInv'
    BY <1>1, <2>1 DEF BeginInv, Underway, InLine, BeginInOrder, Unbegun, Packets
  <2> QED BY <2>2, <2>3, <2>4, AllCutIsOrder
<1>3. ASSUME \E size \in Sizes : SendDataPacket(size) PROVE OnePlace' /\ UnitsInOrder' /\ BeginInv'
  <2>1. PICK size \in Sizes : SendDataPacket(size)
    BY <1>3
  <2>2. OnePlace' /\ UnitsInOrder' /\ BeginInv'
    BY <1>1, <2>1, SendPlaces, SendCuts, SendBegins, Zenon
  <2> QED BY <2>2
<1>4. ASSUME Writes PROVE OnePlace' /\ UnitsInOrder' /\ BeginInv'
  BY <1>1, <1>4, WritesPlaces, WritesCuts, WritesBegins, Zenon
<1>5. UNCHANGED writer \/ (\E size \in Sizes : SendDataPacket(size)) \/ Writes
  BY StepOfWriter DEF OrderInv
<1> QED BY <1>1, <1>2, <1>3, <1>4, <1>5 DEF OrderInv

\* Every packet that SendDataPacket was given and whose handler has not run is in
\* one place only, in the reactor's queue or among the handlers, whatever overlaps
\* it: none is forgotten, none is written twice.
THEOREM PacketsHaveOnePlace == Spec => []OnePlace
<1>1. OrderInv => OnePlace
  BY DEF OrderInv
<1> QED BY <1>1, OrderInit, OrderStep, PTL DEF Spec

\* However async_write cuts a packet, its units reach the kernel in order, each one
\* once, and all of them when its handler is told of success.
THEOREM UnitsComeInOrder == Spec => []UnitsInOrder
<1>1. OrderInv => UnitsInOrder
  BY DEF OrderInv
<1> QED BY <1>1, OrderInit, OrderStep, PTL DEF Spec

\* Packets begin in the order of the calls of SendDataPacket, though their pieces
\* overlap: no later one gets a unit out before the first unit of an earlier one.
THEOREM PacketsBeginInOrder == Spec => []BeginInOrder
<1>1. OrderInv => BeginInOrder
  BY DEF OrderInv, BeginInv
<1> QED BY <1>1, OrderInit, OrderStep, PTL DEF Spec
=============================================================================
