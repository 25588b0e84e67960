-------------------------------- MODULE Wire --------------------------------
(***************************************************************************)
(* What SendDataPacket promises of one connection, whatever async_write    *)
(* does with the packets: each goes out in order and no unit of it twice,  *)
(* while its outcome is open; packets begin in the order in which they     *)
(* were given; success is told of a packet only when all of it is out; and *)
(* nothing goes out once the connection is closed, which a loss does.      *)
(* The packets may mix: that is not promised.                              *)
(***************************************************************************)
EXTENDS Naturals, Sequences

CONSTANTS
  Room,   \* units that are out and not yet received, at most
  Sizes   \* sizes of the packets

VARIABLES
  packet,    \* the packets given: their sizes
  out,       \* per packet: how many of its units are out
  wire,      \* the units that are out: [packet, unit]
  outcome,   \* per packet: "none" until its handler is told
  open,      \* the connection is open
  received   \* how many units the client has

vars == <<packet, out, wire, outcome, open, received>>

Init ==
  /\ packet = <<>>
  /\ out = <<>>
  /\ wire = <<>>
  /\ outcome = <<>>
  /\ open = TRUE
  /\ received = 0

\* k more units, of packet p after the first n of it.
Goes(p, n, k) ==
  /\ open
  /\ Len(wire) - received + k <= Room
  /\ wire' = wire \o [i \in 1..k |-> [packet |-> p, unit |-> n + i]]

\* A packet is given, and a part of it may go out at once.
Give(size) ==
  /\ packet' = Append(packet, size)
  /\ outcome' = Append(outcome, "none")
  /\ \E k \in 0..size :
       /\ out' = Append(out, k)
       /\ IF k = 0 THEN UNCHANGED wire ELSE Goes(Len(packet) + 1, 0, k)
  /\ UNCHANGED <<open, received>>

\* Some more of a packet goes out; its first unit, if no later packet has begun.
Emit(p) ==
  /\ outcome[p] = "none"
  /\ out[p] = 0 => \A q \in DOMAIN packet : q > p => out[q] = 0
  /\ \E k \in 1..(packet[p] - out[p]) :
       /\ out' = [out EXCEPT ![p] = @ + k]
       /\ Goes(p, out[p], k)
  /\ UNCHANGED <<packet, outcome, open, received>>

\* The handler of a packet is told how it ended.
Finish(p) ==
  /\ outcome[p] = "none"
  /\ \E e \in {"ok", "lost", "other"} :
       /\ e = "ok" => out[p] = packet[p]
       /\ outcome' = [outcome EXCEPT ![p] = e]
       /\ open' = (open /\ e # "lost")
  /\ UNCHANGED <<packet, out, wire, received>>

Receive ==
  /\ received < Len(wire)
  /\ received' = received + 1
  /\ UNCHANGED <<packet, out, wire, outcome, open>>

Next ==
  \/ \E size \in Sizes : Give(size)
  \/ \E p \in DOMAIN packet : Emit(p) \/ Finish(p)
  \/ Receive

Spec == Init /\ [][Next]_vars
=============================================================================
