------------------------------- MODULE MCRelay -------------------------------
(* An instance of Relay for TLC. *)
EXTENDS Relay, TLC

CONSTANTS s1, s2, alice, bob

TwoSessions == {s1, s2}
TwoIds == {alice, bob}

\* Connections are interchangeable, and so are ids.
RelaySymmetry == Permutations(TwoSessions) \cup Permutations(TwoIds)
=============================================================================
