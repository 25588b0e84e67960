------------------------------ MODULE MCUserDb ------------------------------
(* An instance of UserDb for TLC: every pair of tables with at most two users    *)
(* and two relationships, the users of one name or of two.                       *)
EXTENDS UserDb, TLC

\* Ids, names and passwords are interchangeable.
DbSymmetry == Permutations(UserId) \cup Permutations(Name) \cup Permutations(Password)
=============================================================================
