---------------------------- MODULE MCChatServer ----------------------------
(* Instances of ChatServer for TLC: connections and users are model values. *)
EXTENDS ChatServer, TLC

CONSTANTS s1, s2, s3, alice, bob

OneSession == {s1}
TwoSessions == {s1, s2}
ThreeSessions == {s1, s2, s3}
OneUser == {alice}
TwoUsers == {alice, bob}

OwnNames == [u \in User |-> {u}]
OneName == [u \in User |-> User]

\* Connections are interchangeable, and so are users.
SessionSymmetry == Permutations(Session)

\* Clients that stay, and writes that complete in turn; a read takes more than a
\* line, or tears one, only as long as no accept has failed.
Steady ==
  \A s \in Session :
    /\ more[s] => \A i \in 1..Len(acceptStack) : acceptStack[i] # NoSession
    /\ socket[s] = "open" => peer[s]
    /\ pending[s] <= 1
\* No read takes more than a line.
WholeLines == \A s \in Session : ~more[s]
=============================================================================
