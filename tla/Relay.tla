-------------------------------- MODULE Relay --------------------------------
(***************************************************************************)
(* What the chat server promises, without sockets, reads, handlers or      *)
(* memory: a directory from user ids to connections, in which the latest   *)
(* login of an id wins, and texts that are forwarded at most once, to the  *)
(* one connection the directory names, in the order of their sender.  A    *)
(* text may also be lost: a relay without a store promises no more.        *)
(***************************************************************************)
EXTENDS Naturals, Sequences

CONSTANTS
  Session,    \* the connections
  Id,         \* the user ids
  NoSession,  \* no connection
  MaxFrames   \* the highest number of a text

ASSUME RelayAssumption ==
  /\ NoSession \notin Session
  /\ MaxFrames \in Nat

VARIABLES
  directory,  \* Id -> the connection of its latest login
  delivered   \* per connection: the frames handed to it, the login reply first

vars == <<directory, delivered>>

Texts == [type : {"message_text"}, from : Session, dest : Id, n : 0..MaxFrames]
Reply(u) == [type |-> "login_success", user |-> u]
Replies == {Reply(u) : u \in Id}

Init ==
  /\ directory = [u \in Id |-> NoSession]
  /\ delivered = [s \in Session |-> <<>>]

\* Mutant: a connection may log in again.
LoginAgain(s, u) ==
  /\ Len(delivered[s]) < 2
  /\ directory' = [directory EXCEPT ![u] = s]
  /\ delivered' = [delivered EXCEPT ![s] = Append(@, Reply(u))]

\* A connection logs in once.
Login(s, u) ==
  /\ delivered[s] = <<>>
  /\ directory' = [directory EXCEPT ![u] = s]
  /\ delivered' = [delivered EXCEPT ![s] = <<Reply(u)>>]

\* m was sent after every text of its sender that has been forwarded.
Newer(m) ==
  \A s \in Session : \A i \in 2..Len(delivered[s]) :
    delivered[s][i].from = m.from => delivered[s][i].n < m.n

Forward(m) ==
  LET dest == directory[m.dest] IN
  /\ Newer(m)
  /\ delivered[m.from] # <<>>
  /\ dest # NoSession
  /\ delivered' = [delivered EXCEPT ![dest] = Append(@, m)]
  /\ UNCHANGED directory

Next ==
  \/ \E s \in Session, u \in Id : Login(s, u)
  \/ \E m \in Texts : Forward(m)

Spec == Init /\ [][Next]_vars

-----------------------------------------------------------------------------
(* Properties of every relay of this kind. *)

\* The directory leads to connections, and frames are replies and texts.
TypeOK ==
  /\ directory \in [Id -> Session \cup {NoSession}]
  /\ delivered \in [Session -> Seq(Texts \cup Replies)]

\* The directory leads to a connection that was told the id it is listed under.
DirectoryTold ==
  \A u \in Id : directory[u] # NoSession =>
    /\ delivered[directory[u]] # <<>>
    /\ delivered[directory[u]][1] = Reply(u)

\* A connection gets its login reply first and then only texts for the id in it.
OnlyAddressee ==
  \A s \in Session : \A i \in 1..Len(delivered[s]) :
    IF i = 1 THEN delivered[s][i] \in Replies
             ELSE delivered[s][i] \in Texts /\ delivered[s][i].dest = delivered[s][1].user

\* The texts of a sender are in order on each connection, and none is on two.
OrderedOnce ==
  \A s, t \in Session : \A i \in 2..Len(delivered[s]), j \in 2..Len(delivered[t]) :
    delivered[s][i].from = delivered[t][j].from =>
      IF s = t THEN i < j => delivered[s][i].n < delivered[t][j].n
               ELSE delivered[s][i].n # delivered[t][j].n
=============================================================================
