----------------------------- MODULE RelayProofs -----------------------------
(* Proofs about the abstract relay: its directory, the addressee and the order *)
(* of the texts, for every set of connections and ids.                         *)
EXTENDS Relay, TLAPS

RelayInv == TypeOK /\ DirectoryTold /\ OnlyAddressee /\ OrderedOnce

\* What a forwarded text changes: one connection, at its end.
LEMMA ForwardAppends ==
  ASSUME TypeOK, NEW m \in Texts, Forward(m)
  PROVE  LET d == directory[m.dest] IN
         /\ d \in Session
         /\ delivered[d] \in Seq(Texts \cup Replies)
         /\ delivered'[d] = Append(delivered[d], m)
         /\ \A s \in Session : s # d => delivered'[s] = delivered[s]
         /\ delivered' \in [Session -> Seq(Texts \cup Replies)]
  BY DEF TypeOK, Forward, Texts

LEMMA RelayInit == Init => RelayInv
  BY DEF Init, RelayInv, TypeOK, DirectoryTold, OnlyAddressee, OrderedOnce

\* A connection's login replaces one directory entry and starts its sequence.
LEMMA RelayLogin ==
  ASSUME RelayInv, NEW s \in Session, NEW u \in Id, Login(s, u)
  PROVE  RelayInv'
<1> USE DEF RelayInv
<1>1. TypeOK'
  BY DEF TypeOK, Login, Replies
<1>2. delivered'[s] = <<Reply(u)>> /\ \A t \in Session : t # s => delivered'[t] = delivered[t]
  BY DEF TypeOK, Login
<1>3. DirectoryTold'
  <2> SUFFICES ASSUME NEW v \in Id, directory'[v] # NoSession
               PROVE  /\ delivered'[directory'[v]] # <<>>
                      /\ delivered'[directory'[v]][1] = Reply(v)
    BY DEF DirectoryTold
  <2>1. CASE v = u
    BY <2>1, <1>2 DEF TypeOK, Login
  <2>2. CASE v # u
    <3>1. directory'[v] = directory[v] /\ directory[v] \in Session
      BY <2>2 DEF TypeOK, Login
    <3>2. delivered[directory[v]] # <<>>
      BY <3>1 DEF DirectoryTold
    <3>3. directory[v] # s
      BY <3>2 DEF Login
    <3> QED BY <3>1, <3>3, <1>2 DEF DirectoryTold
  <2> QED BY <2>1, <2>2
<1>4. OnlyAddressee'
  BY <1>2 DEF OnlyAddressee, Replies
<1>5. OrderedOnce'
  BY <1>2 DEF OrderedOnce
<1> QED BY <1>1, <1>3, <1>4, <1>5

\* A forwarded text is for the id its connection was told, and it is newer than
\* every forwarded text of its sender.
LEMMA RelayForward ==
  ASSUME RelayInv, NEW m \in Texts, Forward(m)
  PROVE  RelayInv'
<1> USE DEF RelayInv
<1> DEFINE d == directory[m.dest]
<1>1. /\ d \in Session
      /\ delivered[d] \in Seq(Texts \cup Replies)
      /\ delivered'[d] = Append(delivered[d], m)
      /\ \A s \in Session : s # d => delivered'[s] = delivered[s]
      /\ delivered' \in [Session -> Seq(Texts \cup Replies)]
  BY ForwardAppends
<1>2. directory' = directory /\ m.dest \in Id
  BY DEF Forward, Texts
<1> HIDE DEF d
<1>3. TypeOK'
  BY <1>1, <1>2 DEF TypeOK
<1>4. delivered[d] # <<>> /\ delivered[d][1] = Reply(m.dest)
  BY <1>1, <1>2, RelayAssumption DEF DirectoryTold, d
<1>5. /\ Len(delivered'[d]) = Len(delivered[d]) + 1
      /\ delivered'[d][Len(delivered[d]) + 1] = m
      /\ \A i \in 1..Len(delivered[d]) : delivered'[d][i] = delivered[d][i]
      /\ Len(delivered[d]) \in Nat /\ Len(delivered[d]) >= 1
  BY <1>1, <1>4
<1>6. DirectoryTold'
  <2> SUFFICES ASSUME NEW v \in Id, directory'[v] # NoSession
               PROVE  /\ delivered'[directory'[v]] # <<>>
                      /\ delivered'[directory'[v]][1] = Reply(v)
    BY DEF DirectoryTold
  <2>1. directory'[v] = directory[v] /\ directory[v] \in Session
    BY <1>2 DEF TypeOK
  <2>2. CASE directory[v] = d
    <3>1. delivered'[d] # <<>>
      BY <1>1
    <3>2. delivered'[d][1] = delivered[d][1]
      BY <1>5
    <3> QED BY <2>1, <2>2, <3>1, <3>2 DEF DirectoryTold
  <2>3. CASE directory[v] # d
    BY <2>1, <2>3, <1>1 DEF DirectoryTold
  <2> QED BY <2>2, <2>3
<1>7. OnlyAddressee'
  <2> SUFFICES ASSUME NEW s \in Session, NEW i \in 1..Len(delivered'[s])
               PROVE  IF i = 1 THEN delivered'[s][i] \in Replies
                      ELSE /\ delivered'[s][i] \in Texts
                           /\ delivered'[s][i].dest = delivered'[s][1].user
    BY DEF OnlyAddressee
  <2>1. CASE s # d
    BY <2>1, <1>1 DEF OnlyAddressee
  <2>2. CASE s = d /\ i <= Len(delivered[d])
    BY <2>2, <1>5 DEF OnlyAddressee
  <2>3. CASE s = d /\ i = Len(delivered[d]) + 1
    BY <2>3, <1>4, <1>5 DEF Reply
  <2> QED BY <2>1, <2>2, <2>3, <1>5
<1>8. OrderedOnce'
  <2>1. \A s \in Session : \A i \in 2..Len(delivered[s]) :
          delivered[s][i].from = m.from => delivered[s][i].n < m.n
    BY DEF Forward, Newer
  <2> DEFINE Old(s, i) == s # d \/ i <= Len(delivered[d])
  <2>2. ASSUME NEW s \in Session, NEW i \in 2..Len(delivered'[s])
        PROVE  \/ /\ Old(s, i)
                  /\ i \in 2..Len(delivered[s]) /\ delivered'[s][i] = delivered[s][i]
               \/ /\ s = d /\ i = Len(delivered[d]) + 1
                  /\ delivered'[s][i] = m
    BY <1>1, <1>5
  <2>3. m.n \in Nat /\ \A s \in Session : \A i \in 2..Len(delivered[s]) :
          delivered[s][i].n \in Nat
    BY RelayAssumption, SMTT(30) DEF OnlyAddressee, Texts
  <2> SUFFICES ASSUME NEW s \in Session, NEW t \in Session,
                      NEW i \in 2..Len(delivered'[s]), NEW j \in 2..Len(delivered'[t]),
                      delivered'[s][i].from = delivered'[t][j].from
               PROVE  IF s = t THEN i < j => delivered'[s][i].n < delivered'[t][j].n
                               ELSE delivered'[s][i].n # delivered'[t][j].n
    BY DEF OrderedOnce
  <2>4. CASE Old(s, i) /\ i \in 2..Len(delivered[s]) /\ delivered'[s][i] = delivered[s][i]
    <3>1. CASE j \in 2..Len(delivered[t]) /\ delivered'[t][j] = delivered[t][j]
      BY <2>4, <3>1 DEF OrderedOnce
    <3>2. CASE t = d /\ j = Len(delivered[d]) + 1 /\ delivered'[t][j] = m
      <4>1. delivered[s][i].n < m.n
        BY <2>1, <2>4, <3>2
      <4> QED BY <4>1, <2>3, <2>4, <3>2
    <3> QED BY <2>2, <3>1, <3>2
  <2>5. CASE s = d /\ i = Len(delivered[d]) + 1 /\ delivered'[s][i] = m
    <3>1. CASE t # d /\ j \in 2..Len(delivered[t]) /\ delivered'[t][j] = delivered[t][j]
      <4>1. delivered[t][j].n < m.n
        BY <2>1, <2>5, <3>1
      <4> QED BY <4>1, <2>3, <2>5, <3>1
    <3>2. CASE t = d
      <4>1. ~(i < j)
        BY <2>5, <3>2, <1>5
      <4> QED BY <4>1, <2>5, <3>2
    <3> QED BY <2>2, <3>1, <3>2
  <2> QED BY <2>2, <2>4, <2>5
<1> QED BY <1>3, <1>6, <1>7, <1>8

LEMMA RelayStep == RelayInv /\ [Next]_vars => RelayInv'
<1> SUFFICES ASSUME RelayInv, [Next]_vars PROVE RelayInv'
  OBVIOUS
<1>1. CASE Next
  BY <1>1, RelayLogin, RelayForward DEF Next
<1>2. CASE UNCHANGED vars
  BY <1>2 DEF RelayInv, TypeOK, DirectoryTold, OnlyAddressee, OrderedOnce, vars
<1> QED BY <1>1, <1>2

\* Every reachable state of the relay satisfies its four invariants.
THEOREM RelayIsCorrect == Spec => []RelayInv
<1> QED BY RelayInit, RelayStep, PTL DEF Spec

\* The directory of the relay leads to connections that were told the id.
THEOREM RelayDirectoryTold == Spec => []DirectoryTold
<1>1. RelayInv => DirectoryTold
  BY DEF RelayInv
<1> QED BY RelayIsCorrect, <1>1, PTL

\* The relay forwards the texts of a sender in order and each at most once.
THEOREM RelayOrderedOnce == Spec => []OrderedOnce
<1>1. RelayInv => OrderedOnce
  BY DEF RelayInv
<1> QED BY RelayIsCorrect, <1>1, PTL
=============================================================================
