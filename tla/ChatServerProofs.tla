-------------------------- MODULE ChatServerProofs --------------------------
(* Proofs about the chat server for every set of connections and users and     *)
(* every bound: its type invariant, the phases of a session, the lifetime of   *)
(* what callbacks refer to, and that it implements the abstract relay.         *)
EXTENDS ChatServer, TLAPS

-----------------------------------------------------------------------------
(* Type correctness. *)

LEMMA TypeInit == Init => TypeOK
<1> SUFFICES ASSUME Init PROVE TypeOK
  OBVIOUS
<1>1. NoUser \in Id
  BY DEF Id
<1>2. 0 \in 0..MaxFrames
  BY ConstantsAssumption
<1> QED BY <1>1, <1>2 DEF Init, TypeOK

\* The ids that a login can end with: users of that name, and the error id.
LEMMA LoginIds == \A u \in User : Namesakes[u] \cup {ErrId} \subseteq User \cup {ErrId}
  BY ConstantsAssumption

LEMMA FrameTypes ==
  /\ Garbage \in Request
  /\ \A s \in Session : sent[s] \in Nat => ClientFrame(s) \subseteq Request
  /\ \A u \in Id : Reply(u) \in ReplyFrame
  /\ NoUser \in Id /\ ErrId \in Id /\ User \subseteq Id
<1>1. Garbage \in Request
  BY DEF Garbage, Request, OtherFrame
<1>2. ASSUME NEW s \in Session, sent[s] \in Nat, NEW f \in ClientFrame(s)
      PROVE  f \in Request
  <2>1. CASE f \in {Login(u) : u \in User \cup {NoUser}}
    BY <2>1 DEF Login, Request, LoginFrame
  <2>2. CASE f \in {Text(s, d, sent[s] + 1) : d \in Id}
    BY <1>2, <2>2 DEF Text, Request, TextFrame
  <2>3. CASE f \in {[type |-> odd] : odd \in OddLines}
    BY <2>3, ConstantsAssumption DEF Request, OtherFrame
  <2> QED BY <2>1, <2>2, <2>3 DEF ClientFrame
<1>3. \A u \in Id : Reply(u) \in ReplyFrame
  BY DEF Reply, ReplyFrame
<1> QED BY <1>1, <1>2, <1>3 DEF Id

\* What the type field tells about a line.
LEMMA TextLine ==
  ASSUME NEW f \in Request \cup {NoLine}, f.type = "message_text"
  PROVE  f \in TextFrame /\ f.dest \in Id /\ f.n \in Nat /\ f.from \in Session
<1>1. f \notin LoginFrame
  BY DEF LoginFrame
<1>2. f \notin OtherFrame
  BY DEF OtherFrame
<1>3. f # NoLine
  BY DEF NoLine
<1>4. f \in TextFrame
  BY <1>1, <1>2, <1>3 DEF Request
<1> QED BY <1>4 DEF TextFrame

\* A text changes at most one connection: that of the session registered for it.
LEMMA TextEffect ==
  ASSUME TypeOK, NEW s \in Session, ListenText(s)
  PROVE  /\ line[s] \in TextFrame /\ line[s].dest \in Id
         /\ \/ UNCHANGED <<pending, wire>>
            \/ \E d \in Session : /\ d = GetSessionById(line[s].dest)
                                 /\ d = idToSessionMap[line[s].dest]
                                 /\ SendDataPacket(d, line[s])
<1>1. line[s].type = "message_text"
  BY DEF ListenText, Line
<1>2. line[s] \in TextFrame /\ line[s].dest \in Id
  BY <1>1, TextLine DEF TypeOK
<1> DEFINE d == GetSessionById(line[s].dest)
<1>3. d = NoSession \/ (d \in Session /\ d = idToSessionMap[line[s].dest])
  BY <1>2 DEF GetSessionById, TypeOK
<1>4. \/ d = NoSession /\ UNCHANGED <<pending, wire>>
      \/ d # NoSession /\ SendDataPacket(d, line[s])
  BY DEF ListenText
<1> HIDE DEF d
<1>5. UNCHANGED <<pending, wire>> \/ (d \in Session /\ d = idToSessionMap[line[s].dest] /\ SendDataPacket(d, line[s]))
  BY <1>3, <1>4
<1> QED BY <1>2, <1>5 DEF d

LEMMA TypeStep == TypeOK /\ [Next]_vars => TypeOK'
<1> SUFFICES ASSUME TypeOK, [Next]_vars PROVE TypeOK'
  OBVIOUS
<1> USE DEF TypeOK
<1>1. CASE AcceptFails
  BY <1>1 DEF AcceptFails, session, streamBuff, client
<1>2. CASE Heartbeat
  BY <1>2 DEF Heartbeat, CheckHeartbeat, session, streamBuff, client
<1>3. ASSUME NEW s \in Session, Accept(s) PROVE TypeOK'
  BY <1>3 DEF Accept, StartRead, ClearStreambuf
<1>4. ASSUME NEW s \in Session, ReadEvent(s) PROVE TypeOK'
  <2>1. CASE ReadCompletes(s)
    <3>1. line' \in [Session -> Request \cup {NoLine}]
      BY <2>1, FrameTypes DEF ReadCompletes
    <3>2. sent' \in [Session -> 0..MaxFrames]
      BY <2>1, ConstantsAssumption DEF ReadCompletes
    <3> QED BY <2>1, <3>1, <3>2 DEF ReadCompletes, server
  <2>2. CASE ReadFails(s)
    BY <2>2 DEF ReadFails, server, streamBuff, client
  <2> QED BY <1>4, <2>1, <2>2 DEF ReadEvent
<1>5. ASSUME NEW s \in Session, LoginHandler(s) PROVE TypeOK'
  <2> USE DEF NoRead, StartRead, ClearStreambuf, server, client
  <2>1. CASE LoginLost(s)
    BY <2>1 DEF LoginLost, ClearMyself
  <2>2. CASE LoginError(s)
    BY <2>2 DEF LoginError
  <2>3. CASE LoginUnparsed(s)
    BY <2>3 DEF LoginUnparsed
  <2>4. CASE LoginWrongType(s)
    BY <2>4 DEF LoginWrongType, ClearMyself
  <2>5. CASE LoginRejected(s)
    BY <2>5 DEF LoginRejected
  <2>6. CASE LoginBroken(s)
    BY <2>6 DEF LoginBroken
  <2>7. CASE LoginAccepted(s)
    <3>1. PICK id \in Id : SendDataPacket(s, Reply(id)) /\ NotifyAuthenticationSuccess(s, id)
      BY <2>7, LoginIds, FrameTypes DEF LoginAccepted
    <3>2. pending' \in [Session -> Nat]
      BY <3>1 DEF SendDataPacket
    <3>3. wire' \in [Session -> Seq(TextFrame \cup ReplyFrame)]
      BY <3>1, FrameTypes DEF SendDataPacket
    <3>4. /\ userId' \in [Session -> Id]
          /\ idToSessionMap' \in [Id -> Session \cup {NoSession}]
      BY <3>1 DEF NotifyAuthenticationSuccess
    <3> QED BY <2>7, <3>2, <3>3, <3>4 DEF LoginAccepted
  <2> QED BY <1>5, <2>1, <2>2, <2>3, <2>4, <2>5, <2>6, <2>7 DEF LoginHandler
<1>6. ASSUME NEW s \in Session, ListenHandle(s) PROVE TypeOK'
  <2> USE DEF NoRead, StartRead, ClearStreambuf, server, client
  <2>1. CASE ListenError(s)
    BY <2>1 DEF ListenError
  <2>2. CASE ListenText(s)
    <3>1. pending' \in [Session -> Nat]
      BY <2>2, TextEffect DEF SendDataPacket
    <3>2. wire' \in [Session -> Seq(TextFrame \cup ReplyFrame)]
      <4>1. CASE UNCHANGED wire
        BY <4>1
      <4>2. CASE \E d \in Session : SendDataPacket(d, line[s])
        <5>1. PICK d \in Session : SendDataPacket(d, line[s])
          BY <4>2
        <5>2. line[s] \in TextFrame
          BY <2>2, TextEffect
        <5>3. Append(wire[d], line[s]) \in Seq(TextFrame \cup ReplyFrame)
          BY <5>2
        <5> QED BY <5>1, <5>3 DEF SendDataPacket
      <4> QED BY <2>2, TextEffect, <4>1, <4>2
    <3> QED BY <2>2, <3>1, <3>2 DEF ListenText
  <2>3. CASE ListenOther(s)
    BY <2>3 DEF ListenOther
  <2>4. CASE ListenUnparsed(s)
    BY <2>4 DEF ListenUnparsed
  <2>5. CASE ListenMistyped(s)
    BY <2>5 DEF ListenMistyped, session, streamBuff
  <2> QED BY <1>6, <2>1, <2>2, <2>3, <2>4, <2>5 DEF ListenHandle
<1>7. ASSUME NEW s \in Session, WriteHandler(s) PROVE TypeOK'
  <2> USE DEF server, client, streamBuff
  <2>1. CASE WriteDone(s)
    BY <2>1 DEF WriteDone
  <2>2. CASE WriteLost(s)
    BY <2>2 DEF WriteLost, ClearMyself
  <2> QED BY <1>7, <2>1, <2>2 DEF WriteHandler
<1>8. ASSUME NEW s \in Session, ClientLeaves(s) PROVE TypeOK'
  BY <1>8 DEF ClientLeaves, server, session, streamBuff
<1>9. CASE UNCHANGED vars
  BY <1>9 DEF vars, server, session, streamBuff, client
<1> QED BY <1>1, <1>2, <1>3, <1>4, <1>5, <1>6, <1>7, <1>8, <1>9 DEF Next

\* The variables keep their shape in every reachable state.
THEOREM TypeCorrect == Spec => []TypeOK
<1> QED BY TypeInit, TypeStep, PTL DEF Spec

-----------------------------------------------------------------------------
(* The phases of a session. *)

ChatInv == TypeOK /\ PhaseConsistent /\ DirectoryConsistent /\ OnlyAddressee /\ NewestWaits

LEMMA ChatInit == Init => ChatInv
<1> SUFFICES ASSUME Init PROVE PhaseConsistent /\ DirectoryConsistent /\ OnlyAddressee /\ NewestWaits
  BY TypeInit DEF ChatInv
<1>1. PhaseConsistent
  BY DEF Init, PhaseConsistent
<1>2. DirectoryConsistent
  BY DEF Init, DirectoryConsistent
<1>3. NewestWaits
  BY DEF Init, NewestWaits
<1>4. OnlyAddressee
  BY DEF Init, OnlyAddressee
<1> QED BY <1>1, <1>2, <1>3, <1>4

\* A frame of an accept handler never leaves the stack.
LEMMA StackGrows ==
  ASSUME TypeOK, [Next]_vars, NEW s \in Session, OnStack(s)
  PROVE  OnStack(s)'
<1>1. UNCHANGED acceptStack \/ \E x \in Session \cup {NoSession} : acceptStack' = Append(acceptStack, x)
  BY DEF Next, vars, server, session, streamBuff, client, AcceptFails, Heartbeat, Accept,
         ReadEvent, ReadCompletes, ReadFails, LoginHandler, LoginLost, LoginError,
         LoginUnparsed, LoginWrongType, LoginRejected, LoginBroken, LoginAccepted,
         ListenHandle, ListenError, ListenText, ListenOther, ListenUnparsed, ListenMistyped,
         WriteHandler, WriteDone, WriteLost, ClientLeaves
<1>2. PICK i \in 1..Len(acceptStack) : acceptStack[i] = s
  BY DEF OnStack
<1>3. i \in 1..Len(acceptStack)' /\ acceptStack'[i] = s
  <2>1. CASE UNCHANGED acceptStack
    BY <1>2, <2>1
  <2>2. CASE \E x \in Session \cup {NoSession} : acceptStack' = Append(acceptStack, x)
    BY <1>2, <2>2 DEF TypeOK
  <2> QED BY <1>1, <2>1, <2>2
<1> QED BY <1>3 DEF OnStack

LEMMA PhaseStep ==
  ASSUME TypeOK, PhaseConsistent, DirectoryConsistent, [Next]_vars
  PROVE  PhaseConsistent'
<1> USE DEF PhaseConsistent
<1>0. SUFFICES ASSUME NEW t \in Session
               PROVE  /\ socket'[t] = "none" => op'[t] = "none" /\ userId'[t] = NoUser
                      /\ op'[t] = "login" => socket'[t] = "open" /\ userId'[t] = NoUser
                      /\ op'[t] = "listen" => userId'[t] # NoUser
                      /\ pending'[t] > 0 => userId'[t] # NoUser
                      /\ socket'[t] # "none" => OnStack(t)'
  OBVIOUS
<1>s. OnStack(t) => OnStack(t)'
  BY StackGrows
<1>t. pending[t] \in Nat
  BY DEF TypeOK
<1>1. CASE AcceptFails
  BY <1>1, <1>s DEF AcceptFails, session, client
<1>2. CASE Heartbeat
  BY <1>2, <1>s DEF Heartbeat, session, client
<1>3. ASSUME NEW s \in Session, Accept(s)
      PROVE  /\ socket'[t] = "none" => op'[t] = "none" /\ userId'[t] = NoUser
             /\ op'[t] = "login" => socket'[t] = "open" /\ userId'[t] = NoUser
             /\ op'[t] = "listen" => userId'[t] # NoUser
             /\ pending'[t] > 0 => userId'[t] # NoUser
             /\ socket'[t] # "none" => OnStack(t)'
  <2>1. OnStack(s)'
    <3>1. acceptStack' = Append(acceptStack, s) /\ acceptStack \in Seq(Session \cup {NoSession})
      BY <1>3 DEF Accept, TypeOK
    <3>2. Len(acceptStack) + 1 \in 1..Len(acceptStack') /\ acceptStack'[Len(acceptStack) + 1] = s
      BY <3>1
    <3> QED BY <3>2 DEF OnStack
  <2> QED BY <1>3, <1>s, <2>1 DEF Accept, StartRead, TypeOK
<1>4. ASSUME NEW s \in Session, ReadEvent(s)
      PROVE  UNCHANGED <<socket, op, userId, pending>>
  BY <1>4 DEF ReadEvent, ReadCompletes, ReadFails
<1>5. ASSUME NEW s \in Session, LoginHandler(s)
      PROVE  /\ socket'[t] = "none" => op'[t] = "none" /\ userId'[t] = NoUser
             /\ op'[t] = "login" => socket'[t] = "open" /\ userId'[t] = NoUser
             /\ op'[t] = "listen" => userId'[t] # NoUser
             /\ pending'[t] > 0 => userId'[t] # NoUser
             /\ socket'[t] # "none" => OnStack(t)'
  <2>1. op[s] = "login" /\ socket[s] = "open" /\ userId[s] = NoUser
    BY <1>5 DEF LoginHandler, LoginLost, LoginError, LoginUnparsed, LoginWrongType,
                LoginRejected, LoginBroken, LoginAccepted, LoginRequest, Completed
  <2>2. CASE LoginAccepted(s)
    <3>1. PICK id \in User \cup {ErrId} :
            SendDataPacket(s, Reply(id)) /\ NotifyAuthenticationSuccess(s, id)
      BY <2>2, LoginIds DEF LoginAccepted
    <3>2. id # NoUser
      BY ConstantsAssumption
    <3> QED BY <2>1, <2>2, <3>1, <3>2, <1>s
            DEF LoginAccepted, SendDataPacket, NotifyAuthenticationSuccess, StartRead, TypeOK
  <2>3. CASE LoginLost(s) \/ LoginWrongType(s)
    BY <2>1, <2>3, <1>s DEF LoginLost, LoginWrongType, NoRead, ClearMyself, TypeOK, client
  <2>4. CASE LoginError(s) \/ LoginUnparsed(s) \/ LoginBroken(s)
    BY <2>1, <2>4, <1>s DEF LoginError, LoginUnparsed, LoginBroken, NoRead, TypeOK, server, client
  <2>5. CASE LoginRejected(s)
    BY <2>1, <2>5, <1>s DEF LoginRejected, NoRead, TypeOK, server, client
  <2> QED BY <1>5, <2>2, <2>3, <2>4, <2>5 DEF LoginHandler
<1>6. ASSUME NEW s \in Session, ListenHandle(s)
      PROVE  /\ UNCHANGED <<socket, userId>>
             /\ op'[t] \in {op[t], "none"}
             /\ pending'[t] > 0 => userId[t] # NoUser
  <2>1. CASE ListenText(s)
    <3>1. UNCHANGED <<socket, userId>> /\ op[s] = "listen" /\ op' = [op EXCEPT ![s] = "listen"]
      BY <2>1 DEF ListenText, StartRead, Line, Completed
    <3>2. ASSUME NEW d \in Session, d = idToSessionMap[line[s].dest], line[s].dest \in Id
          PROVE  userId[d] # NoUser
      BY <3>2, ConstantsAssumption DEF DirectoryConsistent
    <3>3. pending'[t] > 0 => userId[t] # NoUser
      <4>1. CASE UNCHANGED pending
        BY <4>1
      <4>2. ASSUME NEW d \in Session, d = idToSessionMap[line[s].dest], SendDataPacket(d, line[s])
            PROVE  pending'[t] > 0 => userId[t] # NoUser
        <5>1. userId[d] # NoUser
          BY <2>1, <3>2, <4>2, TextEffect
        <5> QED BY <5>1, <4>2 DEF SendDataPacket, TypeOK
      <4> QED BY <2>1, <4>1, <4>2, TextEffect
    <3> QED BY <3>1, <3>3 DEF TypeOK
  <2>2. CASE ListenError(s) \/ ListenUnparsed(s)
    BY <2>2 DEF ListenError, ListenUnparsed, NoRead, TypeOK, server
  <2>3. CASE ListenOther(s)
    BY <2>3 DEF ListenOther, Line, Completed, StartRead, TypeOK
  <2>4. CASE ListenMistyped(s)
    BY <2>4 DEF ListenMistyped, session
  <2> QED BY <1>6, <2>1, <2>2, <2>3, <2>4 DEF ListenHandle
<1>7. ASSUME NEW s \in Session, WriteHandler(s)
      PROVE  /\ UNCHANGED <<op, userId>>
             /\ socket'[t] # socket[t] => socket'[t] = "closed" /\ pending[t] > 0
             /\ pending'[t] > 0 => pending[t] > 0
  BY <1>7, <1>t DEF WriteHandler, WriteDone, WriteLost, ClearMyself, TypeOK
<1>8. ASSUME NEW s \in Session, ClientLeaves(s)
      PROVE  UNCHANGED <<socket, op, userId, pending>>
  BY <1>8 DEF ClientLeaves, session
<1>9. CASE UNCHANGED vars
  BY <1>9, <1>s DEF vars, session
<1>10. socket[t] \in {"none", "open", "closed"}
  BY DEF TypeOK
<1>11. CASE \E s \in Session : ListenHandle(s)
  BY <1>6, <1>11, <1>s
<1>12. CASE \E s \in Session : WriteHandler(s)
  BY <1>7, <1>12, <1>s, <1>10
<1> QED BY <1>1, <1>2, <1>3, <1>4, <1>5, <1>11, <1>12, <1>8, <1>9, <1>s DEF Next

-----------------------------------------------------------------------------
(* What a step does to the directory and to the connections. *)

LEMMA StepEffect ==
  ASSUME [Next]_vars
  PROVE  \/ UNCHANGED <<idToSessionMap, userId, wire>>
         \/ \E s \in Session : LoginAccepted(s)
         \/ \E s \in Session : ListenText(s)
<1>1. CASE AcceptFails \/ Heartbeat
  BY <1>1 DEF AcceptFails, Heartbeat, session
<1>2. ASSUME NEW s \in Session, Accept(s) \/ ReadEvent(s) \/ WriteHandler(s) \/ ClientLeaves(s)
      PROVE  UNCHANGED <<idToSessionMap, userId, wire>>
  BY <1>2 DEF Accept, ReadEvent, ReadCompletes, ReadFails, WriteHandler, WriteDone, WriteLost,
              ClientLeaves, server, session
<1>3. ASSUME NEW s \in Session, LoginHandler(s), ~LoginAccepted(s)
      PROVE  UNCHANGED <<idToSessionMap, userId, wire>>
  BY <1>3 DEF LoginHandler, LoginLost, LoginError, LoginUnparsed, LoginWrongType,
              LoginRejected, LoginBroken, server
<1>4. ASSUME NEW s \in Session, ListenHandle(s), ~ListenText(s)
      PROVE  UNCHANGED <<idToSessionMap, userId, wire>>
  BY <1>4 DEF ListenHandle, ListenError, ListenOther, ListenUnparsed, ListenMistyped, server, session
<1>5. CASE UNCHANGED vars
  BY <1>5 DEF vars, server, session
<1> QED BY <1>1, <1>2, <1>3, <1>4, <1>5 DEF Next

\* An accepted login: the first frame of the connection and one directory entry.
LEMMA LoginEffect ==
  ASSUME TypeOK, PhaseConsistent, DirectoryConsistent, NEW s \in Session, LoginAccepted(s)
  PROVE  \E id \in User \cup {ErrId} :
           /\ id # NoUser /\ userId[s] = NoUser /\ wire[s] = <<>>
           /\ wire' = [wire EXCEPT ![s] = <<Reply(id)>>]
           /\ userId' = [userId EXCEPT ![s] = id]
           /\ idToSessionMap' = [idToSessionMap EXCEPT ![id] = s]
<1>1. op[s] = "login"
  BY DEF LoginAccepted, LoginRequest, Completed
<1>2. socket[s] = "open" /\ userId[s] = NoUser
  BY <1>1 DEF PhaseConsistent
<1>3. wire[s] = <<>>
  BY <1>2 DEF DirectoryConsistent
<1>4. PICK id \in User \cup {ErrId} :
         SendDataPacket(s, Reply(id)) /\ NotifyAuthenticationSuccess(s, id)
  BY LoginIds DEF LoginAccepted
<1>5. wire' = [wire EXCEPT ![s] = <<Reply(id)>>]
  BY <1>2, <1>3, <1>4 DEF SendDataPacket, TypeOK
<1> QED BY <1>2, <1>3, <1>4, <1>5, ConstantsAssumption DEF NotifyAuthenticationSuccess

\* A handled text that is written: it is appended to a connection that has its
\* login reply for the text's destination.
LEMMA AppendEffect ==
  ASSUME TypeOK, DirectoryConsistent, NEW s \in Session, ListenText(s), wire' # wire
  PROVE  \E d \in Session :
           /\ d = idToSessionMap[line[s].dest]
           /\ userId[d] # NoUser /\ userId[d] = line[s].dest
           /\ wire[d] # <<>> /\ wire[d][1] = Reply(line[s].dest)
           /\ wire[d] \in Seq(TextFrame \cup ReplyFrame) /\ line[s] \in TextFrame
           /\ wire' = [wire EXCEPT ![d] = Append(wire[d], line[s])]
           /\ Len(wire'[d]) = Len(wire[d]) + 1
           /\ wire'[d][Len(wire[d]) + 1] = line[s]
           /\ \A i \in 1..Len(wire[d]) : wire'[d][i] = wire[d][i]
<1>1. PICK d \in Session : d = idToSessionMap[line[s].dest] /\ SendDataPacket(d, line[s])
  BY TextEffect
<1>2. line[s] \in TextFrame /\ line[s].dest \in Id
  BY TextEffect
<1>3. wire \in [Session -> Seq(TextFrame \cup ReplyFrame)]
  BY DEF TypeOK
<1>4. socket[d] = "open"
  <2>1. CASE socket[d] # "open"
    <3>1. wire' = [wire EXCEPT ![d] = wire[d]]
      BY <1>1, <2>1 DEF SendDataPacket
    <3> QED BY <3>1, <1>3
  <2> QED BY <2>1
<1>5. wire' = [wire EXCEPT ![d] = Append(wire[d], line[s])]
  BY <1>1, <1>4 DEF SendDataPacket
<1>6. /\ userId[d] # NoUser /\ userId[d] = line[s].dest
      /\ wire[d] # <<>> /\ wire[d][1] = Reply(line[s].dest)
  BY <1>1, <1>2, ConstantsAssumption DEF DirectoryConsistent
<1>7. wire[d] \in Seq(TextFrame \cup ReplyFrame) /\ wire'[d] = Append(wire[d], line[s])
  BY <1>3, <1>5
<1>8. /\ Len(wire'[d]) = Len(wire[d]) + 1
      /\ wire'[d][Len(wire[d]) + 1] = line[s]
      /\ \A i \in 1..Len(wire[d]) : wire'[d][i] = wire[d][i]
  BY <1>2, <1>7
<1> QED BY <1>1, <1>2, <1>5, <1>6, <1>7, <1>8

LEMMA DirectoryStep ==
  ASSUME TypeOK, PhaseConsistent, DirectoryConsistent, [Next]_vars
  PROVE  DirectoryConsistent'
<1>1. CASE UNCHANGED <<idToSessionMap, userId, wire>>
  BY <1>1 DEF DirectoryConsistent
<1>2. ASSUME NEW s \in Session, LoginAccepted(s) PROVE DirectoryConsistent'
  <2>1. PICK id \in User \cup {ErrId} :
           /\ id # NoUser /\ userId[s] = NoUser /\ wire[s] = <<>>
           /\ wire' = [wire EXCEPT ![s] = <<Reply(id)>>]
           /\ userId' = [userId EXCEPT ![s] = id]
           /\ idToSessionMap' = [idToSessionMap EXCEPT ![id] = s]
    BY <1>2, LoginEffect
  <2>2. id \in Id /\ s # NoSession
    BY ConstantsAssumption DEF Id
  <2>3. ASSUME NEW u \in Id, idToSessionMap'[u] # NoSession
        PROVE  u # NoUser /\ userId'[idToSessionMap'[u]] = u
    <3>1. CASE u = id
      BY <2>1, <2>2, <3>1 DEF TypeOK
    <3>2. CASE u # id
      <4>1. idToSessionMap'[u] = idToSessionMap[u] /\ idToSessionMap[u] \in Session
        BY <2>1, <2>3, <3>2 DEF TypeOK
      <4>2. u # NoUser /\ userId[idToSessionMap[u]] = u
        BY <2>3, <4>1 DEF DirectoryConsistent
      <4>3. idToSessionMap[u] # s
        BY <2>1, <4>2
      <4> QED BY <2>1, <4>1, <4>2, <4>3 DEF TypeOK
    <3> QED BY <3>1, <3>2
  <2>4. ASSUME NEW t \in Session
        PROVE  IF userId'[t] = NoUser THEN wire'[t] = <<>>
               ELSE /\ wire'[t] # <<>> /\ wire'[t][1] = Reply(userId'[t])
                    /\ idToSessionMap'[userId'[t]] # NoSession
    <3>1. CASE t = s
      BY <2>1, <2>2, <3>1 DEF TypeOK
    <3>2. CASE t # s
      <4>1. userId'[t] = userId[t] /\ wire'[t] = wire[t] /\ userId[t] \in Id
        BY <2>1, <3>2 DEF TypeOK
      <4>2. \A u \in Id : idToSessionMap[u] # NoSession => idToSessionMap'[u] # NoSession
        BY <2>1, <2>2 DEF TypeOK
      <4> QED BY <4>1, <4>2 DEF DirectoryConsistent
    <3> QED BY <3>1, <3>2
  <2> QED BY <2>3, <2>4 DEF DirectoryConsistent
<1>3. ASSUME NEW s \in Session, ListenText(s) PROVE DirectoryConsistent'
  <2>1. UNCHANGED <<idToSessionMap, userId>>
    BY <1>3 DEF ListenText, server
  <2>2. CASE wire' = wire
    BY <2>1, <2>2 DEF DirectoryConsistent
  <2>3. CASE wire' # wire
    <3>1. PICK d \in Session :
            /\ userId[d] # NoUser /\ wire[d] # <<>>
            /\ wire[d] \in Seq(TextFrame \cup ReplyFrame)
            /\ wire' = [wire EXCEPT ![d] = Append(wire[d], line[s])]
            /\ Len(wire'[d]) = Len(wire[d]) + 1
            /\ \A i \in 1..Len(wire[d]) : wire'[d][i] = wire[d][i]
      BY <1>3, <2>3, AppendEffect
    <3>2. wire'[d] # <<>> /\ wire'[d][1] = wire[d][1]
      BY <3>1
    <3>3. \A t \in Session : t # d => wire'[t] = wire[t]
      BY <3>1 DEF TypeOK
    <3> QED BY <2>1, <3>1, <3>2, <3>3 DEF DirectoryConsistent
  <2> QED BY <2>2, <2>3
<1> QED BY StepEffect, <1>1, <1>2, <1>3

LEMMA AddresseeStep ==
  ASSUME TypeOK, PhaseConsistent, DirectoryConsistent, OnlyAddressee, [Next]_vars
  PROVE  OnlyAddressee'
<1> SUFFICES ASSUME NEW t \in Session, NEW i \in 1..Len(wire'[t])
             PROVE  IF i = 1 THEN wire'[t][i] \in ReplyFrame
                    ELSE wire'[t][i] \in TextFrame /\ wire'[t][i].dest = wire'[t][1].user
  BY DEF OnlyAddressee
<1>1. CASE wire' = wire
  BY <1>1 DEF OnlyAddressee
<1>2. ASSUME NEW s \in Session, LoginAccepted(s)
      PROVE  IF i = 1 THEN wire'[t][i] \in ReplyFrame
             ELSE wire'[t][i] \in TextFrame /\ wire'[t][i].dest = wire'[t][1].user
  <2>1. PICK id \in User \cup {ErrId} : wire' = [wire EXCEPT ![s] = <<Reply(id)>>]
    BY <1>2, LoginEffect
  <2>2. Reply(id) \in ReplyFrame
    BY FrameTypes DEF Id
  <2>3. CASE t = s
    BY <2>1, <2>2, <2>3 DEF TypeOK
  <2>4. CASE t # s
    BY <2>1, <2>4 DEF TypeOK, OnlyAddressee
  <2> QED BY <2>3, <2>4
<1>3. ASSUME NEW s \in Session, ListenText(s), wire' # wire
      PROVE  IF i = 1 THEN wire'[t][i] \in ReplyFrame
             ELSE wire'[t][i] \in TextFrame /\ wire'[t][i].dest = wire'[t][1].user
  <2>1. PICK d \in Session :
           /\ wire[d] # <<>> /\ wire[d][1] = Reply(line[s].dest)
           /\ wire[d] \in Seq(TextFrame \cup ReplyFrame) /\ line[s] \in TextFrame
           /\ wire' = [wire EXCEPT ![d] = Append(wire[d], line[s])]
           /\ Len(wire'[d]) = Len(wire[d]) + 1
           /\ wire'[d][Len(wire[d]) + 1] = line[s]
           /\ \A j \in 1..Len(wire[d]) : wire'[d][j] = wire[d][j]
    BY <1>3, AppendEffect
  <2>2. CASE t # d
    BY <2>1, <2>2 DEF TypeOK, OnlyAddressee
  <2>3. CASE t = d /\ i <= Len(wire[d])
    BY <2>1, <2>3 DEF OnlyAddressee
  <2>4. CASE t = d /\ i = Len(wire[d]) + 1
    <3>1. wire'[d][1] = Reply(line[s].dest) /\ i # 1
      BY <2>1, <2>4
    <3> QED BY <2>1, <2>4, <3>1 DEF Reply
  <2> QED BY <2>1, <2>2, <2>3, <2>4
<1> QED BY StepEffect, <1>1, <1>2, <1>3

-----------------------------------------------------------------------------
(* The numbers of the texts. *)

\* What waits in a buffer stays, or goes, or is new and has the next number.
BufferKept(t) ==
  op'[t] = op[t] /\ line'[t] = line[t] /\ sent'[t] = sent[t]
BufferEmptied(t) ==
  ~(op'[t] = "listen" /\ line'[t].type = "message_text") /\ sent'[t] >= sent[t]
BufferFilled(t) ==
  /\ sent'[t] = sent[t] + 1
  /\ line'[t].type = "message_text" => line'[t].from = t /\ line'[t].n = sent'[t]

LEMMA BufferEffect ==
  ASSUME TypeOK, [Next]_vars, NEW t \in Session
  PROVE  BufferKept(t) \/ BufferEmptied(t) \/ BufferFilled(t)
<1> USE DEF BufferKept, BufferEmptied, BufferFilled
<1>n. NoLine.type # "message_text" /\ Garbage.type # "message_text"
  BY DEF NoLine, Garbage
<1>s. sent[t] \in Nat
  BY ConstantsAssumption DEF TypeOK
<1>1. CASE AcceptFails \/ Heartbeat
  BY <1>1 DEF AcceptFails, Heartbeat, session, streamBuff, client
<1>2. ASSUME NEW s \in Session, \/ UNCHANGED <<op, line>>
                               \/ \E k \in {"none", "login", "listen"} :
                                    op' = [op EXCEPT ![s] = k] /\ ClearStreambuf(s),
             UNCHANGED sent
      PROVE  BufferKept(t) \/ BufferEmptied(t)
  <2>1. CASE UNCHANGED <<op, line>>
    BY <1>2, <2>1
  <2>2. CASE \E k \in {"none", "login", "listen"} : op' = [op EXCEPT ![s] = k] /\ ClearStreambuf(s)
    <3>1. CASE s = t
      BY <1>2, <1>n, <1>s, <2>2, <3>1 DEF ClearStreambuf, TypeOK
    <3>2. CASE s # t
      BY <1>2, <2>2, <3>2 DEF ClearStreambuf, TypeOK
    <3> QED BY <3>1, <3>2
  <2> QED BY <1>2, <2>1, <2>2
<1>3. ASSUME NEW s \in Session, ReadCompletes(s)
      PROVE  BufferKept(t) \/ BufferEmptied(t) \/ BufferFilled(t)
  <2>1. UNCHANGED op
    BY <1>3 DEF ReadCompletes
  <2>2. PICK f \in {Garbage} \cup ClientFrame(s) : line' = [line EXCEPT ![s] = f]
    BY <1>3 DEF ReadCompletes
  <2>3. sent' = [sent EXCEPT ![s] = IF op[s] = "listen" THEN sent[s] + 1 ELSE sent[s]]
    BY <1>3 DEF ReadCompletes
  <2>4. CASE t # s
    BY <2>1, <2>2, <2>3, <2>4 DEF TypeOK
  <2>5. CASE t = s /\ op[s] # "listen"
    BY <2>1, <2>3, <2>5, <1>s DEF TypeOK
  <2>6. CASE t = s /\ op[s] = "listen"
    <3>1. line'[t] = f /\ sent'[t] = sent[t] + 1
      BY <2>2, <2>3, <2>6 DEF TypeOK
    <3>2. f.type = "message_text" => f \in {Text(s, d, sent[s] + 1) : d \in Id}
      BY <1>n, ConstantsAssumption DEF ClientFrame, Login
    <3>3. f.type = "message_text" => f.from = s /\ f.n = sent[s] + 1
      BY <3>2 DEF Text
    <3> QED BY <2>6, <3>1, <3>3
  <2> QED BY <2>4, <2>5, <2>6
<1>4. ASSUME NEW s \in Session, Accept(s) \/ ReadFails(s) \/ WriteHandler(s) \/ ClientLeaves(s)
      PROVE  BufferKept(t) \/ BufferEmptied(t)
  <2>1. UNCHANGED <<op, line, sent>> \/ Accept(s)
    BY <1>4 DEF ReadFails, WriteHandler, WriteDone, WriteLost, ClientLeaves,
                session, streamBuff, client
  <2>2. CASE Accept(s)
    BY <1>2, <2>2 DEF Accept, StartRead
  <2> QED BY <1>2, <2>1, <2>2
<1>5. ASSUME NEW s \in Session, LoginHandler(s)
      PROVE  BufferKept(t) \/ BufferEmptied(t)
  BY <1>2, <1>5 DEF LoginHandler, LoginLost, LoginError, LoginUnparsed, LoginWrongType,
      LoginRejected, LoginBroken, LoginAccepted, NoRead, StartRead, client
<1>6. ASSUME NEW s \in Session, ListenHandle(s)
      PROVE  BufferKept(t) \/ BufferEmptied(t)
  <2>1. CASE ListenMistyped(s)
    BY <1>2, <2>1 DEF ListenMistyped, client, session, streamBuff
  <2>2. CASE ListenError(s) \/ ListenUnparsed(s)
    BY <1>2, <2>2 DEF ListenError, ListenUnparsed, NoRead, client
  <2>3. CASE ListenText(s) \/ ListenOther(s)
    BY <1>2, <2>3 DEF ListenText, ListenOther, StartRead, client
  <2> QED BY <1>6, <2>1, <2>2, <2>3 DEF ListenHandle
<1>7. CASE UNCHANGED vars
  BY <1>7 DEF vars, session, streamBuff, client
<1> QED BY <1>1, <1>3, <1>4, <1>5, <1>6, <1>7 DEF Next, ReadEvent

LEMMA NewestStep ==
  ASSUME ChatInv, [Next]_vars
  PROVE  NewestWaits'
<1> USE DEF ChatInv
<1> DEFINE Old(t, s, i) == wire[t][i].from = s =>
             IF op[s] = "listen" /\ line[s].type = "message_text"
             THEN wire[t][i].n < sent[s] ELSE wire[t][i].n <= sent[s]
           New(t, s, i) == wire'[t][i].from = s =>
             IF op'[s] = "listen" /\ line'[s].type = "message_text"
             THEN wire'[t][i].n < sent'[s] ELSE wire'[t][i].n <= sent'[s]
<1>1. SUFFICES ASSUME NEW s \in Session
               PROVE  /\ op'[s] = "listen" /\ line'[s].type = "message_text" =>
                           line'[s].from = s /\ line'[s].n = sent'[s]
                      /\ \A t \in Session : \A i \in 2..Len(wire'[t]) : New(t, s, i)
  BY DEF NewestWaits, IsText
<1>2. sent[s] \in Nat
  BY ConstantsAssumption DEF TypeOK
<1>3. BufferKept(s) \/ BufferEmptied(s) \/ BufferFilled(s)
  BY BufferEffect
<1>4. op'[s] = "listen" /\ line'[s].type = "message_text" =>
        line'[s].from = s /\ line'[s].n = sent'[s]
  BY <1>3 DEF BufferKept, BufferEmptied, BufferFilled, NewestWaits, IsText
<1>5. ASSUME NEW t \in Session, NEW i \in 2..Len(wire[t]) PROVE Old(t, s, i)
  BY DEF NewestWaits, IsText
<1>6. sent'[s] \in Nat /\ sent'[s] >= sent[s]
  <2>1. TypeOK'
    BY TypeStep
  <2>2. sent'[s] \in Nat
    BY <2>1, ConstantsAssumption DEF TypeOK
  <2> QED BY <1>2, <1>3, <2>2 DEF BufferKept, BufferEmptied, BufferFilled
<1>7. ASSUME NEW t \in Session, NEW i \in 2..Len(wire'[t])
      PROVE  New(t, s, i)
  <2>1. CASE i \in 2..Len(wire[t]) /\ wire'[t][i] = wire[t][i]
    <3>1. wire[t][i] \in TextFrame
      BY <2>1 DEF OnlyAddressee
    <3>2. wire[t][i].n \in Nat
      BY <3>1 DEF TextFrame
    <3> QED BY <3>2, <2>1, <1>2, <1>3, <1>5, <1>6 DEF BufferKept, BufferEmptied, BufferFilled
  <2>2. ASSUME NEW r \in Session, ListenText(r), wire'[t][i] = line[r] PROVE New(t, s, i)
    <3>1. op[r] = "listen" /\ line[r].type = "message_text"
      BY <2>2 DEF ListenText, Line, Completed
    <3>2. line[r].from = r /\ line[r].n = sent[r]
      BY <3>1 DEF NewestWaits, IsText
    <3>3. line'[r] = NoLine /\ NoLine.type # "message_text"
      BY <2>2 DEF ListenText, StartRead, ClearStreambuf, TypeOK, NoLine
    <3> QED BY <2>2, <3>2, <3>3, <1>2, <1>6
  <2>3. CASE wire' = wire
    BY <2>1, <2>3
  <2>4. ASSUME NEW r \in Session, LoginAccepted(r)
        PROVE  i \in 2..Len(wire[t]) /\ wire'[t][i] = wire[t][i]
    <3>1. PICK id \in User \cup {ErrId} : wire' = [wire EXCEPT ![r] = <<Reply(id)>>]
      BY <2>4, LoginEffect
    <3> QED BY <3>1 DEF TypeOK
  <2>5. ASSUME NEW r \in Session, ListenText(r), wire' # wire PROVE New(t, s, i)
    <3>1. PICK d \in Session :
           /\ wire[d] \in Seq(TextFrame \cup ReplyFrame)
           /\ wire' = [wire EXCEPT ![d] = Append(wire[d], line[r])]
           /\ Len(wire'[d]) = Len(wire[d]) + 1
           /\ wire'[d][Len(wire[d]) + 1] = line[r]
           /\ \A j \in 1..Len(wire[d]) : wire'[d][j] = wire[d][j]
      BY <2>5, AppendEffect
    <3>2. CASE t # d \/ i <= Len(wire[d])
      <4>1. i \in 2..Len(wire[t]) /\ wire'[t][i] = wire[t][i]
        BY <3>1, <3>2 DEF TypeOK
      <4> QED BY <2>1, <4>1
    <3>3. CASE t = d /\ i = Len(wire[d]) + 1
      BY <2>2, <2>5, <3>1, <3>3
    <3> QED BY <3>1, <3>2, <3>3
  <2> QED BY StepEffect, <2>1, <2>3, <2>4, <2>5
<1> QED BY <1>4, <1>7

-----------------------------------------------------------------------------
(* The invariant, and what follows from it. *)

LEMMA ChatStep == ChatInv /\ [Next]_vars => ChatInv'
<1> SUFFICES ASSUME ChatInv, [Next]_vars PROVE ChatInv'
  OBVIOUS
<1>1. TypeOK'
  BY TypeStep DEF ChatInv
<1>2. PhaseConsistent' /\ DirectoryConsistent' /\ OnlyAddressee'
  BY PhaseStep, DirectoryStep, AddresseeStep DEF ChatInv
<1> QED BY <1>1, <1>2, NewestStep DEF ChatInv

\* The inductive invariant: shapes, phases, directory, addressees and numbers.
THEOREM ChatIsConsistent == Spec => []ChatInv
<1> QED BY ChatInit, ChatStep, PTL DEF Spec

\* What each session reads, owes and holds fits its phase.
THEOREM PhasesAreConsistent == Spec => []PhaseConsistent
<1>1. ChatInv => PhaseConsistent
  BY DEF ChatInv
<1> QED BY <1>1, ChatIsConsistent, PTL

\* The id map leads to sessions that were told the id, through every failing login.
THEOREM DirectoryIsConsistent == Spec => []DirectoryConsistent
<1>1. ChatInv => DirectoryConsistent
  BY DEF ChatInv
<1> QED BY <1>1, ChatIsConsistent, PTL

\* A text that waits in a buffer is newer than all its sender's forwarded ones.
THEOREM WaitingIsNewest == Spec => []NewestWaits
<1>1. ChatInv => NewestWaits
  BY DEF ChatInv
<1> QED BY <1>1, ChatIsConsistent, PTL

LEMMA OpenIsListedStep ==
  ASSUME TypeOK, OpenIsListed, [Next]_vars
  PROVE  OpenIsListed'
<1>1. CASE UNCHANGED <<socket, sessionList>>
  BY <1>1 DEF OpenIsListed
<1>2. ASSUME NEW s \in Session, Accept(s) PROVE OpenIsListed'
  BY <1>2 DEF Accept, OpenIsListed, TypeOK
<1>3. ASSUME NEW s \in Session, ClearMyself(s) PROVE OpenIsListed'
  BY <1>3 DEF ClearMyself, OpenIsListed, TypeOK
<1>4. ASSUME NEW s \in Session, LoginRejected(s) PROVE OpenIsListed'
  <2>1. socket' = [socket EXCEPT ![s] = "closed"] /\ UNCHANGED sessionList
    BY <1>4 DEF LoginRejected, server
  <2> QED BY <2>1 DEF OpenIsListed, TypeOK
<1>5. ASSUME NEW s \in Session, LoginHandler(s) PROVE OpenIsListed'
  <2>1. ClearMyself(s) \/ LoginRejected(s) \/ UNCHANGED <<socket, sessionList>>
    BY <1>5, Zenon DEF LoginHandler, LoginLost, LoginError, LoginUnparsed, LoginWrongType,
       LoginBroken, LoginAccepted, server
  <2> QED BY <2>1, <1>1, <1>3, <1>4
<1>6. ASSUME NEW s \in Session,
             ReadEvent(s) \/ ListenHandle(s) \/ WriteHandler(s) \/ ClientLeaves(s)
      PROVE  OpenIsListed'
  <2>1. ClearMyself(s) \/ UNCHANGED <<socket, sessionList>>
    BY <1>6, Zenon DEF ReadEvent, ReadCompletes, ReadFails, ListenHandle, ListenError, ListenText,
       ListenOther, ListenUnparsed, ListenMistyped, WriteHandler, WriteDone, WriteLost,
       ClientLeaves, server, session
  <2> QED BY <2>1, <1>1, <1>3
<1>7. CASE AcceptFails \/ Heartbeat \/ UNCHANGED vars
  <2>1. UNCHANGED <<socket, sessionList>>
    BY <1>7, Zenon DEF AcceptFails, Heartbeat, CheckHeartbeat, vars, server, session
  <2> QED BY <2>1, <1>1
<1> QED BY <1>2, <1>5, <1>6, <1>7 DEF Next

\* An open socket is owned by a session in the list, whichever of the clean-ups ran.
THEOREM OpenSocketsAreListed == Spec => []OpenIsListed
<1>1. Init => OpenIsListed
  BY DEF Init, OpenIsListed
<1>2. TypeOK /\ OpenIsListed /\ [Next]_vars => OpenIsListed'
  BY OpenIsListedStep
<1> QED BY <1>1, <1>2, TypeCorrect, PTL DEF Spec

\* Nothing but the handler of a read text takes it from the buffer.
LEMMA TextIsHandled ==
  ASSUME TypeOK, PhaseConsistent, [Next]_vars, NEW s \in Session,
         Line(s, "message_text"), line'[s] # line[s]
  PROVE  ListenText(s)
<1>1. op[s] = "listen" /\ ec[s] = "ok" /\ line[s].type = "message_text"
  BY DEF Line, Completed
<1>2. ASSUME NEW t \in Session, t # s, NEW x, line' = [line EXCEPT ![t] = x] PROVE FALSE
  BY <1>2 DEF TypeOK
<1>3. ASSUME NEW t \in Session, Accept(t) \/ ReadEvent(t) PROVE FALSE
  <2>1. t # s
    BY <1>1, <1>3 DEF Accept, ReadEvent, ReadCompletes, ReadFails, Reading, PhaseConsistent
  <2>2. (\E x : line' = [line EXCEPT ![t] = x]) \/ UNCHANGED line
    BY <1>3, Zenon DEF Accept, StartRead, ClearStreambuf, ReadEvent, ReadCompletes, ReadFails,
                       streamBuff
  <2> QED BY <1>2, <2>1, <2>2
<1>4. ASSUME NEW t \in Session, LoginHandler(t) PROVE FALSE
  <2>1. op[t] = "login"
    BY <1>4 DEF LoginHandler, LoginLost, LoginError, LoginUnparsed, LoginWrongType,
                LoginRejected, LoginBroken, LoginAccepted, LoginRequest, Completed
  <2>2. line' = [line EXCEPT ![t] = NoLine]
    BY <1>4, Zenon DEF LoginHandler, LoginLost, LoginError, LoginUnparsed, LoginWrongType,
                LoginRejected, LoginBroken, LoginAccepted, StartRead, NoRead, ClearStreambuf
  <2> QED BY <1>1, <1>2, <2>1, <2>2
<1>5. ASSUME NEW t \in Session, ListenHandle(t), ~ListenText(s) PROVE FALSE
  <2>1. CASE t = s
    BY <1>1, <1>5, <2>1 DEF ListenHandle, ListenError, ListenOther, ListenUnparsed,
                            ListenMistyped, Line, Completed
  <2>2. CASE t # s
    <3>1. line' = [line EXCEPT ![t] = NoLine] \/ UNCHANGED line
      BY <1>5, Zenon DEF ListenHandle, ListenError, ListenText, ListenOther, ListenUnparsed,
                  ListenMistyped, StartRead, NoRead, ClearStreambuf, session, streamBuff
    <3> QED BY <1>2, <2>2, <3>1
  <2> QED BY <2>1, <2>2
<1>6. ASSUME NEW t \in Session, WriteHandler(t) \/ ClientLeaves(t) PROVE FALSE
  BY <1>6 DEF WriteHandler, WriteDone, WriteLost, ClientLeaves, session, streamBuff
<1>7. CASE AcceptFails \/ Heartbeat \/ UNCHANGED vars
  BY <1>7 DEF AcceptFails, Heartbeat, vars, session, streamBuff
<1> QED BY <1>3, <1>4, <1>5, <1>6, <1>7 DEF Next

\* A text that has been read goes to the open connection registered for its destid,
\* and only there, though the map keeps entries of sessions that were cleaned up:
\* an open one is in the list, so its weak pointer has not expired.
THEOREM TextsAreForwarded == Spec => ReadTextForwarded
<1>1. TypeOK /\ PhaseConsistent /\ OpenIsListed /\ [Next]_vars
      => [\A s, d \in Session :
            ( /\ Line(s, "message_text") /\ line'[s] # line[s]
              /\ idToSessionMap[line[s].dest] = d /\ socket[d] = "open" )
            => wire' = [wire EXCEPT ![d] = Append(@, line[s])]]_vars
  <2> SUFFICES ASSUME TypeOK, PhaseConsistent, OpenIsListed, [Next]_vars,
                      NEW s \in Session, NEW d \in Session,
                      Line(s, "message_text"), line'[s] # line[s],
                      idToSessionMap[line[s].dest] = d, socket[d] = "open"
               PROVE  wire' = [wire EXCEPT ![d] = Append(@, line[s])]
    OBVIOUS
  <2>1. ListenText(s)
    BY TextIsHandled
  <2>2. GetSessionById(line[s].dest) = d /\ d # NoSession
    BY ConstantsAssumption DEF GetSessionById, Alive, OpenIsListed
  <2>3. SendDataPacket(d, line[s])
    BY <2>1, <2>2 DEF ListenText
  <2> QED BY <2>3 DEF SendDataPacket
<1> QED BY <1>1, TypeCorrect, PhasesAreConsistent, OpenSocketsAreListed, PTL
        DEF Spec, ReadTextForwarded

\* A connection is written a login reply first and then only texts for the id in it.
THEOREM OnlyTheAddressee == Spec => []OnlyAddressee
<1>1. ChatInv => OnlyAddressee
  BY DEF ChatInv
<1> QED BY <1>1, ChatIsConsistent, PTL

\* The callback captured by reference never outlives the frame it refers to.
THEOREM CallbackIsValid == Spec => []NoDanglingCallback
<1>1. ChatInv => NoDanglingCallback
  BY DEF ChatInv, PhaseConsistent, NoDanglingCallback
<1> QED BY <1>1, ChatIsConsistent, PTL

\* The raw this in a write's completion never outlives the session.
THEOREM ThisIsValid == Spec => []NoDanglingThis
<1>1. ChatInv => NoDanglingThis
  BY DEF ChatInv, PhaseConsistent, NoDanglingThis, Alive
<1> QED BY <1>1, ChatIsConsistent, PTL

-----------------------------------------------------------------------------
(* The chat server implements the relay. *)

LEMMA RelayInitially == Init => R!Init
  BY DEF Init, R!Init

\* An accepted login is the relay's Login.
LEMMA LoginIsLogin ==
  ASSUME ChatInv, NEW s \in Session, LoginAccepted(s)
  PROVE  \E id \in Id : R!Login(s, id)
<1>1. PICK id \in User \cup {ErrId} :
        /\ wire[s] = <<>>
        /\ wire' = [wire EXCEPT ![s] = <<Reply(id)>>]
        /\ idToSessionMap' = [idToSessionMap EXCEPT ![id] = s]
  BY LoginEffect DEF ChatInv
<1>2. R!Login(s, id)
  BY <1>1 DEF R!Login, R!Reply, Reply
<1> QED BY <1>2 DEF Id

\* A text that is written is the relay's Forward, one that is dropped a stutter.
LEMMA TextIsForward ==
  ASSUME ChatInv, NEW s \in Session, ListenText(s), wire' # wire
  PROVE  \E m \in R!Texts : R!Forward(m)
<1> USE DEF ChatInv
<1>1. PICK d \in Session :
        /\ d = idToSessionMap[line[s].dest]
        /\ line[s] \in TextFrame
        /\ wire' = [wire EXCEPT ![d] = Append(wire[d], line[s])]
  BY AppendEffect
<1>2. op[s] = "listen" /\ IsText(line[s]) /\ UNCHANGED idToSessionMap
  BY DEF ListenText, Line, Completed, IsText, server
<1>3. line[s].from = s /\ line[s].n = sent[s]
  BY <1>2 DEF NewestWaits
<1>4. \A t \in Session : \A i \in 2..Len(wire[t]) :
        wire[t][i].from = s => wire[t][i].n < sent[s]
  BY <1>2 DEF NewestWaits
<1>5. wire[s] # <<>>
  BY <1>2 DEF PhaseConsistent, DirectoryConsistent
<1>6. line[s] \in R!Texts
  BY <1>1, <1>3 DEF R!Texts, TextFrame, TypeOK
<1>7. d # NoSession
  BY ConstantsAssumption
<1>8. R!Forward(line[s])
  BY <1>1, <1>2, <1>3, <1>4, <1>5, <1>7 DEF R!Forward, R!Newer
<1> QED BY <1>6, <1>8

LEMMA RelaySimulation == ChatInv /\ [Next]_vars => [R!Next]_R!vars
<1> SUFFICES ASSUME ChatInv, [Next]_vars PROVE [R!Next]_R!vars
  OBVIOUS
<1>1. CASE UNCHANGED <<idToSessionMap, userId, wire>>
  BY <1>1 DEF R!vars
<1>2. CASE \E s \in Session : LoginAccepted(s)
  BY <1>2, LoginIsLogin DEF R!Next
<1>3. ASSUME NEW s \in Session, ListenText(s) PROVE [R!Next]_R!vars
  <2>1. CASE wire' = wire
    BY <1>3, <2>1 DEF ListenText, server, R!vars
  <2>2. CASE wire' # wire
    BY <1>3, <2>2, TextIsForward DEF R!Next
  <2> QED BY <2>1, <2>2
<1> QED BY StepEffect, <1>1, <1>2, <1>3

\* Every behaviour of the chat server is one of the relay: a login is a Login, a
\* written text a Forward, and every other handler, error or clean-up a stutter.
THEOREM ChatImplementsRelay == Spec => ImplementsRelay
<1>1. Spec => R!Init /\ [][R!Next]_R!vars
  BY RelayInitially, RelaySimulation, ChatIsConsistent, PTL DEF Spec
<1> QED BY <1>1 DEF ImplementsRelay, R!Spec

RP == INSTANCE RelayProofs WITH directory <- idToSessionMap, delivered <- wire

\* Texts of a sender are written in order and each at most once: what the relay
\* promises, the chat server keeps.
THEOREM TextsAreOrderedOnce == Spec => []OrderedOnce
<1>1. RP!Spec => []RP!OrderedOnce
  BY RP!RelayOrderedOnce, ConstantsAssumption
<1>2. R!Spec => []RP!OrderedOnce
  BY <1>1 DEF R!Spec, RP!Spec, R!Init, RP!Init, R!Next, RP!Next, R!vars, RP!vars,
              R!Login, RP!Login, R!Forward, RP!Forward, R!Newer, RP!Newer,
              R!Texts, RP!Texts, R!Reply, RP!Reply
<1> QED BY <1>2, ChatImplementsRelay, PTL DEF ImplementsRelay, RP!OrderedOnce, OrderedOnce

=============================================================================
