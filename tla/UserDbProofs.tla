---------------------------- MODULE UserDbProofs ----------------------------
(* Proofs about the requests of the servers to the database: what is answered *)
(* when every query works, and what still holds when any of them fails.       *)
EXTENDS UserDb, TLAPS

-----------------------------------------------------------------------------
(* The queries read a row from either end. *)

LEMMA RowOfFriend ==
  ASSUME NEW i \in DOMAIN t_user_relationship, NEW u, NEW v
  PROVE  Befriended(i, u, v) <=> i \in RowsOf(u) /\ FriendId(i, u) = v
<1> DEFINE r == t_user_relationship[i]
<1>1. Befriended(i, u, v) <=> (r.id1 = u /\ r.id2 = v) \/ (r.id1 = v /\ r.id2 = u)
  BY SMT DEF Befriended, Ends
<1>2. i \in RowsOf(u) <=> r.id1 = u \/ r.id2 = u
  BY DEF RowsOf
<1>3. FriendId(i, u) = IF r.id1 = u THEN r.id2 ELSE r.id1
  BY DEF FriendId
<1> QED BY <1>1, <1>2, <1>3, SMT

\* The first and the second user of a row are told different columns of it.
LEMMA TwoNames ==
  ASSUME NEW i \in DOMAIN t_user_relationship, NEW u, NEW v, Ends(i) = <<u, v>>, u # v
  PROVE  /\ MarkName(i, u) = t_user_relationship[i].mark2
         /\ MarkName(i, v) = t_user_relationship[i].mark1
<1>1. t_user_relationship[i].id1 = u /\ t_user_relationship[i].id2 = v
  BY SMT DEF Ends
<1> QED BY <1>1, SMT DEF MarkName

\* Each user of a friendship is told of it, by the same row, and with the name that
\* the row has for the other, whatever the table holds.
THEOREM FriendshipIsMutual == Spec => []MutualFriends
<1>1. MutualFriends
  <2> SUFFICES ASSUME NEW i \in DOMAIN t_user_relationship,
                      NEW u \in UserId, NEW v \in UserId, Ends(i) = <<u, v>>
               PROVE  /\ i \in RowsOf(u) \cap RowsOf(v)
                      /\ FriendId(i, u) = v /\ FriendId(i, v) = u
                      /\ u # v => /\ MarkName(i, u) = t_user_relationship[i].mark2
                                  /\ MarkName(i, v) = t_user_relationship[i].mark1
    BY Zenon DEF MutualFriends
  <2>1. Befriended(i, u, v) /\ Befriended(i, v, u)
    BY DEF Befriended
  <2>2. /\ i \in RowsOf(u) /\ FriendId(i, u) = v
        /\ i \in RowsOf(v) /\ FriendId(i, v) = u
    BY <2>1, RowOfFriend
  <2> QED BY <2>2, TwoNames
<1> QED BY <1>1, PTL

-----------------------------------------------------------------------------
(* The inductive invariant. *)

\* The rows of the tables, of which no step makes or changes any.
Rows ==
  /\ DOMAIN t_user \subseteq UserId
  /\ \A u \in DOMAIN t_user : t_user[u].avatar \in Path \cup {Null}
  /\ \A i \in DOMAIN t_user_relationship :
       /\ t_user_relationship[i].id1 \in UserId
       /\ t_user_relationship[i].id2 \in UserId
       /\ t_user_relationship[i].mark1 \in Mark \cup {Null}
       /\ t_user_relationship[i].mark2 \in Mark \cup {Null}

\* Between its queries a login has credentials, and then an id.
LoginUnderWay ==
  /\ pc \in {"id", "friends"} =>
       /\ request.kind = "login"
       /\ answer = Nothing
       /\ HaveCredentials(request.name, request.password) # {}
  /\ pc = "friends" => who \in Named(request.name) \/ (failed /\ who = ErrId)

\* A request for all images works through the rows of the user: those it has done
\* are in the answer, unless the query failed or there is no avatar.
ImagesUnderWay ==
  pc = "paths" =>
    /\ request.kind = "images" /\ who = request.id
    /\ answer.kind = "images"
    /\ left \subseteq RowsOf(who)
    /\ ~failed /\ running =>
         \A i \in RowsOf(who) \ left :
           FriendId(i, who) \in DOMAIN t_user =>
             <<FriendId(i, who), t_user[FriendId(i, who)].avatar>> \in answer.sent

DbInv ==
  /\ Rows
  /\ TypeOK
  /\ LoginUnderWay
  /\ AcceptedWhole
  /\ ImagesUnderWay
  /\ ImagesOfFriends
  /\ TrueUnlessFailed
  /\ EndsForAvatarOnly

LEMMA RowsInit == Init => Rows
<1> SUFFICES ASSUME Init PROVE Rows
  OBVIOUS
<1>1. PICK ids \in SUBSET UserId : t_user \in [ids -> Account]
  BY Zenon DEF Init
<1>2. PICK n \in 0..MaxRelations : t_user_relationship \in [1..n -> Relation]
  BY Zenon DEF Init
<1>3. \A u \in DOMAIN t_user : t_user[u] \in Account
  BY <1>1
<1>4. \A i \in DOMAIN t_user_relationship : t_user_relationship[i] \in Relation
  BY <1>2
<1> QED BY <1>1, <1>3, <1>4 DEF Rows, Account, Relation

LEMMA DbInit == Init => DbInv
<1> SUFFICES ASSUME Init PROVE DbInv
  OBVIOUS
<1>1. TypeOK
  BY Zenon DEF Init, TypeOK
<1>2. answer.kind = "nothing" /\ request.kind = "nothing" /\ answer = Nothing
  BY DEF Init, Nothing
<1>3. Nothing # Rejected /\ Nothing # Broken
  BY DEF Nothing, Rejected, Broken
<1>4. LoginUnderWay /\ ImagesUnderWay
  BY Zenon DEF Init, LoginUnderWay, ImagesUnderWay
<1>5. AcceptedWhole /\ ImagesOfFriends
  BY <1>2 DEF AcceptedWhole, ImagesOfFriends
<1>6. TrueUnlessFailed
  BY <1>2, <1>3 DEF TrueUnlessFailed
<1>7. EndsForAvatarOnly
  BY Zenon DEF Init, EndsForAvatarOnly
<1> QED BY RowsInit, <1>1, <1>4, <1>5, <1>6, <1>7, Zenon DEF DbInv

LEMMA RowsKept == ASSUME Rows, UNCHANGED tables PROVE Rows'
  BY Zenon DEF Rows, tables

\* The kinds of answers exclude each other.
LEMMA Kinds ==
  /\ \A sent : Images(sent).kind = "images" /\ Images(sent).sent = sent
               /\ Images(sent) # Rejected /\ Images(sent) # Broken
  /\ \A u, f : Accepted(u, f).kind = "accepted" /\ Accepted(u, f).id = u
               /\ Accepted(u, f).friends = f
               /\ Accepted(u, f) # Rejected /\ Accepted(u, f) # Broken
  /\ Nothing.kind = "nothing" /\ Rejected.kind = "rejected" /\ Broken.kind = "broken"
  /\ \A k, n, p, u : Asked(k, n, p, u).kind = k /\ Asked(k, n, p, u).name = n
               /\ Asked(k, n, p, u).password = p /\ Asked(k, n, p, u).id = u
  BY DEF Images, Accepted, Nothing, Rejected, Broken, Asked

\* What a request says it takes from the tables.
LEMMA ExpectedIs ==
  ASSUME NEW u, NEW p
  PROVE  p \in Expected(u) <=>
           \E i \in RowsOf(u) : FriendId(i, u) \in DOMAIN t_user
                                /\ p = <<FriendId(i, u), t_user[FriendId(i, u)].avatar>>
<1>1. RowsOf(u) \subseteq DOMAIN t_user_relationship
  BY DEF RowsOf
<1> QED BY <1>1, RowOfFriend, Zenon DEF Expected

LEMMA CheckUserInfoKeeps ==
  ASSUME DbInv, NEW name \in Name, NEW password \in Password, CheckUserInfo(name, password)
  PROVE  DbInv'
<1>1. Rows'
  BY RowsKept DEF DbInv, CheckUserInfo
<1>2. /\ request' = Asked("login", name, password, ErrId)
      /\ UNCHANGED <<tables, running, who, left>> /\ running
      /\ answer' \in {Nothing, Rejected} /\ pc' \in {"id", "idle"}
      /\ conn' \in {"up", "down"} /\ failed' \in BOOLEAN
      /\ pc' = "id" => answer' = Nothing /\ HaveCredentials(name, password) # {}
      /\ answer' = Rejected /\ ~failed' => HaveCredentials(name, password) = {}
  <2>1. Nothing # Rejected
    BY DEF Nothing, Rejected
  <2> QED BY <2>1, Zenon DEF CheckUserInfo, At, Works, Fails, DbInv, TypeOK
<1>3. request'.kind = "login" /\ request'.name = name /\ request'.password = password
      /\ answer'.kind \in {"nothing", "rejected"} /\ answer' # Broken
  BY <1>2, Kinds DEF Broken, Rejected, Nothing
<1>4. TypeOK'
  BY <1>2, Zenon DEF DbInv, TypeOK, tables, FriendList
<1>5. LoginUnderWay'
  BY <1>2, <1>3 DEF LoginUnderWay, HaveCredentials, tables
<1>6. AcceptedWhole' /\ ImagesOfFriends' /\ ImagesUnderWay'
  BY <1>2, <1>3 DEF AcceptedWhole, ImagesOfFriends, ImagesUnderWay
<1>7. TrueUnlessFailed'
  BY <1>2, <1>3 DEF TrueUnlessFailed, HaveCredentials, tables
<1>8. EndsForAvatarOnly'
  BY <1>2, Zenon DEF EndsForAvatarOnly
<1> QED BY <1>1, <1>4, <1>5, <1>6, <1>7, <1>8, Zenon DEF DbInv

LEMMA QueryUserIdKeeps == ASSUME DbInv, QueryUserId PROVE DbInv'
<1>1. Rows'
  BY RowsKept DEF DbInv, QueryUserId
<1>2. /\ UNCHANGED <<tables, running, request, left, answer>>
      /\ running /\ pc = "id" /\ pc' = "friends"
      /\ conn' \in {"up", "down"} /\ failed' \in BOOLEAN
      /\ who' \in Named(request.name) \/ (failed' /\ who' = ErrId)
      /\ who' \in UserId \cup {ErrId}
  BY DEF QueryUserId, At, Works, Fails, DbInv, TypeOK, Rows, Named
<1>3. answer = Nothing /\ answer.kind = "nothing" /\ request.kind = "login"
      /\ HaveCredentials(request.name, request.password) # {}
  BY <1>2, Kinds DEF DbInv, LoginUnderWay
<1>4. TypeOK'
  BY <1>2, <1>3, Zenon DEF DbInv, TypeOK, tables
<1>5. LoginUnderWay'
  BY <1>2, <1>3 DEF LoginUnderWay, HaveCredentials, Named, tables
<1>6. AcceptedWhole' /\ ImagesOfFriends' /\ ImagesUnderWay' /\ TrueUnlessFailed'
  BY <1>2, <1>3 DEF AcceptedWhole, ImagesOfFriends, ImagesUnderWay, TrueUnlessFailed
<1>7. EndsForAvatarOnly'
  BY <1>2, Zenon DEF EndsForAvatarOnly
<1> QED BY <1>1, <1>4, <1>5, <1>6, <1>7, Zenon DEF DbInv

LEMMA GetFriendsKeeps == ASSUME DbInv, GetFriends PROVE DbInv'
<1>1. Rows'
  BY RowsKept DEF DbInv, GetFriends
<1> DEFINE Answered == Unnamed(who) = {}
<1>2. /\ UNCHANGED <<tables, running, request, who, left>>
      /\ running /\ pc = "friends" /\ pc' = "idle"
      /\ conn' \in {"up", "down"} /\ failed' \in BOOLEAN
      /\ failed => failed'
      /\ \/ answer' = Broken /\ (failed' \/ ~Answered)
         \/ answer' = Accepted(who, Friends(who)) /\ Answered
         \/ answer' = Accepted(who, NoFriends) /\ failed'
  <2>1. conn \in {"up", "down"} /\ failed \in BOOLEAN
    BY Zenon DEF DbInv, TypeOK
  <2>2. CASE Works /\ UNCHANGED failed /\
             answer' = IF Answered THEN Accepted(who, Friends(who)) ELSE Broken
    BY <2>1, <2>2, Zenon DEF GetFriends, At, Works
  <2>3. CASE Fails /\ failed' = TRUE /\ answer' \in {Broken, Accepted(who, NoFriends)}
    BY <2>1, <2>3, Zenon DEF GetFriends, At, Fails
  <2> QED BY <2>2, <2>3, Zenon DEF GetFriends
<1>3. /\ request.kind = "login"
      /\ HaveCredentials(request.name, request.password) # {}
      /\ who \in Named(request.name) \/ (failed' /\ who = ErrId)
      /\ who \in UserId \cup {ErrId} /\ left \subseteq DOMAIN t_user_relationship
      /\ Rows
  BY <1>2, Zenon DEF DbInv, LoginUnderWay, TypeOK
<1>4. \/ answer' = Broken
      \/ answer'.kind = "accepted" /\ answer'.id = who /\ answer'.friends \in FriendList
  <2>1. RowsOf(who) \subseteq DOMAIN t_user_relationship
    BY DEF RowsOf
  <2>2. ASSUME Answered PROVE Friends(who) \in [RowsOf(who) -> [friend_id : UserId, markname : Mark]]
    <3>1. ASSUME NEW i \in RowsOf(who)
          PROVE  FriendId(i, who) \in UserId /\ MarkName(i, who) \in Mark
      BY <1>3, <2>1, <2>2 DEF Rows, FriendId, MarkName, Unnamed
    <3> QED BY <3>1 DEF Friends
  <2>3. NoFriends \in [{} -> [friend_id : UserId, markname : Mark]]
    BY DEF NoFriends
  <2>4. ASSUME Answered PROVE Friends(who) \in FriendList
    BY <2>1, <2>2, <2>4, Zenon DEF FriendList
  <2>5. NoFriends \in FriendList
    BY <2>3, Zenon DEF FriendList
  <2>6. CASE answer' = Accepted(who, Friends(who)) /\ Answered
    BY <2>4, <2>6 DEF Accepted
  <2>7. CASE answer' = Accepted(who, NoFriends)
    BY <2>5, <2>7 DEF Accepted
  <2> QED BY <1>2, <2>6, <2>7, Zenon
<1>5. answer'.kind \in {"broken", "accepted"} /\ answer' # Rejected
  BY <1>4, Kinds DEF Rejected, Broken
<1>6. TypeOK'
  BY <1>2, <1>3, <1>4, Zenon DEF TypeOK, FriendList, tables
<1>7. LoginUnderWay' /\ ImagesUnderWay' /\ ImagesOfFriends'
  BY <1>2, <1>3, SMT DEF LoginUnderWay, ImagesUnderWay, ImagesOfFriends
<1>8. AcceptedWhole'
  <2>1. PICK u \in DOMAIN t_user : t_user[u].name = request.name
                                   /\ t_user[u].password = request.password
    BY <1>3, Zenon DEF HaveCredentials
  <2>2. answer'.kind = "accepted" => answer'.id = who /\ DOMAIN answer'.friends \in {{}, RowsOf(who)}
    <3>1. DOMAIN Friends(who) = RowsOf(who) /\ DOMAIN NoFriends = {}
      BY DEF Friends, NoFriends
    <3>2. CASE answer' = Accepted(who, Friends(who))
      BY <3>1, <3>2, Zenon DEF Accepted
    <3>3. CASE answer' = Accepted(who, NoFriends)
      BY <3>1, <3>3, Zenon DEF Accepted
    <3>4. CASE answer' = Broken
      BY <3>4 DEF Broken
    <3> QED BY <1>2, <3>2, <3>3, <3>4, Zenon
  <2> QED BY <1>2, <1>3, <2>1, <2>2 DEF AcceptedWhole, RowsOf, Named, tables
<1>9. TrueUnlessFailed'
  <2>1. ASSUME ~failed', answer'.kind = "accepted",
               NEW i \in DOMAIN t_user_relationship, NEW v \in UserId, Befriended(i, who, v)
        PROVE  i \in DOMAIN answer'.friends /\ answer'.friends[i].friend_id = v
    <3>1. answer'.friends = Friends(who)
      BY <1>2, <2>1, Kinds
    <3>2. i \in RowsOf(who) /\ FriendId(i, who) = v
      BY <2>1, RowOfFriend
    <3> QED BY <3>1, <3>2 DEF Friends
  <2>2. ASSUME ~failed', answer' = Broken
        PROVE  \E i \in DOMAIN t_user_relationship :
                 who \in {Ends(i)[1], Ends(i)[2]} /\ MarkName(i, who) = Null
    <3>1. PICK i \in RowsOf(who) : MarkName(i, who) = Null
      <4>1. Accepted(who, Friends(who)) # Broken
        BY Kinds
      <4> QED BY <1>2, <2>2, <4>1, Zenon DEF Unnamed
    <3>2. i \in DOMAIN t_user_relationship /\ who \in {Ends(i)[1], Ends(i)[2]}
      BY DEF RowsOf, Ends
    <3> QED BY <3>1, <3>2
  <2>3. request'.kind # "images"
    BY <1>2, <1>3
  <2> QED BY <1>2, <1>5, <2>1, <2>2, <2>3, Zenon DEF TrueUnlessFailed, Befriended, Ends, MarkName, tables
<1>10. EndsForAvatarOnly'
  BY <1>2, Zenon DEF EndsForAvatarOnly
<1> QED BY <1>1, <1>6, <1>7, <1>8, <1>9, <1>10, Zenon DEF DbInv

LEMMA GetAllFriendIdsKeeps ==
  ASSUME DbInv, NEW u \in UserId, GetAllFriendIds(u)
  PROVE  DbInv'
<1>1. Rows'
  BY RowsKept DEF DbInv, GetAllFriendIds
<1>2. /\ UNCHANGED <<tables, running>> /\ running /\ pc' = "paths"
      /\ request' = Asked("images", Null, Null, u) /\ who' = u
      /\ conn' \in {"up", "down"} /\ failed' \in BOOLEAN
      /\ left' = RowsOf(u) \/ (failed' /\ left' = {})
      /\ answer' = Images({})
  BY Zenon DEF GetAllFriendIds, At, Works, Fails, DbInv, TypeOK
<1>3. /\ request'.kind = "images" /\ request'.id = u
      /\ answer'.kind = "images" /\ answer'.sent = {}
  BY <1>2, Kinds
<1>4. RowsOf(u) \subseteq DOMAIN t_user_relationship /\ RowsOf(u)' = RowsOf(u)
  BY <1>2 DEF RowsOf, tables
<1>5. TypeOK'
  BY <1>2, <1>3, <1>4 DEF TypeOK, tables
<1>6. LoginUnderWay' /\ AcceptedWhole' /\ ImagesOfFriends' /\ TrueUnlessFailed'
  BY <1>2, <1>3 DEF LoginUnderWay, AcceptedWhole, ImagesOfFriends, TrueUnlessFailed
<1>7. ImagesUnderWay'
  BY <1>2, <1>3, <1>4 DEF ImagesUnderWay, RowsOf, tables
<1>8. EndsForAvatarOnly'
  BY <1>2, Zenon DEF EndsForAvatarOnly
<1> QED BY <1>1, <1>5, <1>6, <1>7, <1>8, Zenon DEF DbInv

\* The row is done: its avatar is in the answer, or there is none to send, or the
\* query failed, or the process has ended for a NULL.
LEMMA GetFriendImagePathKeeps ==
  ASSUME DbInv, NEW i \in left, GetFriendImagePath(i)
  PROVE  DbInv'
<1> DEFINE f == FriendId(i, who)
           new == <<f, t_user[f].avatar>>
<1>1. Rows' /\ Rows
  BY RowsKept DEF DbInv, GetFriendImagePath
<1>2. /\ UNCHANGED <<tables, pc, request, who>> /\ running /\ pc = "paths"
      /\ left' = left \ {i}
      /\ conn' \in {"up", "down"} /\ failed' \in BOOLEAN /\ running' \in BOOLEAN
      /\ failed => failed'
      /\ \/ f \in DOMAIN t_user /\ t_user[f].avatar # Null /\ running'
            /\ answer' = Images(answer.sent \cup {new})
         \/ f \in DOMAIN t_user /\ t_user[f].avatar = Null /\ ~running' /\ answer' = answer
         \/ running' /\ answer' = answer /\ (failed' \/ f \notin DOMAIN t_user)
  <2>1. conn \in {"up", "down"} /\ failed \in BOOLEAN
    BY Zenon DEF DbInv, TypeOK
  <2>2. /\ UNCHANGED <<tables, pc, request, who>> /\ running /\ pc = "paths"
        /\ left' = left \ {i} /\ conn' \in {conn, "down"}
    BY Zenon DEF GetFriendImagePath, At, Works, Fails
  <2>3. \/ /\ f \in DOMAIN t_user /\ t_user[f].avatar # Null
           /\ answer' = Images(answer.sent \cup {new})
           /\ running' = running /\ failed' = failed
        \/ /\ f \in DOMAIN t_user /\ t_user[f].avatar = Null
           /\ running' = FALSE /\ failed' = failed /\ answer' = answer
        \/ /\ f \notin DOMAIN t_user
           /\ running' = running /\ failed' = failed /\ answer' = answer
        \/ failed' = TRUE /\ running' = running /\ answer' = answer
    BY SMT DEF GetFriendImagePath
  <2> QED BY <2>1, <2>2, <2>3
<1>3. /\ request.kind = "images" /\ request.id = who
      /\ answer.kind = "images" /\ answer.sent \subseteq UserId \X Path
      /\ left \subseteq RowsOf(who)
      /\ answer.sent \subseteq Expected(who)
  <2>1. /\ request.kind = "images" /\ request.id = who
        /\ answer.kind = "images" /\ left \subseteq RowsOf(who)
    BY <1>2, Zenon DEF DbInv, ImagesUnderWay
  <2>2. answer.sent \subseteq UserId \X Path
    BY <2>1, Kinds DEF DbInv, TypeOK
  <2>3. answer.sent \subseteq Expected(who)
    BY <2>1 DEF DbInv, ImagesOfFriends
  <2> QED BY <2>1, <2>2, <2>3
<1>4. i \in RowsOf(who) /\ i \in DOMAIN t_user_relationship /\ Befriended(i, who, f)
  <2>1. i \in RowsOf(who) /\ i \in DOMAIN t_user_relationship
    BY <1>3 DEF RowsOf
  <2> QED BY <2>1, RowOfFriend
<1>5. /\ answer'.kind = "images" /\ answer.sent \subseteq answer'.sent
      /\ answer'.sent \subseteq answer.sent \cup {new}
      /\ \/ new \in answer'.sent /\ f \in DOMAIN t_user /\ t_user[f].avatar # Null
         \/ answer'.sent = answer.sent /\ (~running' \/ failed' \/ f \notin DOMAIN t_user)
  <2>1. CASE answer' = answer /\ (~running' \/ failed' \/ f \notin DOMAIN t_user)
    BY <1>3, <2>1, Zenon
  <2>2. CASE /\ answer' = Images(answer.sent \cup {new})
             /\ f \in DOMAIN t_user /\ t_user[f].avatar # Null
    <3>1. answer'.kind = "images" /\ answer'.sent = answer.sent \cup {new}
      BY <2>2, Zenon, Kinds
    <3> QED BY <2>2, <3>1, Zenon
  <2> QED BY <1>2, <2>1, <2>2, Zenon
<1>6. /\ RowsOf(who)' = RowsOf(who) /\ Expected(who)' = Expected(who)
  BY <1>2, Zenon DEF RowsOf, Expected, Befriended, Ends, tables
<1>7. f \in DOMAIN t_user => new \in Expected(who)
  BY <1>4, ExpectedIs
<1>8. TypeOK'
  <2>1. f \in DOMAIN t_user /\ t_user[f].avatar # Null => new \in UserId \X Path
    BY <1>1 DEF Rows
  <2>2. answer'.sent \subseteq UserId \X Path
    BY <1>3, <1>5, <2>1
  <2>3. left' \subseteq DOMAIN t_user_relationship' /\ who' \in UserId \cup {ErrId}
    BY <1>2 DEF DbInv, TypeOK, tables
  <2> QED BY <1>2, <1>5, <2>2, <2>3 DEF TypeOK
<1>9. LoginUnderWay' /\ AcceptedWhole' /\ TrueUnlessFailed'
  BY <1>2, <1>5 DEF LoginUnderWay, AcceptedWhole, TrueUnlessFailed
<1>10. ImagesOfFriends'
  BY <1>2, <1>3, <1>5, <1>6, <1>7 DEF ImagesOfFriends
<1>11. ImagesUnderWay'
  <2>1. ASSUME ~failed', running', NEW j \in RowsOf(who) \ left', FriendId(j, who) \in DOMAIN t_user
        PROVE  <<FriendId(j, who), t_user[FriendId(j, who)].avatar>> \in answer'.sent
    <3>1. CASE j = i
      BY <1>5, <2>1, <3>1
    <3>2. CASE j # i
      <4>1. ~failed /\ running /\ j \in RowsOf(who) \ left
        BY <1>2, <2>1, <3>2
      <4>2. <<FriendId(j, who), t_user[FriendId(j, who)].avatar>> \in answer.sent
        BY <1>2, <2>1, <4>1, Zenon DEF DbInv, ImagesUnderWay
      <4> QED BY <4>2, <1>5
    <3> QED BY <3>1, <3>2
  <2>2. left' \subseteq RowsOf(who)
    BY <1>2, <1>3
  <2> QED BY <1>2, <1>3, <1>5, <2>1, <2>2 DEF ImagesUnderWay, RowsOf, FriendId, tables
<1>12. EndsForAvatarOnly'
  <2>1. ASSUME ~running' PROVE f \in DOMAIN t_user /\ t_user[f].avatar = Null
    BY <1>2, <2>1
  <2>2. request.kind # "download"
    BY <1>3
  <2> QED BY <1>2, <1>4, <2>1, <2>2, Zenon DEF EndsForAvatarOnly, Befriended, Ends, tables
<1> QED BY <1>1, <1>8, <1>9, <1>10, <1>11, <1>12, Zenon DEF DbInv

\* At the end of a request for all images, what is in the answer is what it found.
LEMMA SendEndOfReplyKeeps == ASSUME DbInv, SendEndOfReply PROVE DbInv'
<1>1. Rows'
  BY RowsKept DEF DbInv, SendEndOfReply
<1>2. /\ UNCHANGED <<tables, conn, running, request, who, left, failed, answer>>
      /\ pc = "paths" /\ left = {} /\ pc' = "idle"
  BY Zenon DEF SendEndOfReply, At
<1>3. request.kind = "images" /\ request.id = who /\ answer.kind = "images"
  BY <1>2, Zenon DEF DbInv, ImagesUnderWay
<1>4. TypeOK' /\ EndsForAvatarOnly'
  <2>1. TypeOK'
    BY <1>2, Zenon DEF DbInv, TypeOK, FriendList, tables
  <2>2. EndsForAvatarOnly'
    BY <1>2, Zenon DEF DbInv, EndsForAvatarOnly, Befriended, Ends, tables
  <2> QED BY <2>1, <2>2
<1>5. LoginUnderWay' /\ ImagesUnderWay'
  BY <1>2 DEF LoginUnderWay, ImagesUnderWay
<1>6. AcceptedWhole'
  BY <1>2, <1>3 DEF AcceptedWhole
<1>7. ImagesOfFriends'
  BY <1>2, <1>3, Zenon DEF DbInv, ImagesOfFriends, Expected, Befriended, Ends, tables
<1>8. TrueUnlessFailed'
  <2>1. ASSUME ~failed, running PROVE answer.sent = Expected(who)
    <3>1. answer.sent \subseteq Expected(who)
      BY <1>3 DEF DbInv, ImagesOfFriends
    <3>2. ASSUME NEW p \in Expected(who) PROVE p \in answer.sent
      <4>1. PICK i \in RowsOf(who) : FriendId(i, who) \in DOMAIN t_user
                                     /\ p = <<FriendId(i, who), t_user[FriendId(i, who)].avatar>>
        BY <3>2, ExpectedIs
      <4> QED BY <1>2, <2>1, <4>1, Zenon DEF DbInv, ImagesUnderWay
    <3> QED BY <3>1, <3>2
  <2>2. Expected(who)' = Expected(who)
    BY <1>2, Zenon DEF Expected, Befriended, Ends, tables
  <2>3. answer # Rejected /\ answer # Broken /\ answer.kind # "accepted"
    BY <1>3 DEF Rejected, Broken
  <2> QED BY <1>2, <1>3, <2>1, <2>2, <2>3 DEF TrueUnlessFailed
<1> QED BY <1>1, <1>4, <1>5, <1>6, <1>7, <1>8, Zenon DEF DbInv

LEMMA DownloadKeeps == ASSUME DbInv, NEW u \in UserId, Download(u) PROVE DbInv'
<1>1. Rows' /\ Rows
  BY RowsKept DEF DbInv, Download
<1> DEFINE image == <<u, t_user[u].avatar>>
<1>2. /\ UNCHANGED <<tables, pc, left>> /\ pc = "idle" /\ running
      /\ request' = Asked("download", Null, Null, u) /\ who' = u
      /\ conn' \in {"up", "down"} /\ failed' \in BOOLEAN /\ running' \in BOOLEAN
      /\ answer' = Images({}) \/ (answer' = Images({image})
                                  /\ u \in DOMAIN t_user /\ t_user[u].avatar # Null)
      /\ ~running' => (u \in DOMAIN t_user => t_user[u].avatar = Null)
  BY Zenon DEF Download, At, Works, Fails, DbInv, TypeOK
<1>3. /\ request'.kind = "download" /\ request'.id = u /\ answer'.kind = "images"
      /\ answer' # Rejected /\ answer' # Broken
  BY <1>2, Kinds
<1>4. answer'.sent \subseteq UserId \X Path
  <2>1. u \in DOMAIN t_user /\ t_user[u].avatar # Null => image \in UserId \X Path
    BY <1>1 DEF Rows
  <2> QED BY <1>2, <2>1, Kinds
<1>5. TypeOK'
  BY <1>2, <1>3, <1>4 DEF DbInv, TypeOK, tables
<1>6. LoginUnderWay' /\ ImagesUnderWay'
  BY <1>2 DEF LoginUnderWay, ImagesUnderWay
<1>7. AcceptedWhole' /\ ImagesOfFriends' /\ TrueUnlessFailed'
  BY <1>3 DEF AcceptedWhole, ImagesOfFriends, TrueUnlessFailed
<1>8. EndsForAvatarOnly'
  BY <1>2, <1>3, Zenon DEF EndsForAvatarOnly, tables
<1> QED BY <1>1, <1>5, <1>6, <1>7, <1>8, Zenon DEF DbInv

-----------------------------------------------------------------------------

\* What is known of the requests under way, and every property of the answers, hold
\* together in every reachable state, for all tables and all failures.
THEOREM AnswersAreConsistent == Spec => []DbInv
<1>1. DbInv /\ [Next]_vars => DbInv'
  <2> SUFFICES ASSUME DbInv, [Next]_vars PROVE DbInv'
    OBVIOUS
  <2>1. CASE UNCHANGED vars
    <3>1. UNCHANGED <<tables, conn, running, pc, request, who, left, failed, answer>>
      BY <2>1, Zenon DEF vars, handler
    <3>2. Rows' /\ TypeOK'
      BY <3>1, RowsKept, Zenon DEF DbInv, TypeOK, FriendList, tables
    <3>3. LoginUnderWay' /\ AcceptedWhole'
      BY <3>1, Zenon DEF DbInv, LoginUnderWay, AcceptedWhole, HaveCredentials, Named, RowsOf, tables
    <3>4. ImagesUnderWay'
      BY <3>1, Zenon DEF DbInv, ImagesUnderWay, RowsOf, FriendId, tables
    <3>5. ImagesOfFriends' /\ EndsForAvatarOnly'
      BY <3>1, Zenon DEF DbInv, ImagesOfFriends, EndsForAvatarOnly, Expected, Befriended, Ends, tables
    <3>6. TrueUnlessFailed'
      <4>1. /\ HaveCredentials(request.name, request.password)' =
                 HaveCredentials(request.name, request.password)
            /\ Expected(request.id)' = Expected(request.id)
        BY <3>1, Zenon DEF HaveCredentials, Expected, Befriended, Ends, tables
      <4> QED BY <3>1, <4>1 DEF DbInv, TrueUnlessFailed, Befriended, Ends, MarkName, tables
    <3> QED BY <3>2, <3>3, <3>4, <3>5, <3>6, Zenon DEF DbInv
  <2>2. CASE ParseAuthentication
    BY <2>2, CheckUserInfoKeeps, QueryUserIdKeeps, GetFriendsKeeps, Zenon DEF ParseAuthentication
  <2>3. CASE HandleAllImagesRequest
    BY <2>3, GetAllFriendIdsKeeps, GetFriendImagePathKeeps, SendEndOfReplyKeeps, Zenon
       DEF HandleAllImagesRequest
  <2>4. CASE \E u \in UserId : Download(u)
    BY <2>4, DownloadKeeps
  <2> QED BY <2>1, <2>2, <2>3, <2>4, Zenon DEF Next
<1> QED BY <1>1, DbInit, PTL DEF Spec

\* The variables keep their shape, and no NULL reaches a client.
THEOREM TypeCorrect == Spec => []TypeOK
<1>1. DbInv => TypeOK
  BY DEF DbInv
<1> QED BY <1>1, AnswersAreConsistent, PTL

\* An answer for which no query failed says what is in the tables.
THEOREM AnswersAreTrue == Spec => []TrueUnlessFailed
<1>1. DbInv => TrueUnlessFailed
  BY DEF DbInv
<1> QED BY <1>1, AnswersAreConsistent, PTL

\* Wherever the connection is lost in a login: no user without credentials, no part of
\* a friend list.
THEOREM LoginsAreWhole == Spec => []AcceptedWhole
<1>1. DbInv => AcceptedWhole
  BY DEF DbInv
<1> QED BY <1>1, AnswersAreConsistent, PTL

\* A client gets the avatars of its friends, under their ids, and no others.
THEOREM ImagesAreFriends == Spec => []ImagesOfFriends
<1>1. DbInv => ImagesOfFriends
  BY DEF DbInv
<1> QED BY <1>1, AnswersAreConsistent, PTL

\* A request for all images survives friends without a row.
THEOREM AllImagesSurvive == Spec => []EndsForAvatarOnly
<1>1. DbInv => EndsForAvatarOnly
  BY DEF DbInv
<1> QED BY <1>1, AnswersAreConsistent, PTL
=============================================================================
