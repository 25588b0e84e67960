------------------------------- MODULE UserDb -------------------------------
(***************************************************************************)
(* BoostMysql: what the servers' queries compute from the two tables, and  *)
(* what a request makes of them, query by query.  A login of the chat      *)
(* server takes three (ParseAuthentication), a request for all images one  *)
(* and one more for each friend (HandleAllImagesRequest), a download one.  *)
(* They share no transaction, and each may fail by itself.                 *)
(*                                                                         *)
(* Nothing in the repository writes the tables, so they are chosen once.   *)
(* A group name is read like the name next to it, but is never NULL, and   *)
(* is left out.                                                            *)
(***************************************************************************)
EXTENDS Naturals

CONSTANTS
  UserId,       \* f_user_id
  Name,         \* f_username
  Password,     \* f_password
  Path,         \* f_avatar_url
  Mark,         \* f_user1_markname, f_user2_markname
  Null,         \* NULL
  ErrId,        \* 0xFF, the answer of a query that failed
  MaxRelations  \* bound: rows of t_user_relationship

ASSUME DbAssumption ==
  /\ Null \notin Path \cup Mark
  /\ MaxRelations \in Nat

Account == [name : Name, password : Password, avatar : Path \cup {Null}]
Relation == [id1 : UserId, id2 : UserId, mark1 : Mark \cup {Null}, mark2 : Mark \cup {Null}]

VARIABLES
  server,              \* the process that has the connection: "chat" or "image"
  t_user,              \* f_user_id, which is unique, to its row
  t_user_relationship, \* f_id to its row; nothing ties the rows to t_user
  conn,                \* "up", or "down" for good: nothing connects again
  running,             \* the process has not terminated
  pc,                  \* the query that comes next, or "idle"
  request,             \* what the running handler, or the last one, is asked
  who,                 \* the id that the request turned out to be about
  left,                \* the friends, by row, whose avatar is still to be read
  failed,              \* a query of this request has failed
  answer               \* what the request is answered

tables == <<server, t_user, t_user_relationship>>
handler == <<pc, request, who, left, failed, answer>>
vars == <<tables, conn, running, handler>>

Asked(kind, name, password, id) ==
  [kind |-> kind, name |-> name, password |-> password, id |-> id]

Nothing == [kind |-> "nothing"]
Rejected == [kind |-> "rejected"]  \* the socket is closed
Broken == [kind |-> "broken"]      \* an exception: no reply
Accepted(u, friends) == [kind |-> "accepted", id |-> u, friends |-> friends]
Images(sent) == [kind |-> "images", sent |-> sent]

Init ==
  /\ server \in {"chat", "image"}
  /\ t_user \in UNION {[ids -> Account] : ids \in SUBSET UserId}
  /\ t_user_relationship \in UNION {[1..n -> Relation] : n \in 0..MaxRelations}
  /\ conn \in {"up", "down"}
  /\ running = TRUE
  /\ pc = "idle"
  /\ request = Nothing
  /\ who = ErrId
  /\ left = {}
  /\ failed = FALSE
  /\ answer = Nothing

-----------------------------------------------------------------------------
(* The queries. *)

\* Mutant: by the name alone.
HaveName(name, password) == {u \in DOMAIN t_user : t_user[u].name = name}

\* select count of ... where f_username = ? and f_password = ?
HaveCredentials(name, password) ==
  {u \in DOMAIN t_user : t_user[u].name = name /\ t_user[u].password = password}

\* select f_user_id ... where f_username = ...; names are not unique in t_user.
Named(name) == {u \in DOMAIN t_user : t_user[u].name = name}

\* Mutant: only the rows that have the user as the first one.
RowsOfFirst(u) == {i \in DOMAIN t_user_relationship : t_user_relationship[i].id1 = u}

\* where f_user_id1 = ? or f_user_id2 = ?
RowsOf(u) ==
  {i \in DOMAIN t_user_relationship :
     t_user_relationship[i].id1 = u \/ t_user_relationship[i].id2 = u}

\* Mutant: always the second user.
FriendIdSecond(i, u) == t_user_relationship[i].id2

\* case when f_user_id1 = ? then f_user_id2 else f_user_id1 end
FriendId(i, u) ==
  LET r == t_user_relationship[i] IN IF r.id1 = u THEN r.id2 ELSE r.id1

\* Mutant: the two columns are the wrong way round.
MarkNameSwapped(i, u) ==
  LET r == t_user_relationship[i] IN IF r.id1 = u THEN r.mark1 ELSE r.mark2

MarkName(i, u) ==
  LET r == t_user_relationship[i] IN IF r.id1 = u THEN r.mark2 ELSE r.mark1

\* Mutant: a NULL is passed on like any other name.
NeverUnnamed(u) == {}
Unnamed(u) == {i \in RowsOf(u) : MarkName(i, u) = Null}

\* The friends of u as the chat server tells them: a FriendInfo for each row.
Friends(u) ==
  [i \in RowsOf(u) |-> [friend_id |-> FriendId(i, u), markname |-> MarkName(i, u)]]

NoFriends == [i \in {} |-> Nothing]

Works == conn = "up" /\ UNCHANGED conn

\* system_error: the server refuses the statement, or the connection is gone.
Fails == conn' \in {conn, "down"}

-----------------------------------------------------------------------------
(* A login of the chat server: CheckUserInfo, then ExecSql, then GetFriends. *)

At(process, step) == running /\ server = process /\ pc = step

CheckUserInfo(name, password) ==
  /\ At("chat", "idle")
  /\ request' = Asked("login", name, password, ErrId)
  /\ \/ /\ Works /\ failed' = FALSE
        /\ HaveCredentials(name, password) # {}
        /\ pc' = "id" /\ answer' = Nothing
     \/ /\ Works /\ failed' = FALSE
        /\ HaveCredentials(name, password) = {}
        /\ answer' = Rejected /\ UNCHANGED pc
     \/ /\ Fails /\ failed' = TRUE
        /\ answer' = Rejected /\ UNCHANGED pc
  /\ UNCHANGED <<tables, running, who, left>>

\* ExecSql takes the first row, of which there is no order.
QueryUserId ==
  /\ At("chat", "id")
  /\ \/ Works /\ who' \in Named(request.name) /\ UNCHANGED failed
     \/ Fails /\ who' = ErrId /\ failed' = TRUE
  /\ pc' = "friends"
  /\ UNCHANGED <<tables, running, request, left, answer>>

\* prepare_statement is outside the try block, execute inside; as_string of a NULL
\* throws what that block does not catch.
GetFriends ==
  /\ At("chat", "friends")
  /\ \/ /\ Works /\ UNCHANGED failed
        /\ answer' = IF Unnamed(who) = {} THEN Accepted(who, Friends(who)) ELSE Broken
     \/ Fails /\ failed' = TRUE /\ answer' \in {Broken, Accepted(who, NoFriends)}
  /\ pc' = "idle"
  /\ UNCHANGED <<tables, running, request, who, left>>

-----------------------------------------------------------------------------
(* The requests of the image server.  Whether the file of an avatar can be     *)
(* read and how it is written is the subject of ImageServer.                   *)

GetAllFriendIds(u) ==
  /\ At("image", "idle")
  /\ request' = Asked("images", Null, Null, u)
  /\ who' = u
  /\ \/ Works /\ failed' = FALSE /\ left' = RowsOf(u)
     \/ Fails /\ failed' = TRUE /\ left' = {}
  /\ pc' = "paths"
  /\ answer' = Images({})
  /\ UNCHANGED <<tables, running>>

\* Mutant: the result is not asked whether it is empty.
GetFriendImagePathUnchecked(i) ==
  LET friend == FriendId(i, who) IN
  /\ At("image", "paths") /\ i \in left
  /\ Works
  /\ running' = (friend \in DOMAIN t_user)
  /\ left' = left \ {i}
  /\ UNCHANGED <<tables, pc, request, who, failed, answer>>

\* No row, no avatar; as_string of a NULL throws, and nothing catches it.
GetFriendImagePath(i) ==
  LET friend == FriendId(i, who)
      path == t_user[friend].avatar
  IN
  /\ At("image", "paths") /\ i \in left
  /\ \/ /\ Works /\ friend \in DOMAIN t_user /\ path # Null
        /\ answer' = Images(answer.sent \cup {<<friend, path>>})
        /\ UNCHANGED <<running, failed>>
     \/ /\ Works /\ friend \in DOMAIN t_user /\ path = Null
        /\ running' = FALSE
        /\ UNCHANGED <<failed, answer>>
     \/ Works /\ friend \notin DOMAIN t_user /\ UNCHANGED <<running, failed, answer>>
     \/ Fails /\ failed' = TRUE /\ UNCHANGED <<running, answer>>
  /\ left' = left \ {i}
  /\ UNCHANGED <<tables, pc, request, who>>

SendEndOfReply ==
  /\ At("image", "paths") /\ left = {}
  /\ pc' = "idle"
  /\ UNCHANGED <<tables, conn, running, request, who, left, failed, answer>>

\* ExecSql: the result is not looked at before its first row is taken; of a query
\* that failed the answer is no string, and nothing is sent.
Download(u) ==
  /\ At("image", "idle")
  /\ request' = Asked("download", Null, Null, u)
  /\ who' = u
  /\ \/ /\ Works /\ failed' = FALSE
        /\ u \in DOMAIN t_user /\ t_user[u].avatar # Null
        /\ answer' = Images({<<u, t_user[u].avatar>>})
        /\ UNCHANGED running
     \/ /\ Works /\ failed' = FALSE
        /\ u \in DOMAIN t_user => t_user[u].avatar = Null
        /\ running' = FALSE /\ answer' = Images({})
     \/ /\ Fails /\ failed' = TRUE
        /\ answer' = Images({}) /\ UNCHANGED running
  /\ UNCHANGED <<tables, pc, left>>

-----------------------------------------------------------------------------

ParseAuthentication ==
  \/ \E name \in Name, password \in Password : CheckUserInfo(name, password)
  \/ QueryUserId
  \/ GetFriends

HandleAllImagesRequest ==
  \/ \E u \in UserId : GetAllFriendIds(u)
  \/ \E i \in left : GetFriendImagePath(i)
  \/ SendEndOfReply

Next ==
  \/ ParseAuthentication
  \/ HandleAllImagesRequest
  \/ \E u \in UserId : Download(u)

Spec == Init /\ [][Next]_vars

-----------------------------------------------------------------------------
(* Properties. *)

FriendList == UNION {[rows -> [friend_id : UserId, markname : Mark]] :
                       rows \in SUBSET DOMAIN t_user_relationship}

\* The variables keep their shape; no NULL is sent to a client.
TypeOK ==
  /\ conn \in {"up", "down"}
  /\ running \in BOOLEAN
  /\ pc \in {"idle", "id", "friends", "paths"}
  /\ who \in UserId \cup {ErrId}
  /\ left \subseteq DOMAIN t_user_relationship
  /\ failed \in BOOLEAN
  /\ \/ answer \in {Nothing, Rejected, Broken}
     \/ answer.kind = "accepted" /\ answer.id = who /\ answer.friends \in FriendList
     \/ answer.kind = "images" /\ answer.sent \subseteq UserId \X Path

\* The tables by themselves: two users are friends by a row.
Ends(i) == <<t_user_relationship[i].id1, t_user_relationship[i].id2>>
Befriended(i, u, v) == Ends(i) \in {<<u, v>>, <<v, u>>}

\* Each is in the other's list, by the same row, so what one sees of a friendship
\* the other sees too; and the first user of a row is told the second mark name, the
\* second user the first, as the rows of t_user_relationship.sql are filled.
MutualFriends ==
  \A i \in DOMAIN t_user_relationship : \A u, v \in UserId :
    Ends(i) = <<u, v>> =>
      /\ i \in RowsOf(u) \cap RowsOf(v)
      /\ FriendId(i, u) = v /\ FriendId(i, v) = u
      /\ u # v => /\ MarkName(i, u) = t_user_relationship[i].mark2
                  /\ MarkName(i, v) = t_user_relationship[i].mark1

\* An answer can be relied upon if no query failed while it was made: the login was
\* refused because there is no such row, it got no reply because a friendship that
\* the user sees has no name, it was given the whole list otherwise; and of all
\* images none is missing but those of friends without a row.
Expected(u) == {<<v, t_user[v].avatar>> :
  v \in {w \in DOMAIN t_user : \E i \in DOMAIN t_user_relationship : Befriended(i, u, w)}}

TrueUnlessFailed ==
  ~failed /\ pc = "idle" /\ running =>
    /\ answer = Rejected => HaveCredentials(request.name, request.password) = {}
    /\ answer = Broken => \E i \in DOMAIN t_user_relationship :
         who \in {Ends(i)[1], Ends(i)[2]} /\ MarkName(i, who) = Null
    /\ answer.kind = "accepted" =>
         \A i \in DOMAIN t_user_relationship, v \in UserId :
           Befriended(i, who, v) => i \in DOMAIN answer.friends /\ answer.friends[i].friend_id = v
    /\ request.kind = "images" => answer.sent = Expected(request.id)

\* Whatever fails, a login is accepted only with the credentials of a row, as a user
\* of that name or as the error id, and with its friends or none: never with a part.
AcceptedWhole ==
  answer.kind = "accepted" =>
    /\ \E u \in DOMAIN t_user : t_user[u].name = request.name
                                /\ t_user[u].password = request.password
    /\ answer.id \in Named(request.name) \/ (failed /\ answer.id = ErrId)
    /\ DOMAIN answer.friends \in {{}, RowsOf(answer.id)}

\* Whatever fails, an image is sent under the id of the friend whose avatar it is, and
\* of friends only.
ImagesOfFriends ==
  request.kind = "images" => answer.sent \subseteq Expected(request.id)

\* A request for all images ends the process only for a friend whose avatar is NULL,
\* not for ids without a row, which nothing forbids in t_user_relationship.
EndsForAvatarOnly ==
  ~running => \E v \in DOMAIN t_user \cup {request.id} :
    /\ v \in DOMAIN t_user => t_user[v].avatar = Null
    /\ IF request.kind = "download" THEN v = request.id
       ELSE v \in DOMAIN t_user /\ \E i \in DOMAIN t_user_relationship : Befriended(i, who, v)
=============================================================================
