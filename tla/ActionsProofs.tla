---------------------------- MODULE ActionsProofs ----------------------------
(* Proofs about the actions on groups, friends and requests: how often a     *)
(* request is answered, what a failed call may have done and how old a list  *)
(* set_group_admin may leave, for any number of callers, users and requests. *)
(* Each call carries what the properties need: a call that has still to      *)
(* answer a request takes one of the callers' shares of it, and a call with  *)
(* a fetched list knows the version that list must have reached.             *)
EXTENDS Actions, FiniteSetTheorems, TLAPS

Event == [type : {"decrease"}, user : Everybody, by : Everybody]
         \cup [type : {"increase"}, user : Everybody]
         \cup [type : {"perm"}, user : Everybody, perm : Perms]

CallRecord ==
    {Idle}
    \cup [at : {"answered"}, ok : BOOLEAN, did : BOOLEAN, late : BOOLEAN]
    \cup [at : {"fetched"}, snap : Group, since : Versions, did : BOOLEAN]
    \cup [at : {"channels"}, snap : Nat]
    \cup [at : {"ordered"}, since : Versions, did : BOOLEAN]
    \cup [at : {"to_answer"}, req : Requests]
    \cup [at : {"one_way"}, user : Users]

\* What is not the state of a call.
WorldOK ==
    /\ group \in Group /\ list \in Group
    /\ guild \in Nat /\ channels \in Nat
    /\ friends \subseteq Users /\ known \subseteq Users /\ oneWay \subseteq Users
    /\ request \in [Requests -> Nat]
    /\ flags \subseteq Flags
    /\ events \subseteq Event

TypeOK == WorldOK /\ call \in [Callers -> CallRecord]

\* The callers that have still to answer r.
Answering(r) == {c \in Callers : call[c] = [at |-> "to_answer", req |-> r]}

Shares == \A r \in Requests : request[r] + Cardinality(Answering(r)) <= Cardinality(Callers)

\* A failure did nothing, unless it came late; an order is not newer than the
\* group, nor than the list that was fetched after it.
Sound(x, gr) ==
    /\ x.at = "answered" => x.ok \/ ~x.did \/ x.late
    /\ x.at = "ordered" => x.since <= gr.v
    /\ x.at = "fetched" => x.since <= x.snap.v

Inv == TypeOK /\ Shares /\ \A c \in Callers : Sound(call[c], group)

----------------------------------------------------------------------------
(* What a call does first. *)

\* The lists and the server keep their types, the group does not get older,
\* and no request is answered.
World == WorldOK' /\ group'.v >= group.v /\ request' = request

\* A call goes on to x, which is sound; only a request nobody has answered yet
\* is going to be answered.
Begins(c) ==
    /\ World
    /\ \E x \in CallRecord :
         /\ Goes(c, x) /\ Sound(x, group')
         /\ x.at = "to_answer" => request[x.req] = 0

\* A step that leaves the group alone leaves the world well-formed.
LEMMA NothingChanges ==
    ASSUME WorldOK, NoChange
    PROVE  World /\ group' = group
BY DEF WorldOK, NoChange, World, server, client, Group, Versions

\* A call that answers at once begins soundly if a failure did nothing.
LEMMA AnswerBegins ==
    ASSUME World, NEW c, NEW ok \in BOOLEAN, NEW did \in BOOLEAN, ok \/ ~did, Answer(c, ok, did)
    PROVE  Begins(c)
<1> DEFINE x == [at |-> "answered", ok |-> ok, did |-> did, late |-> FALSE]
<1>1. x \in CallRecord /\ x.at = "answered" /\ (x.ok \/ ~x.did)
  BY DEF CallRecord
<1>2. Goes(c, x)
  BY DEF Answer, Goes
<1> HIDE DEF x
<1>3. Sound(x, group') /\ ~(x.at = "to_answer")
  BY <1>1 DEF Sound
<1>4. QED
  BY <1>1, <1>2, <1>3 DEF Begins

\* A call that asks nobody answers at once.
LEMMA SaysBegins ==
    ASSUME WorldOK, NEW c, NEW ok \in BOOLEAN, Says(c, ok)
    PROVE  Begins(c)
BY NothingChanges, AnswerBegins DEF Says

\* A call that asks the server answers with what it was told.
LEMMA AsksBegins ==
    ASSUME WorldOK, NEW c, Asks(c)
    PROVE  Begins(c)
BY SaysBegins DEF Asks

\* An order is refused and did nothing, or is carried out, or is answered OK.
Ordered(c) == NoChange /\ (Answer(c, FALSE, FALSE) \/ \E did \in BOOLEAN : Answer(c, TRUE, did))

\* A call that gives an order answers with what became of it.
LEMMA OrderedBegins ==
    ASSUME WorldOK, NEW c, Ordered(c)
    PROVE  Begins(c)
<1>1. World
  BY NothingChanges DEF Ordered
<1>2. CASE Answer(c, FALSE, FALSE)
  BY <1>1, <1>2, AnswerBegins
<1>3. CASE \E did \in BOOLEAN : Answer(c, TRUE, did)
  BY <1>1, <1>3, AnswerBegins
<1>4. QED
  BY <1>2, <1>3 DEF Ordered

\* A call that reads, of the list or of the server, begins soundly.
LEMMA ReadsBegin ==
    ASSUME WorldOK, NEW c, Reads(c)
    PROVE  Begins(c)
<1>1. Says(c, TRUE) \/ Asks(c)
  BY Zenon DEF Reads, CQGetLoginInfo, CQGetGuildServiceProfile, CQGetGuildList, CQGetFriendList,
     CQGetGroupHonorInfo, CQGetStatus, CQGetVersionInfo, CQCanSendImage, CQCanSendRecord,
     CQCheckURLSafely, CQGetQiDianAccountInfo, CQGetGuildMetaByGuest, CQGetGuildMembers,
     CQGetGuildRoles, CQGetUnidirectionalFriendList, CQGetGroupFileSystemInfo,
     CQGetGroupRootFiles, CQGetGroupFilesByFolderID, CQGetGroupFileURL, CQGetWordSlices,
     CQGetAtAllRemain, CQGetVipInfo, CQGetStrangerInfo, CQGetForwardMessage,
     CQGetGroupSystemMessages, CQGetOnlineClients, CQGetEssenceMessageList, CQGetModelShow,
     CQOcrImage
<1>2. QED
  BY <1>1, SaysBegins, AsksBegins

\* The actions that pass an order on.
LEMMA OrdersBegin ==
    ASSUME WorldOK, NEW c,
           \/ CQCreateGuildRole(c) \/ CQDeleteGuildRole(c) \/ CQModifyRoleInGuild(c)
           \/ CQSetGuildMemberRole(c) \/ CQUploadGroupFile(c)
           \/ CQGroupFileCreateFolder(c) \/ CQGroupFileDeleteFolder(c) \/ CQGroupFileDeleteFile(c)
           \/ CQSetModelShow(c) \/ CQSetGroupName(c) \/ CQSetGroupMemo(c) \/ CQSetGroupWholeBan(c)
           \/ CQSetGroupPortrait(c) \/ CQSetGroupAnonymousBan(c)
           \/ \E u \in Users : CQSetGroupCard(c, u) \/ CQSetGroupSpecialTitle(c, u) \/ CQSetGroupBan(c, u)
           \/ \E f \in Flags : CQProcessFriendRequest(c, f)
    PROVE  Begins(c)
<1>1. Ordered(c)
  BY Zenon DEF Ordered, Orders, OrdersBlindly, Says, CQCreateGuildRole, CQDeleteGuildRole,
     CQModifyRoleInGuild, CQSetGuildMemberRole, CQUploadGroupFile, CQGroupFileCreateFolder,
     CQGroupFileDeleteFolder, CQGroupFileDeleteFile, CQSetModelShow, CQSetGroupName,
     CQSetGroupMemo, CQSetGroupWholeBan, CQSetGroupPortrait, CQSetGroupAnonymousBan,
     CQSetGroupCard, CQSetGroupSpecialTitle, CQSetGroupBan, CQProcessFriendRequest
<1>2. QED
  BY <1>1, OrderedBegins

\* The actions that fetch a list or show the one there is.
LEMMA ListsBegin ==
    ASSUME WorldOK, NEW c, NEW noCache \in BOOLEAN,
           \/ CQGetGroupInfo(c) \/ CQGetGroupList(c, noCache) \/ CQGetGroupMemberList(c, noCache)
           \/ CQGetGuildChannelList(c, noCache)
           \/ \E u \in Users : CQGetGroupMemberInfo(c, u, noCache)
    PROVE  Begins(c)
<1>1. CASE CQGetGroupInfo(c)
  BY <1>1, AsksBegins DEF CQGetGroupInfo
<1>2. CASE CQGetGroupList(c, noCache)
  <2>1. list' \in Group /\ UNCHANGED <<server, channels, known, flags, events>>
    BY <1>2 DEF CQGetGroupList, WorldOK
  <2>2. World
    BY <2>1 DEF World, WorldOK, server, Group, Versions
  <2>3. Answer(c, TRUE, FALSE)
    BY <1>2 DEF CQGetGroupList
  <2>4. QED
    BY <2>2, <2>3, AnswerBegins
<1>3. CASE CQGetGroupMemberList(c, noCache)
  <2>1. CASE Says(c, FALSE) \/ Says(c, TRUE) \/ Says(c, ~noCache)
    BY <2>1, SaysBegins
  <2>2. CASE NoChange /\ Goes(c, [at |-> "fetched", snap |-> group, since |-> group.v, did |-> FALSE])
    <3> DEFINE x == [at |-> "fetched", snap |-> group, since |-> group.v, did |-> FALSE]
    <3>1. x \in CallRecord /\ Sound(x, group')
      BY DEF WorldOK, Group, Versions, CallRecord, Sound
    <3>2. QED
      BY <2>2, <3>1, NothingChanges DEF Begins
  <2>3. QED
    BY <1>3, <2>1, <2>2, Zenon DEF CQGetGroupMemberList
<1>4. CASE CQGetGuildChannelList(c, noCache)
  <2>1. CASE Says(c, FALSE) \/ Says(c, TRUE)
    BY <2>1, SaysBegins
  <2>2. CASE NoChange /\ Goes(c, [at |-> "channels", snap |-> guild])
    <3> DEFINE x == [at |-> "channels", snap |-> guild]
    <3>1. x \in CallRecord /\ Sound(x, group')
      BY DEF WorldOK, CallRecord, Sound
    <3>2. QED
      BY <2>2, <3>1, NothingChanges DEF Begins
  <2>3. QED
    BY <1>4, <2>1, <2>2, Zenon DEF CQGetGuildChannelList
<1>5. CASE \E u \in Users : CQGetGroupMemberInfo(c, u, noCache)
  BY <1>5, SaysBegins, AsksBegins DEF CQGetGroupMemberInfo
<1>6. QED
  BY <1>1, <1>2, <1>3, <1>4, <1>5

\* A change of the group gives a group, one version later.
LEMMA ChangedIsGroup ==
    ASSUME group \in Group, CanChange, NEW u \in Everybody, NEW perm \in Perms
    PROVE  Changed(u, perm) \in Group /\ Changed(u, perm).v = group.v + 1
BY BoundsAreNumbers DEF Group, Versions, CanChange, Changed

\* The group changes, which a notice may tell of.
LEMMA GroupChanges ==
    ASSUME WorldOK, NEW g \in Group, g.v >= group.v, group' = g,
           NEW e \in Event, events' \in {events, events \cup {e}},
           UNCHANGED <<guild, friends, oneWay, request, client>>
    PROVE  World
BY DEF WorldOK, World, client

\* The notices of a change.
LEMMA EventTypes ==
    ASSUME NEW u \in Everybody, NEW by \in Everybody, NEW perm \in Perms
    PROVE  /\ [type |-> "decrease", user |-> u, by |-> by] \in Event
           /\ [type |-> "increase", user |-> u] \in Event
           /\ [type |-> "perm", user |-> u, perm |-> perm] \in Event
BY DEF Event

\* The actions that make members leave.
LEMMA MembersBegin ==
    ASSUME WorldOK, NEW c,
           CQSetGroupLeave(c) \/ \E u \in Users : CQSetGroupKick(c, u)
    PROVE  Begins(c)
<1>1. CASE Says(c, FALSE)
  BY <1>1, SaysBegins
<1>2. CASE \E u \in Everybody :
             /\ CanChange /\ group' = Changed(u, "out")
             /\ events' = events \cup {[type |-> "decrease", user |-> u, by |-> Self]}
             /\ Answer(c, TRUE, TRUE)
             /\ UNCHANGED <<guild, friends, oneWay, request, client>>
  <2>1. PICK u \in Everybody :
             /\ CanChange /\ group' = Changed(u, "out")
             /\ events' = events \cup {[type |-> "decrease", user |-> u, by |-> Self]}
             /\ Answer(c, TRUE, TRUE)
             /\ UNCHANGED <<guild, friends, oneWay, request, client>>
    BY <1>2
  <2>2. group' \in Group /\ group'.v >= group.v
    BY <2>1, ChangedIsGroup DEF WorldOK, Perms, Group, Versions
  <2>3. [type |-> "decrease", user |-> u, by |-> Self] \in Event
    BY EventTypes DEF Everybody, Perms
  <2>4. World
    BY <2>1, <2>2, <2>3, GroupChanges
  <2>5. QED
    BY <2>1, <2>4, AnswerBegins
<1>3. QED
  BY <1>1, <1>2 DEF CQSetGroupLeave, CQSetGroupKick, Everybody

\* set_group_admin looks before it orders.
LEMMA AdminBegins ==
    ASSUME WorldOK, NEW c, NEW u \in Users, NEW enable \in BOOLEAN, CQSetGroupAdmin(c, u, enable)
    PROVE  Begins(c)
<1>1. CASE Says(c, FALSE)
  BY <1>1, SaysBegins
<1>2. CASE ~Says(c, FALSE)
  <2> DEFINE perm == IF enable THEN "admin" ELSE "member"
             x == [at |-> "ordered", since |-> group'.v, did |-> group' # group]
  <2>1. /\ CanChange
        /\ group' = group \/ group' = Changed(u, perm)
        /\ events' = events \cup (IF group' = group THEN {}
                                  ELSE {[type |-> "perm", user |-> u, perm |-> group'.perm[u]]})
        /\ Goes(c, x)
        /\ UNCHANGED <<guild, friends, oneWay, request, client>>
    BY <1>2, Zenon DEF CQSetGroupAdmin
  <2>2. u \in Everybody /\ perm \in Perms
    BY DEF Everybody, Perms
  <2>3. group' \in Group /\ group'.v >= group.v
    BY <2>1, <2>2, ChangedIsGroup DEF WorldOK, Group, Versions
  <2>4. [type |-> "perm", user |-> u, perm |-> group'.perm[u]] \in Event
    BY <2>2, <2>3 DEF Event, Group
  <2>5. World
    BY <2>1, <2>3, <2>4, GroupChanges
  <2>6. x \in CallRecord
    BY <2>3 DEF CallRecord, Group, Versions
  <2>7. Sound(x, group') /\ ~(x.at = "to_answer")
    BY <2>3 DEF Sound, Group, Versions
  <2>8. QED
    BY <2>1, <2>5, <2>6, <2>7 DEF Begins
<1>3. QED
  BY <1>1, <1>2

\* The actions that end a friendship.
LEMMA FriendsBegin ==
    ASSUME WorldOK, NEW c, NEW u \in Users,
           CQDeleteFriend(c, u) \/ CQDeleteUnidirectionalFriend(c, u)
    PROVE  Begins(c)
<1>1. CASE Says(c, FALSE)
  BY <1>1, SaysBegins
<1>2. CASE /\ friends' = friends \ {u} /\ known' \in {known, known \ {u}}
           /\ Answer(c, TRUE, TRUE)
           /\ UNCHANGED <<group, guild, oneWay, request, list, channels, flags, events>>
  <2>1. World
    BY <1>2 DEF WorldOK, World, Group, Versions
  <2>2. QED
    BY <1>2, <2>1, AnswerBegins
<1>3. CASE NoChange /\ Goes(c, [at |-> "one_way", user |-> u])
  <2> DEFINE x == [at |-> "one_way", user |-> u]
  <2>1. x \in CallRecord /\ Sound(x, group')
    BY DEF CallRecord, Sound
  <2>2. QED
    BY <1>3, <2>1, NothingChanges DEF Begins
<1>4. QED
  BY <1>1, <1>2, <1>3 DEF CQDeleteFriend, CQDeleteUnidirectionalFriend

\* A call that is to answer a request finds it unanswered.
LEMMA RequestBegins ==
    ASSUME WorldOK, NEW c, NEW r \in Requests, CQProcessGroupRequest(c, r)
    PROVE  Begins(c)
<1>1. CASE Says(c, FALSE)
  BY <1>1, SaysBegins
<1>2. CASE request[r] = 0 /\ NoChange /\ Goes(c, [at |-> "to_answer", req |-> r])
  <2> DEFINE x == [at |-> "to_answer", req |-> r]
  <2>1. x \in CallRecord /\ Sound(x, group') /\ x.req = r
    BY DEF CallRecord, Sound
  <2>2. QED
    BY <1>2, <2>1, NothingChanges DEF Begins
<1>3. QED
  BY <1>1, <1>2 DEF CQProcessGroupRequest

\* Whatever action a call is for, it begins soundly.
LEMMA BeginBegins ==
    ASSUME WorldOK, NEW c, Begin(c)
    PROVE  Begins(c)
BY ReadsBegin, OrdersBegin, ListsBegin, MembersBegin, AdminBegins, FriendsBegin, RequestBegins,
   Zenon DEF Begin

----------------------------------------------------------------------------
(* How a call goes on. *)

\* Everything but answering a request.
LEMMA ContinueGoesOn ==
    ASSUME TypeOK, NEW c \in Callers, Sound(call[c], group),
           StoreMembers(c) \/ StoreChannels(c) \/ FetchAfterAdmin(c) \/ DeleteOneWay(c) \/ Return(c)
    PROVE  Begins(c)
<1>1. WorldOK /\ call[c] \in CallRecord
  BY DEF TypeOK
<1>2. CASE StoreMembers(c)
  <2>1. /\ call[c].at = "fetched" /\ list' = call[c].snap
        /\ Answer(c, TRUE, call[c].did)
        /\ UNCHANGED <<server, channels, known, flags, events>>
    BY <1>2 DEF StoreMembers
  <2>2. call[c].snap \in Group /\ call[c].did \in BOOLEAN
    BY <1>1, <2>1 DEF CallRecord, Idle
  <2>3. World
    BY <1>1, <2>1, <2>2 DEF World, WorldOK, server, Group, Versions
  <2>4. QED
    BY <2>1, <2>2, <2>3, AnswerBegins
<1>3. CASE StoreChannels(c)
  <2>1. /\ call[c].at = "channels" /\ channels' = call[c].snap
        /\ Answer(c, TRUE, FALSE)
        /\ UNCHANGED <<server, list, known, flags, events>>
    BY <1>3 DEF StoreChannels
  <2>2. call[c].snap \in Nat
    BY <1>1, <2>1 DEF CallRecord, Idle
  <2>3. World
    BY <1>1, <2>1, <2>2 DEF World, WorldOK, server, Group, Versions
  <2>4. QED
    BY <2>1, <2>3, AnswerBegins
<1>4. CASE FetchAfterAdmin(c)
  <2> DEFINE late == [at |-> "answered", ok |-> FALSE, did |-> call[c].did, late |-> TRUE]
             fresh == [at |-> "fetched", snap |-> group, since |-> call[c].since, did |-> call[c].did]
  <2>1. call[c].at = "ordered" /\ NoChange /\ (Goes(c, late) \/ Goes(c, fresh))
    BY <1>4 DEF FetchAfterAdmin
  <2>2. /\ call[c].since \in Versions /\ call[c].did \in BOOLEAN
        /\ call[c].since <= group.v
    BY <1>1, <2>1 DEF CallRecord, Idle, Sound
  <2>3. late \in CallRecord /\ Sound(late, group') /\ late.at # "to_answer"
    BY <2>2 DEF CallRecord, Sound
  <2>4. fresh \in CallRecord /\ Sound(fresh, group') /\ fresh.at # "to_answer"
    BY <1>1, <2>2 DEF CallRecord, Sound, WorldOK
  <2> HIDE DEF late, fresh
  <2>5. QED
    BY <1>1, <2>1, <2>3, <2>4, NothingChanges DEF Begins
<1>5. CASE DeleteOneWay(c)
  <2>1. CASE Says(c, FALSE)
    BY <1>1, <2>1, SaysBegins
  <2>2. CASE /\ oneWay' = oneWay \ {call[c].user}
             /\ Answer(c, TRUE, oneWay' # oneWay)
             /\ UNCHANGED <<group, guild, friends, request, client, events>>
    <3>1. World
      BY <1>1, <2>2 DEF World, WorldOK, client, Group, Versions
    <3>2. QED
      BY <2>2, <3>1, AnswerBegins
  <2>3. QED
    BY <1>5, <2>1, <2>2 DEF DeleteOneWay
<1>6. CASE Return(c)
  <2>1. Goes(c, Idle) /\ NoChange
    BY <1>6 DEF Return, Goes
  <2>2. Idle \in CallRecord /\ Sound(Idle, group') /\ Idle.at # "to_answer"
    BY DEF CallRecord, Sound, Idle
  <2>3. QED
    BY <1>1, <2>1, <2>2, NothingChanges DEF Begins
<1>7. QED
  BY <1>2, <1>3, <1>4, <1>5, <1>6

----------------------------------------------------------------------------
(* The invariant. *)

\* Callers are finitely many, and so are those with an answer to give.
LEMMA AnsweringFinite ==
    ASSUME NEW s \in SUBSET Callers
    PROVE  IsFiniteSet(s) /\ Cardinality(s) \in Nat /\ Cardinality(s) <= Cardinality(Callers)
           /\ Cardinality(Callers) \in Nat
BY FewCallers, FS_Subset, FS_CardinalityType

\* The first step of a call keeps the invariant.
LEMMA BeginsKeeps ==
    ASSUME Inv, NEW c \in Callers, Begins(c)
    PROVE  Inv'
<1>1. PICK x \in CallRecord :
        /\ call' = [call EXCEPT ![c] = x] /\ Sound(x, group')
        /\ x.at = "to_answer" => request[x.req] = 0
  BY DEF Begins, Goes
<1>2. /\ WorldOK /\ call \in [Callers -> CallRecord]
      /\ WorldOK' /\ group'.v >= group.v /\ request' = request
  BY DEF Inv, TypeOK, Begins, World
<1>3. TypeOK'
  BY <1>1, <1>2 DEF TypeOK
<1>4. ASSUME NEW d \in Callers PROVE Sound(call'[d], group')
  <2>1. CASE d = c
    BY <2>1, <1>1, <1>2
  <2>2. CASE d # c
    <3>1. call'[d] = call[d] /\ call[d] \in CallRecord /\ Sound(call[d], group)
      BY <2>2, <1>1, <1>2 DEF Inv
    <3>2. call[d].at = "ordered" => call[d].since \in Nat
      BY <3>1 DEF CallRecord, Idle, Versions
    <3>3. group.v \in Nat /\ group'.v \in Nat
      BY <1>2 DEF WorldOK, Group, Versions
    <3>4. QED
      BY <1>2, <3>1, <3>2, <3>3 DEF Sound
  <2>3. QED
    BY <2>1, <2>2
<1>5. ASSUME NEW r \in Requests
      PROVE  request'[r] + Cardinality(Answering(r)') <= Cardinality(Callers)
  <2>1. request[r] \in Nat
    BY <1>2 DEF WorldOK
  <2>2. /\ Answering(r) \in SUBSET Callers /\ Answering(r)' \in SUBSET Callers
        /\ request[r] + Cardinality(Answering(r)) <= Cardinality(Callers)
    BY DEF Answering, Inv, Shares
  <2>3. CASE request[r] = 0
    BY <1>2, <2>2, <2>3, AnsweringFinite
  <2>4. CASE request[r] # 0
    <3>1. x # [at |-> "to_answer", req |-> r]
      BY <1>1, <2>4
    <3>2. Answering(r)' \in SUBSET Answering(r)
      BY <1>1, <1>2, <3>1 DEF Answering
    <3>3. Cardinality(Answering(r)') <= Cardinality(Answering(r))
      BY <2>2, <3>2, AnsweringFinite, FS_Subset
    <3>4. QED
      BY <1>2, <2>1, <2>2, <3>3, AnsweringFinite
  <2>5. QED
    BY <2>3, <2>4
<1>6. QED
  BY <1>3, <1>4, <1>5 DEF Inv, Shares

\* An answer is counted while its call stops being about to give one.
LEMMA AnswerKeeps ==
    ASSUME Inv, NEW c \in Callers, AnswerGroupRequest(c)
    PROVE  Inv'
<1> DEFINE q == call[c].req
           x == [at |-> "answered", ok |-> TRUE, did |-> TRUE, late |-> FALSE]
<1>1. /\ call[c].at = "to_answer"
      /\ request' = [request EXCEPT ![q] = @ + 1]
      /\ call' = [call EXCEPT ![c] = x]
      /\ UNCHANGED <<group, guild, friends, oneWay, client, events>>
  BY DEF AnswerGroupRequest, Answer
<1>2. WorldOK /\ call \in [Callers -> CallRecord]
  BY DEF Inv, TypeOK
<1>3. call[c] = [at |-> "to_answer", req |-> q] /\ q \in Requests
  BY <1>1, <1>2 DEF CallRecord, Idle
<1>4. x \in CallRecord /\ x.at = "answered" /\ x.ok
  BY DEF CallRecord
<1> HIDE DEF q, x
<1>5. TypeOK'
  BY <1>1, <1>2, <1>3, <1>4 DEF TypeOK, WorldOK, client
<1>6. \A d \in Callers : Sound(call'[d], group')
  BY <1>1, <1>2, <1>4 DEF Inv, Sound
<1>7. ASSUME NEW r \in Requests
      PROVE  request'[r] + Cardinality(Answering(r)') <= Cardinality(Callers)
  <2>1. request[r] \in Nat
    BY <1>2 DEF WorldOK
  <2>2. /\ Answering(r) \in SUBSET Callers
        /\ request[r] + Cardinality(Answering(r)) <= Cardinality(Callers)
    BY DEF Answering, Inv, Shares
  <2>3. x # [at |-> "to_answer", req |-> r]
    BY <1>4
  <2>4. CASE r = q
    <3>1. c \in Answering(r)
      BY <1>3, <2>4 DEF Answering
    <3>2. Answering(r)' = Answering(r) \ {c}
      BY <1>1, <1>2, <2>3 DEF Answering
    <3>3. Cardinality(Answering(r)') = Cardinality(Answering(r)) - 1
      BY <2>2, <3>1, <3>2, AnsweringFinite, FS_RemoveElement
    <3>4. request'[r] = request[r] + 1
      BY <1>1, <1>2, <2>4 DEF WorldOK
    <3>5. QED
      BY <2>1, <2>2, <3>3, <3>4, AnsweringFinite
  <2>5. CASE r # q
    <3>1. Answering(r)' = Answering(r)
      BY <1>1, <1>2, <1>3, <2>3, <2>5 DEF Answering
    <3>2. request'[r] = request[r]
      BY <1>1, <1>2, <2>5 DEF WorldOK
    <3>3. QED
      BY <2>2, <3>1, <3>2
  <2>6. QED
    BY <2>4, <2>5
<1>8. QED
  BY <1>5, <1>6, <1>7 DEF Inv, Shares

\* What happens outside calls: the server and the lists change.
LEMMA WorldKeeps ==
    ASSUME Inv, World, UNCHANGED call
    PROVE  Inv'
<1>1. TypeOK'
  BY DEF Inv, TypeOK, World
<1>2. ASSUME NEW c \in Callers PROVE Sound(call'[c], group')
  <2>1. call[c] \in CallRecord /\ Sound(call[c], group)
    BY DEF Inv, TypeOK
  <2>2. call[c].at = "ordered" => call[c].since \in Nat
    BY <2>1 DEF CallRecord, Idle, Versions
  <2>3. group.v \in Nat /\ group'.v \in Nat /\ group'.v >= group.v
    BY DEF Inv, TypeOK, World, WorldOK, Group, Versions
  <2>4. QED
    BY <2>1, <2>2, <2>3 DEF Sound
<1>3. Shares'
  BY DEF Inv, World, Shares, Answering
<1>4. QED
  BY <1>1, <1>2, <1>3 DEF Inv

\* Notices, requests and other people keep the invariant.
LEMMA OutsideKeeps ==
    ASSUME Inv,
           \/ \E e \in events : Handle(e)
           \/ \E f \in Flags : friendRequestEvent(f)
           \/ \E u \in Everybody, by \in Users, perm \in Perms : Others(u, by, perm)
           \/ GuildChanges
           \/ UNCHANGED vars
    PROVE  Inv' /\ UNCHANGED call
<1>1. WorldOK
  BY DEF Inv, TypeOK
<1>2. CASE \E e \in events : Handle(e)
  <2>1. PICK e \in events : Handle(e)
    BY <1>2
  <2>2. e.user \in Everybody /\ e \in Event
    BY <1>1 DEF WorldOK, Event
  <2>3. list' \in Group
    BY <1>1, <2>1, <2>2 DEF Handle, WorldOK, Group
  <2>4. World
    BY <1>1, <2>1, <2>3 DEF Handle, World, WorldOK, server, Group, Versions
  <2>5. QED
    BY <2>1, <2>4, WorldKeeps DEF Handle
<1>3. CASE \E f \in Flags : friendRequestEvent(f)
  <2>1. World /\ UNCHANGED call
    BY <1>1, <1>3 DEF friendRequestEvent, World, WorldOK, server, Group, Versions
  <2>2. QED
    BY <2>1, WorldKeeps
<1>4. CASE \E u \in Everybody, by \in Users, perm \in Perms : Others(u, by, perm)
  <2>1. PICK u \in Everybody, by \in Users, perm \in Perms : Others(u, by, perm)
    BY <1>4
  <2> DEFINE out == [type |-> "decrease", user |-> u, by |-> by]
             joins == [type |-> "increase", user |-> u]
             given == [type |-> "perm", user |-> u, perm |-> perm]
  <2>2. /\ CanChange /\ group' = Changed(u, perm)
        /\ \/ events' = events \cup {out} \/ events' = events \cup {joins}
           \/ events' = events \cup {given}
        /\ UNCHANGED <<guild, friends, oneWay, request, client, call>>
    BY <2>1 DEF Others
  <2>3. out \in Event /\ joins \in Event /\ given \in Event
    BY EventTypes DEF Everybody
  <2>4. group' \in Group /\ group'.v >= group.v
    BY <1>1, <2>2, ChangedIsGroup DEF WorldOK, Group, Versions
  <2> HIDE DEF out, joins, given
  <2>5. World
    BY <1>1, <2>2, <2>3, <2>4, GroupChanges
  <2>6. QED
    BY <2>2, <2>5, WorldKeeps
<1>5. CASE GuildChanges
  <2>1. World /\ UNCHANGED call
    BY <1>1, <1>5 DEF GuildChanges, World, WorldOK, client, Group, Versions
  <2>2. QED
    BY <2>1, WorldKeeps
<1>6. CASE UNCHANGED vars
  <2>1. World /\ UNCHANGED call
    BY <1>1, <1>6 DEF vars, server, client, World, WorldOK, Group, Versions
  <2>2. QED
    BY <2>1, WorldKeeps
<1>7. QED
  BY <1>2, <1>3, <1>4, <1>5, <1>6

\* A restart keeps it, and forgets all calls.
LEMMA RestartKeeps ==
    ASSUME Inv, Restart
    PROVE  Inv' /\ \A c \in Callers : call'[c].at = "idle"
<1>1. /\ list' = group /\ channels' = guild /\ known' = friends
      /\ flags' = {} /\ events' = {}
      /\ call' = [c \in Callers |-> Idle]
      /\ UNCHANGED <<group, guild, friends, oneWay, request>>
  BY DEF Restart, server
<1>2. WorldOK
  BY DEF Inv, TypeOK
<1>3. TypeOK'
  BY <1>1, <1>2 DEF TypeOK, WorldOK, CallRecord
<1>4. \A c \in Callers : call'[c].at = "idle" /\ Sound(call'[c], group')
  BY <1>1 DEF Sound, Idle
<1>5. ASSUME NEW r \in Requests
      PROVE  request'[r] + Cardinality(Answering(r)') <= Cardinality(Callers)
  <2>1. Answering(r)' = {}
    BY <1>1 DEF Answering, Idle
  <2>2. Answering(r) \in SUBSET Callers /\ request[r] \in Nat /\ request'[r] = request[r]
        /\ request[r] + Cardinality(Answering(r)) <= Cardinality(Callers)
    BY <1>1, <1>2 DEF Answering, Inv, Shares, WorldOK
  <2>3. QED
    BY <2>1, <2>2, AnsweringFinite, FS_EmptySet
<1>6. QED
  BY <1>3, <1>4, <1>5 DEF Inv, Shares

\* The only step that ends a call with a fetched list is the one that puts it
\* in the place of the client's.
LEMMA FetchedIsStored ==
    ASSUME Inv, [Next]_vars, NEW c \in Callers,
           call[c].at = "fetched", call'[c].at = "answered"
    PROVE  list'.v >= call[c].since
<1>1. call \in [Callers -> CallRecord] /\ Sound(call[c], group)
  BY DEF Inv, TypeOK
<1>2. CASE StoreMembers(c)
  <2>1. list' = call[c].snap /\ call[c].snap \in Group /\ call[c].since \in Versions
    BY <1>1, <1>2 DEF StoreMembers, CallRecord, Idle
  <2>2. QED
    BY <1>1, <2>1 DEF Sound, Group, Versions
<1>3. CASE ~StoreMembers(c)
  <2>1. ASSUME NEW d \in Callers, (call[d].at = "idle" /\ Begin(d)) \/ Continue(d)
        PROVE  FALSE
    <3>1. CASE d = c
      BY <1>3, <2>1, <3>1 DEF Continue, StoreMembers, StoreChannels, FetchAfterAdmin,
         AnswerGroupRequest, DeleteOneWay, Return
    <3>2. CASE d # c
      <4>1. CASE AnswerGroupRequest(d)
        BY <1>1, <3>2, <4>1 DEF AnswerGroupRequest, Answer
      <4>2. CASE ~AnswerGroupRequest(d)
        <5>1. Begins(d)
          BY <2>1, <4>2, BeginBegins, ContinueGoesOn DEF Inv, TypeOK, Continue
        <5>2. QED
          BY <1>1, <3>2, <5>1 DEF Begins, Goes
      <4>3. QED
        BY <4>1, <4>2
    <3>3. QED
      BY <3>1, <3>2
  <2>2. CASE Restart
    BY <2>2, RestartKeeps
  <2>3. CASE ~Restart
    BY <2>1, <2>3, OutsideKeeps DEF Next
  <2>4. QED
    BY <2>2, <2>3
<1>4. QED
  BY <1>2, <1>3

\* Every step keeps the invariant.
LEMMA Invariance ==
    ASSUME Inv, [Next]_vars
    PROVE  Inv'
<1>1. ASSUME NEW c \in Callers, (call[c].at = "idle" /\ Begin(c)) \/ Continue(c)
      PROVE  Inv'
  <2>1. CASE AnswerGroupRequest(c)
    BY <2>1, AnswerKeeps
  <2>2. CASE ~AnswerGroupRequest(c)
    <3>1. Begins(c)
      BY <1>1, <2>2, BeginBegins, ContinueGoesOn DEF Inv, TypeOK, Continue
    <3>2. QED
      BY <3>1, BeginsKeeps
  <2>3. QED
    BY <2>1, <2>2
<1>2. CASE Restart
  BY <1>2, RestartKeeps
<1>3. QED
  BY <1>1, <1>2, OutsideKeeps DEF Next

\* The invariant holds at the start.
LEMMA InitInv ==
    ASSUME Init
    PROVE  Inv
<1>1. PICK own \in {"owner", "admin"} :
        group = [v |-> 0, perm |-> [u \in Everybody |-> IF u = Self THEN own ELSE "member"]]
  BY DEF Init
<1>2. group \in Group
  BY <1>1, BoundsAreNumbers DEF Group, Versions, Perms
<1>3. /\ list = group /\ guild = 0 /\ channels = 0
      /\ friends = Users /\ known = Users /\ oneWay = Users
      /\ request = [r \in Requests |-> 0] /\ flags = {}
      /\ events = {}
      /\ call = [c \in Callers |-> Idle]
  BY DEF Init
<1>4. TypeOK
  BY <1>2, <1>3 DEF TypeOK, WorldOK, CallRecord
<1>5. \A c \in Callers : Sound(call[c], group)
  BY <1>3 DEF Sound, Idle
<1>6. ASSUME NEW r \in Requests
      PROVE  request[r] + Cardinality(Answering(r)) <= Cardinality(Callers)
  <2>1. Answering(r) = {} /\ request[r] = 0
    BY <1>3 DEF Answering, Idle
  <2>2. Answering(r) \in SUBSET Callers
    BY DEF Answering
  <2>3. QED
    BY <2>1, <2>2, AnsweringFinite, FS_EmptySet
<1>7. QED
  BY <1>4, <1>5, <1>6 DEF Inv, Shares

\* The invariant holds in every state.
LEMMA InvHolds == Spec => []Inv
<1>1. Init => Inv
  BY InitInv
<1>2. Inv /\ [Next]_vars => Inv'
  BY Invariance
<1>3. QED
  BY <1>1, <1>2, PTL DEF Spec

----------------------------------------------------------------------------

(* Groups, lists, notices and calls keep their types, over every interleaving *)
(* of any number of callers.                                                  *)
THEOREM TypeCorrect == Spec => []TypeOK
<1>1. Inv => TypeOK
  BY DEF Inv
<1>2. QED
  BY <1>1, InvHolds, PTL

(* A request of the group is answered at most as often as calls overlap.     *)
THEOREM AnswersAreBounded == Spec => []RequestAnswers
<1>1. ASSUME Inv PROVE RequestAnswers
  <2>1. ASSUME NEW r \in Requests PROVE request[r] <= Cardinality(Callers)
    <3>1. /\ Answering(r) \in SUBSET Callers /\ request[r] \in Nat
          /\ request[r] + Cardinality(Answering(r)) <= Cardinality(Callers)
      BY <1>1 DEF Inv, TypeOK, WorldOK, Shares, Answering
    <3>2. QED
      BY <3>1, AnsweringFinite
  <2>2. QED
    BY <2>1 DEF RequestAnswers
<1>2. QED
  BY <1>1, InvHolds, PTL

(* A call that is answered with a failure has changed nothing at the server, *)
(* unless it is a set_group_admin whose refresh failed after the order.      *)
THEOREM FailuresDidNothing == Spec => []FailedDidNothing
<1>1. Inv => FailedDidNothing
  BY DEF Inv, Sound, FailedDidNothing
<1>2. QED
  BY <1>1, InvHolds, PTL

(* The list that set_group_admin leaves behind is not older than its order.  *)
THEOREM AdminListIsFresh == Spec => AdminIsFresh
<1>1. Inv /\ [Next]_vars =>
        [\A c \in Callers : call[c].at = "fetched" /\ call'[c].at = "answered"
           => list'.v >= call[c].since]_vars
  BY FetchedIsStored
<1>2. QED
  BY <1>1, InvHolds, PTL DEF Spec, AdminIsFresh

=============================================================================
