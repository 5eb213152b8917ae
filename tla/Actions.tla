------------------------------- MODULE Actions -------------------------------
(* The actions on groups, members, friends, requests and guilds              *)
(* (coolq/api.go), called by several users at once, over an external server  *)
(* and the lists of it that the client keeps.  A call is cut where it has an *)
(* answer of the server in hand and still has to use it; what it does        *)
(* between two answers is one step.  A request that fails is taken to have   *)
(* had no effect.  One group and one guild: no list is shared by two.        *)
EXTENDS Naturals, FiniteSets, Sequences

CONSTANTS
    Callers,    \* requests that are served at the same time
    Users, Self,
    Requests,   \* requests of the group: to join, or invitations
    Flags,      \* requests of would-be friends
    MaxChanges, \* bound: changes of the group; one is enough for the guild
    MaxAnswers  \* bound: answers to a request

ASSUME FewCallers == IsFiniteSet(Callers)
ASSUME BoundsAreNumbers == MaxChanges \in Nat /\ MaxAnswers \in Nat

VARIABLES
    group,    \* server: the members, [v, perm], where v counts the changes
    list,     \* bot.Client's copy of the group, of some version
    guild,    \* server: version of the guild's channels
    channels, \* bot.Client's copy of them
    friends, known, oneWay, \* friends at the server, FriendList, one-way friends
    request,  \* server: answers given to each group request
    flags,    \* bot.friendReqCache
    events,   \* notices the server has sent
    call      \* [caller -> the call it is in]

server == <<group, guild, friends, oneWay, request>>
client == <<list, channels, known, flags>>
vars == <<server, client, events, call>>

Perms == {"owner", "admin", "member", "out"}
Everybody == Users \cup {Self}
Versions == 0..MaxChanges
Group == [v : Versions, perm : [Everybody -> Perms]]

In(gr, u) == gr.perm[u] # "out"
Idle == [at |-> "idle"]

----------------------------------------------------------------------------
(* Answers.  did: the call changed something at the server; late: it failed *)
(* at refreshing the list after that.                                       *)

Answer(c, ok, did) == call' = [call EXCEPT ![c] = [at |-> "answered", ok |-> ok, did |-> did, late |-> FALSE]]
Goes(c, record) == call' = [call EXCEPT ![c] = record]
NoChange == UNCHANGED <<server, client, events>>

\* Answered from what the client has, or from its one request.
Says(c, ok) == Answer(c, ok, FALSE) /\ NoChange
Asks(c) == \E ok \in BOOLEAN : Says(c, ok)

\* An order to the server about something no model variable holds (a card, a
\* title, a notice, a file): refused by a guard of the code, failed at the
\* server, or carried out.
Orders(c, guard) ==
    /\ NoChange
    /\ \/ Answer(c, FALSE, FALSE)
       \/ guard /\ Answer(c, TRUE, TRUE)

\* The same where the outcome is not looked at: OK either way.
OrdersBlindly(c, guard) ==
    /\ NoChange
    /\ \/ ~guard /\ Answer(c, FALSE, FALSE)
       \/ guard /\ \E done \in BOOLEAN : Answer(c, TRUE, done)

----------------------------------------------------------------------------
(* Reading. *)

\* What the client knows, or what the server says if it says anything.
CQGetLoginInfo(c) == Says(c, TRUE)
CQGetGuildServiceProfile(c) == Says(c, TRUE)
CQGetGuildList(c) == Says(c, TRUE)
CQGetFriendList(c) == Says(c, TRUE)
CQGetGroupHonorInfo(c) == Says(c, TRUE)
CQGetStatus(c) == Says(c, TRUE)
CQGetVersionInfo(c) == Says(c, TRUE)
CQCanSendImage(c) == Says(c, TRUE)
CQCanSendRecord(c) == Says(c, TRUE)
CQCheckURLSafely(c) == Says(c, TRUE)

\* A request that may fail, or something that may not be there.
CQGetQiDianAccountInfo(c) == Asks(c)
CQGetGuildMetaByGuest(c) == Asks(c)
CQGetGuildMembers(c) == Asks(c)
CQGetGuildRoles(c) == Asks(c)
CQGetUnidirectionalFriendList(c) == Asks(c)
CQGetGroupFileSystemInfo(c) == Asks(c)
CQGetGroupRootFiles(c) == Asks(c)
CQGetGroupFilesByFolderID(c) == Asks(c)
CQGetGroupFileURL(c) == Asks(c)
CQGetWordSlices(c) == Asks(c)
CQGetAtAllRemain(c) == Asks(c)
CQGetVipInfo(c) == Asks(c)
CQGetStrangerInfo(c) == Asks(c)
CQGetForwardMessage(c) == Asks(c)
CQGetGroupSystemMessages(c) == Asks(c)
CQGetOnlineClients(c) == Asks(c)
CQGetEssenceMessageList(c) == Asks(c)
CQGetModelShow(c) == Asks(c)
CQOcrImage(c) == Asks(c)

Reads(c) ==
    \/ CQGetLoginInfo(c) \/ CQGetGuildServiceProfile(c) \/ CQGetGuildList(c)
    \/ CQGetFriendList(c) \/ CQGetGroupHonorInfo(c) \/ CQGetStatus(c)
    \/ CQGetVersionInfo(c) \/ CQCanSendImage(c) \/ CQCanSendRecord(c)
    \/ CQCheckURLSafely(c) \/ CQGetQiDianAccountInfo(c) \/ CQGetGuildMetaByGuest(c)
    \/ CQGetGuildMembers(c) \/ CQGetGuildRoles(c) \/ CQGetUnidirectionalFriendList(c)
    \/ CQGetGroupFileSystemInfo(c) \/ CQGetGroupRootFiles(c) \/ CQGetGroupFilesByFolderID(c)
    \/ CQGetGroupFileURL(c) \/ CQGetWordSlices(c) \/ CQGetAtAllRemain(c)
    \/ CQGetVipInfo(c) \/ CQGetStrangerInfo(c) \/ CQGetForwardMessage(c)
    \/ CQGetGroupSystemMessages(c) \/ CQGetOnlineClients(c) \/ CQGetEssenceMessageList(c)
    \/ CQGetModelShow(c) \/ CQOcrImage(c)

\* no_cache reloads the whole list; an error of it is not looked at.
CQGetGroupList(c, noCache) ==
    /\ Answer(c, TRUE, FALSE)
    /\ list' \in {list} \cup (IF noCache THEN {group} ELSE {})
    /\ UNCHANGED <<server, channels, known, flags, events>>

\* The list, else the group's page, else the search.
CQGetGroupInfo(c) == Asks(c)

\* The member comes from the list, or from the server, which leaves the list.
CQGetGroupMemberInfo(c, u, noCache) ==
    \/ ~noCache /\ Says(c, In(list, Self) /\ In(list, u))
    \/ noCache /\ Asks(c)

\* no_cache fetches the members and then puts them in the place of the list.
CQGetGroupMemberList(c, noCache) ==
    \/ ~In(list, Self) /\ Says(c, FALSE)
    \/ In(list, Self) /\ Says(c, ~noCache)
    \/ /\ In(list, Self) /\ noCache /\ NoChange
       /\ Goes(c, [at |-> "fetched", snap |-> group, since |-> group.v, did |-> FALSE])

StoreMembers(c) ==
    /\ call[c].at = "fetched"
    /\ list' = call[c].snap
    /\ Answer(c, TRUE, call[c].did)
    /\ UNCHANGED <<server, channels, known, flags, events>>

\* The same with the channels of the guild.
CQGetGuildChannelList(c, noCache) ==
    \/ Says(c, FALSE)
    \/ ~noCache /\ Says(c, TRUE)
    \/ noCache /\ NoChange /\ Goes(c, [at |-> "channels", snap |-> guild])

StoreChannels(c) ==
    /\ call[c].at = "channels"
    /\ channels' = call[c].snap
    /\ Answer(c, TRUE, FALSE)
    /\ UNCHANGED <<server, list, known, flags, events>>

----------------------------------------------------------------------------
(* Changing. *)

\* Creating, deleting, changing and giving roles of a guild.
CQCreateGuildRole(c) == Orders(c, TRUE)
CQDeleteGuildRole(c) == Orders(c, TRUE)
CQSetGuildMemberRole(c) == Orders(c, TRUE)
CQModifyRoleInGuild(c) == Orders(c, TRUE)

CQUploadGroupFile(c) == Orders(c, TRUE)
CQGroupFileCreateFolder(c) == Orders(c, TRUE)
CQGroupFileDeleteFolder(c) == Orders(c, TRUE)
CQGroupFileDeleteFile(c) == Orders(c, TRUE)
CQSetModelShow(c) == Orders(c, TRUE)

CQSetGroupCard(c, u) == OrdersBlindly(c, In(list, Self) /\ In(list, u))
CQSetGroupSpecialTitle(c, u) == OrdersBlindly(c, In(list, Self) /\ In(list, u))
CQSetGroupName(c) == OrdersBlindly(c, In(list, Self))
CQSetGroupMemo(c) == Orders(c, In(list, Self) /\ list.perm[Self] # "member")
CQSetGroupBan(c, u) == Orders(c, In(list, Self) /\ In(list, u))
CQSetGroupWholeBan(c) == OrdersBlindly(c, In(list, Self))
CQSetGroupPortrait(c) == Says(c, FALSE) \/ OrdersBlindly(c, In(list, Self))
CQSetGroupAnonymousBan(c) == Orders(c, In(list, Self))

\* Changes of the group at the server, by whomever.
Changed(u, perm) == [v |-> group.v + 1, perm |-> [group.perm EXCEPT ![u] = perm]]
CanChange == group.v < MaxChanges
Manages(by, u) == \/ group.perm[by] = "owner" /\ u # by
                  \/ group.perm[by] = "admin" /\ group.perm[u] = "member"

\* Kick and Quit; the list follows when the server's notice comes.
CQSetGroupKick(c, u) ==
    \/ Says(c, FALSE)
    \/ /\ In(list, Self) /\ In(list, u) /\ In(group, u) /\ Manages(Self, u) /\ CanChange
       /\ group' = Changed(u, "out")
       /\ events' = events \cup {[type |-> "decrease", user |-> u, by |-> Self]}
       /\ Answer(c, TRUE, TRUE)
       /\ UNCHANGED <<guild, friends, oneWay, request, client>>

CQSetGroupLeave(c) ==
    \/ ~In(list, Self) /\ Says(c, FALSE)
    \/ /\ In(list, Self) /\ In(group, Self) /\ CanChange
       /\ group' = Changed(Self, "out")
       /\ events' = events \cup {[type |-> "decrease", user |-> Self, by |-> Self]}
       /\ Answer(c, TRUE, TRUE)
       /\ UNCHANGED <<guild, friends, oneWay, request, client>>

\* A slip of CQSetGroupAdmin: the list is fetched before the order.
CQSetGroupAdminFetchFirst(c, u, enable) ==
    /\ In(list, Self) /\ list.perm[Self] = "owner" /\ In(list, u) /\ u # Self /\ CanChange
    /\ group' = Changed(u, IF enable THEN "admin" ELSE "member")
    /\ Goes(c, [at |-> "fetched", snap |-> group, since |-> group'.v, did |-> TRUE])
    /\ UNCHANGED <<guild, friends, oneWay, request, client, events>>

\* The order is given without looking at its outcome, and the list is then
\* fetched: if that fails, so does the call.
CQSetGroupAdmin(c, u, enable) ==
    \/ ~(In(list, Self) /\ list.perm[Self] = "owner" /\ In(list, u)) /\ Says(c, FALSE)
    \/ /\ In(list, Self) /\ list.perm[Self] = "owner" /\ In(list, u) /\ CanChange
       /\ group' \in {group} \cup (IF group.perm[Self] = "owner" /\ In(group, u) /\ u # Self
                                   THEN {Changed(u, IF enable THEN "admin" ELSE "member")} ELSE {})
       /\ events' = events \cup (IF group' = group THEN {}
                                 ELSE {[type |-> "perm", user |-> u, perm |-> group'.perm[u]]})
       /\ Goes(c, [at |-> "ordered", since |-> group'.v, did |-> group' # group])
       /\ UNCHANGED <<guild, friends, oneWay, request, client>>

FetchAfterAdmin(c) ==
    /\ call[c].at = "ordered" /\ NoChange
    /\ \/ Goes(c, [at |-> "answered", ok |-> FALSE, did |-> call[c].did, late |-> TRUE])
       \/ Goes(c, [at |-> "fetched", snap |-> group, since |-> call[c].since, did |-> call[c].did])

\* The flag of a friend's request stays in the cache after it was used.
CQProcessFriendRequest(c, f) == OrdersBlindly(c, f \in flags)

\* A slip of what follows: Checked is not looked at.
CQProcessGroupRequestUnchecked(c, r) ==
    \/ Says(c, FALSE)
    \/ NoChange /\ Goes(c, [at |-> "to_answer", req |-> r])

\* The requests are fetched, and one that has not been dealt with is answered.
CQProcessGroupRequest(c, r) ==
    \/ Says(c, FALSE)
    \/ /\ request[r] = 0 /\ NoChange
       /\ Goes(c, [at |-> "to_answer", req |-> r])

AnswerGroupRequest(c) ==
    /\ call[c].at = "to_answer" /\ request[call[c].req] < MaxAnswers
    /\ request' = [request EXCEPT ![call[c].req] = @ + 1]
    /\ Answer(c, TRUE, TRUE)
    /\ UNCHANGED <<group, guild, friends, oneWay, client, events>>

\* The friend is looked up in FriendList.
CQDeleteFriend(c, u) ==
    \/ Says(c, FALSE)
    \/ /\ u \in known
       /\ friends' = friends \ {u} /\ known' \in {known, known \ {u}}
       /\ Answer(c, TRUE, TRUE)
       /\ UNCHANGED <<group, guild, oneWay, request, list, channels, flags, events>>

\* A one-way friend is looked up in the list the server gives.
CQDeleteUnidirectionalFriend(c, u) ==
    \/ Says(c, FALSE)
    \/ u \in oneWay /\ NoChange /\ Goes(c, [at |-> "one_way", user |-> u])

\* A slip of what follows: the loop goes on after the friend it deleted.
DeleteOneWayAndGoOn(c) ==
    /\ call[c].at = "one_way"
    /\ oneWay' \in {oneWay, oneWay \ {call[c].user}}
    /\ Answer(c, FALSE, oneWay' # oneWay)
    /\ UNCHANGED <<group, guild, friends, request, client, events>>

\* It may be gone by now, which the server may or may not take for an error.
DeleteOneWay(c) ==
    /\ call[c].at = "one_way"
    /\ \/ Says(c, FALSE)
       \/ /\ oneWay' = oneWay \ {call[c].user}
          /\ Answer(c, TRUE, oneWay' # oneWay)
          /\ UNCHANGED <<group, guild, friends, request, client, events>>

----------------------------------------------------------------------------
(* Events. *)

\* External: the client brings its list up to date for the member the event
\* is about, and hands the event to the handler.
Handle(e) ==
    /\ e \in events
    /\ events' = events \ {e}
    /\ list' = IF e.type \in {"increase", "decrease", "perm"}
               THEN [list EXCEPT !.perm[e.user] = group.perm[e.user]] ELSE list
    /\ UNCHANGED <<server, channels, known, flags, call>>

friendRequestEvent(f) ==
    /\ f \notin flags
    /\ flags' = flags \cup {f}
    /\ UNCHANGED <<server, list, channels, known, events, call>>

----------------------------------------------------------------------------
(* External: what others do. *)

\* Somebody joins or leaves, or is kicked, promoted or demoted by another.
Others(u, by, perm) ==
    /\ CanChange /\ perm # group.perm[u]
    /\ CASE perm = "out" -> u = by \/ Manages(by, u)
         [] perm = "member" /\ ~In(group, u) -> u = by /\ u # Self
         [] OTHER -> In(group, u) /\ group.perm[by] = "owner" /\ u # by /\ perm # "owner"
    /\ by # Self
    /\ group' = Changed(u, perm)
    /\ events' = events \cup
         {CASE perm = "out" -> [type |-> "decrease", user |-> u, by |-> by]
            [] ~In(group, u) -> [type |-> "increase", user |-> u]
            [] OTHER -> [type |-> "perm", user |-> u, perm |-> perm]}
    /\ UNCHANGED <<guild, friends, oneWay, request, client, call>>

GuildChanges ==
    /\ guild = 0
    /\ guild' = guild + 1
    /\ UNCHANGED <<group, friends, oneWay, request, client, events, call>>

\* The caller has its answer.
Return(c) ==
    /\ call[c].at = "answered"
    /\ call' = [call EXCEPT ![c] = Idle]
    /\ NoChange

\* Stop and start: lists are read anew, flags are forgotten, calls are cut off.
Restart ==
    /\ list' = group /\ channels' = guild /\ known' = friends
    /\ flags' = {} /\ events' = {}
    /\ call' = [c \in Callers |-> Idle]
    /\ UNCHANGED server

----------------------------------------------------------------------------

Init ==
    /\ \E own \in {"owner", "admin"} :
         group = [v |-> 0, perm |-> [u \in Everybody |-> IF u = Self THEN own ELSE "member"]]
    /\ list = group /\ guild = 0 /\ channels = 0
    /\ friends = Users /\ known = Users /\ oneWay = Users
    /\ request = [r \in Requests |-> 0] /\ flags = {}
    /\ events = {}
    /\ call = [c \in Callers |-> Idle]

Begin(c) ==
    \/ Reads(c) \/ CQGetGroupInfo(c)
    \/ CQCreateGuildRole(c) \/ CQDeleteGuildRole(c) \/ CQModifyRoleInGuild(c)
    \/ CQSetGuildMemberRole(c) \/ CQUploadGroupFile(c)
    \/ CQGroupFileCreateFolder(c) \/ CQGroupFileDeleteFolder(c) \/ CQGroupFileDeleteFile(c)
    \/ CQSetModelShow(c) \/ CQSetGroupName(c) \/ CQSetGroupMemo(c) \/ CQSetGroupWholeBan(c)
    \/ CQSetGroupPortrait(c) \/ CQSetGroupAnonymousBan(c) \/ CQSetGroupLeave(c)
    \/ \E noCache \in BOOLEAN : \/ CQGetGroupList(c, noCache) \/ CQGetGroupMemberList(c, noCache)
                               \/ CQGetGuildChannelList(c, noCache)
                               \/ \E u \in Users : CQGetGroupMemberInfo(c, u, noCache)
    \/ \E u \in Users : \/ CQSetGroupCard(c, u) \/ CQSetGroupSpecialTitle(c, u) \/ CQSetGroupBan(c, u)
                       \/ CQSetGroupKick(c, u) \/ CQDeleteFriend(c, u) \/ CQDeleteUnidirectionalFriend(c, u)
                       \/ \E enable \in BOOLEAN : CQSetGroupAdmin(c, u, enable)
    \/ \E f \in Flags : CQProcessFriendRequest(c, f)
    \/ \E r \in Requests : CQProcessGroupRequest(c, r)

Continue(c) == \/ StoreMembers(c) \/ StoreChannels(c) \/ FetchAfterAdmin(c)
               \/ AnswerGroupRequest(c) \/ DeleteOneWay(c) \/ Return(c)

Next ==
    \/ \E c \in Callers : (call[c].at = "idle" /\ Begin(c)) \/ Continue(c)
    \/ \E e \in events : Handle(e)
    \/ \E f \in Flags : friendRequestEvent(f)
    \/ \E u \in Everybody, by \in Users, perm \in Perms : Others(u, by, perm)
    \/ GuildChanges \/ Restart

Spec == Init /\ [][Next]_vars

----------------------------------------------------------------------------

(* However many calls are made, a request of the group is answered at most   *)
(* as often as calls overlap: once dealt with, a later call refuses it.      *)
RequestAnswers == \A r \in Requests : request[r] <= Cardinality(Callers)

(* A call that is answered with a failure has changed nothing at the server, *)
(* but for set_group_admin, whose refresh of the list comes after the order. *)
FailedDidNothing ==
    \A c \in Callers : call[c].at = "answered" /\ ~call[c].ok /\ call[c].did => call[c].late

(* The list that set_group_admin leaves behind is one of the server's after  *)
(* the order, whatever other calls and events came between.                  *)
AdminIsFresh ==
    [][\A c \in Callers : call[c].at = "fetched" /\ call'[c].at = "answered"
          => list'.v >= call[c].since]_vars
=============================================================================
