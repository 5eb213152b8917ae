------------------------------ MODULE Messages ------------------------------
(* The messages of the bot: what its actions send, forward, recall and look  *)
(* up (coolq/api.go, coolq/bot.go), what message events record and post      *)
(* (coolq/event.go, coolq/converter.go), and the message database behind     *)
(* both (db/).  The QQ server is external: it accepts or refuses a request.  *)
(* An action call is one step, except a quick operation, whose calls other   *)
(* calls may come between.  The checksum of a global ID is taken to be       *)
(* injective; the code it is made from is kept.  report-self-message is off, *)
(* as in the default configuration: the bot hears nothing of its own sends.  *)
EXTENDS Naturals, FiniteSets, Sequences, SequencesExt

CONSTANTS
    Groups, Users, \* group codes and user numbers
    Self,          \* the bot's own number
    Led,           \* the groups the bot is an administrator of
    Backends,      \* the configured back ends of the message database
    MaxMessages,   \* bound: messages the server takes
    NoGroup, NoId  \* groupID = 0; message id -1, and the 0 of a poke

\* Group codes and user numbers share one space at the server; a group with
\* the code of a user would share global IDs with that user.
ASSUME CodesApart == Groups \cap (Users \cup {Self}) = {} /\ Self \notin Users
ASSUME KnownBackends == Backends \subseteq {"leveldb", "mongodb"} /\ Led \subseteq Groups
ASSUME MessagesCounted == MaxMessages \in Nat
\* A checksum can be -1 by chance, as two can be equal; both are left out.
ASSUME IdsAreGood == NoId \notin (Groups \cup Users \cup {Self}) \X Nat

VARIABLES
    log,      \* server: the messages it took, oldest first
    marks,    \* server: pairs of a mark (gone, essence) and a message
    inGroup,  \* server: who is in each group
    members,  \* bot.Client's list of the members of each group
    joined,   \* bot.Client.GroupList
    friends,  \* bot.Client.FriendList
    session,  \* bot.tempSessionCache: the group of the session, or NoGroup
    inbox,    \* messages whose event the client has not handed over yet
    store,    \* [back end -> its records]; equal documents are one
    order,    \* backends, in the order Init met them in a Go map
    todo,     \* calls a quick operation has still to make
    told,     \* history: pairs of an id given to a user of the bot and the message
    answer    \* the last answer: its kind, the id in it, and what the server took

server == <<log, marks, inGroup>>
client == <<members, joined, friends, session>>
db == <<store, order>>
vars == <<server, client, db, inbox, todo, told, answer>>

Kinds == {"text", "media", "poke", "music"}
Message == {m \in [type : {"group", "private", "temp"}, chat : Groups \cup Users,
                   from : Users \cup {Self}, no : 1..MaxMessages] :
                m.type = "group" <=> m.chat \in Groups}

----------------------------------------------------------------------------
(* The message database. *)

\* ToGlobalID of the group and the number, or of the sender and the number.
Code(m) == IF m.type = "group" THEN m.chat ELSE m.from
GlobalID(m) == <<Code(m), m.no>>

\* leveldb puts under the key, mongodb inserts one more document.
InsertInto(b, m) ==
    {m} \cup {r \in store[b] : b = "leveldb" => GlobalID(r) # GlobalID(m)}

\* A slip of Inserted: an error does not stop the loop.
InsertedInAll(m, n) == [b \in Backends |-> InsertInto(b, m)]
\* InsertGroupMessage and InsertPrivateMessage write in turn; the first error
\* stops, so that the first n back ends have the message.
Inserted(m, n) ==
    [b \in Backends |-> IF \E i \in 1..n : order[i] = b THEN InsertInto(b, m) ELSE store[b]]
\* A slip of it: the error is logged and the id returned all the same.
InsertedIDAnyway(m, n) == GlobalID(m)
InsertedID(m, n) == IF n = Len(order) THEN GlobalID(m) ELSE NoId
Handed(m, n) == {<<InsertedID(m, n), m>>}

\* The records a look-up may answer with.  Only the first back end is read;
\* mongodb looks among groups first, and finds one of the documents there.
Candidates(id) == {r \in store[order[1]] : GlobalID(r) = id}
MongoFirst(found) ==
    LET ofGroup == {r \in found : r.type = "group"}
    IN  IF ofGroup # {} THEN ofGroup ELSE found
Found(id) == IF order = <<>> THEN {}
             ELSE IF order[1] = "mongodb" THEN MongoFirst(Candidates(id))
             ELSE Candidates(id)
FoundGroup(id) == {m \in Found(id) : m.type = "group"}

----------------------------------------------------------------------------
(* Sending. *)

\* Numbers count up in a group, and for a sender outside groups.
SameSeries(m, type, chat, from) ==
    IF type = "group" THEN m.type = "group" /\ m.chat = chat
    ELSE m.type # "group" /\ m.from = from
NextMessage(type, chat, from, before) ==
    [type |-> type, chat |-> chat, from |-> from,
     no |-> 1 + Cardinality({i \in DOMAIN before : SameSeries(before[i], type, chat, from)})]

Room(n) == Len(log) + n <= MaxMessages

\* OK, Failed, or no answer at all because the handler panicked.
Reply(kind, id, sent) == answer' = [kind |-> kind, id |-> id, sent |-> sent]
OkIf(ok) == IF ok THEN "ok" ELSE "failed"

Only(kind) == Reply(kind, NoId, {}) /\ UNCHANGED <<server, client, db, inbox, told>>
Refuse == Only("failed")

\* What remains of a message: the first poke or music share takes its place
\* (what is before it is dropped), media that cannot be uploaded is skipped.
Shape(elems, lost) ==
    LET special == {i \in DOMAIN elems : elems[i] \in {"poke", "music"}}
    IN  IF special # {} THEN elems[CHOOSE i \in special : \A j \in special : i <= j]
        ELSE IF \E i \in DOMAIN elems \ lost : TRUE THEN "plain" ELSE "none"

\* The server took m, which is then recorded: the answer is the id.  If some
\* back end failed there is none, which the caller of a send is told is a
\* failure (checked), and the caller of a forward is given as the id.
TakenAndRecorded(m, extra, checked) ==
    \E n \in 0..Len(order) :
      LET id == InsertedID(m, n)
          ok == id # NoId \/ ~checked
      IN  /\ log' = Append(log, m) \o extra
          /\ store' = Inserted(m, n)
          /\ told' = IF ok THEN told \cup Handed(m, n) ELSE told
          /\ Reply(OkIf(ok), id, {m} \cup ToSet(extra))
          /\ UNCHANGED <<marks, inGroup, client, inbox, order>>

\* Taken, and not recorded: the answer says so (ok) or says it failed.
TakenOnly(m, ok) ==
    /\ log' = Append(log, m)
    /\ Reply(OkIf(ok), NoId, {m})
    /\ UNCHANGED <<marks, inGroup, client, db, inbox, told>>

\* A message that is too long goes out in parts: the first one's answer counts
\* and is recorded, whatever becomes of the others.
SendGroupMessage(g, shape) ==
    LET m1 == NextMessage("group", g, Self, log)
        m2 == NextMessage("group", g, Self, Append(log, m1))
    IN  \/ shape = "none" /\ Refuse
        \/ shape = "poke" /\ Only("ok")
        \/ /\ shape \in {"music", "plain"}
           /\ Refuse \/ (Room(1) /\ TakenAndRecorded(m1, <<>>, TRUE))
        \/ shape = "plain" /\ Room(2) /\ TakenAndRecorded(m1, <<m2>>, TRUE)
        \/ shape = "plain" /\ Room(1) /\ TakenOnly(m1, FALSE) \* the later part alone

CQSendGroupMessage(g, elems, lost) ==
    \/ g \notin joined /\ Refuse
    \/ g \in joined /\ SendGroupMessage(g, Shape(elems, lost))

\* To a friend, in a temporary session, or to a one-way friend if there is one.
SendPrivateMessage(u, g, shape) ==
    LET m == NextMessage("private", u, Self, log)
        t == NextMessage("temp", u, Self, log)
        barred == g # NoGroup /\ (g \notin joined \cap Led \/ u \notin members[g])
        temporary == session[u] # NoGroup \/ g # NoGroup
    IN  \/ shape = "none" /\ Refuse
        \/ shape = "poke" /\ Only("ok")
        \/ shape = "music" /\ Room(1) /\ TakenOnly(m, TRUE)
        \/ /\ shape = "plain"
           /\ \/ Refuse
              \/ (u \in friends \/ ~temporary) /\ Room(1) /\ TakenAndRecorded(m, <<>>, TRUE)
              \/ /\ u \notin friends /\ temporary /\ ~barred /\ Room(1)
                 /\ TakenOnly(t, FALSE)

CQSendPrivateMessage(u, g, elems, lost) ==
    Refuse \/ SendPrivateMessage(u, g, Shape(elems, lost))

\* CQSendMessage: the kind of message decides, else the user, else the group.
CQSendMessage(type, u, g, elems, lost) ==
    CASE type = "group" -> g # NoGroup /\ CQSendGroupMessage(g, elems, lost)
      [] type = "private" \/ u # NoGroup -> u # NoGroup /\ CQSendPrivateMessage(u, g, elems, lost)
      [] g # NoGroup -> CQSendGroupMessage(g, elems, lost)
      [] OTHER -> Refuse

\* A node of a forward message: the id of a stored group message, own content,
\* or one that is skipped.  What is forwarded is what the ids found.
ForwardNodes(nodes) == {n \in nodes : n = <<"content">> \/ FoundGroup(n) # {}}

CQSendGroupForwardMessage(g, nodes) ==
    \/ Refuse
    \/ /\ ForwardNodes(nodes) # {} /\ Room(1)
       /\ TakenAndRecorded(NextMessage("group", g, Self, log), <<>>, FALSE)

----------------------------------------------------------------------------
(* What a stored message is used for. *)

Marked(mark, m) ==
    /\ marks' = marks \cup {<<mark, m>>}
    /\ Reply("ok", NoId, {})
    /\ UNCHANGED <<log, inGroup, client, db, inbox, told>>

\* A slip of it: whose private message it is is not looked at.
CQDeleteMessageOfAnyone(id) == Refuse \/ \E m \in Found(id) : Marked("gone", m)
CQDeleteMessage(id) ==
    \/ Refuse
    \/ \E m \in Found(id) : (m.type = "group" \/ m.from = Self) /\ Marked("gone", m)

CQMarkMessageAsRead(id) ==
    \/ Found(id) = {} /\ Refuse
    \/ Found(id) # {} /\ Only("ok")

CQSetEssenceMessage(id) ==
    \/ Refuse
    \/ \E m \in FoundGroup(id) : Marked("essence", m)

CQDeleteEssenceMessage(id) ==
    \/ Refuse
    \/ \E m \in FoundGroup(id) :
         /\ marks' = marks \ {<<"essence", m>>}
         /\ Reply("ok", NoId, {})
         /\ UNCHANGED <<log, inGroup, client, db, inbox, told>>

\* CQGetMessage answers with the message the id stands for.
CQGetMessage(id) ==
    \/ Found(id) = {} /\ Refuse
    \/ Found(id) # {} /\ Only("ok")

\* formatGroupMessage looks the sender up and refreshes the list once; without
\* the sender there is no message to post.
Formatted(m, list) == m.from \in list \cup {Self}
Refreshed(m, now) ==
    IF Formatted(m, members[m.chat]) THEN now = members[m.chat]
    ELSE now \in {members[m.chat], inGroup[m.chat]}

\* CQGetGroupMessageHistory: the messages are recorded again and formatted; the
\* id is written into the formatted message even when there is no such message,
\* which stops the call.  One message is asked for.
CQGetGroupMessageHistory(g, m) ==
    \/ Refuse
    \/ /\ g \in joined /\ m \in ToSet(log) /\ m.type = "group" /\ m.chat = g
       /\ <<"gone", m>> \notin marks
       /\ \E n \in 0..Len(order), now \in SUBSET Users :
            /\ Refreshed(m, now)
            /\ store' = Inserted(m, n)
            /\ members' = [members EXCEPT ![g] = now]
            /\ told' = IF Formatted(m, now) THEN told \cup Handed(m, n) ELSE told
            /\ Reply(IF Formatted(m, now) THEN "ok" ELSE "panic", NoId, {})
       /\ UNCHANGED <<server, joined, friends, session, order, inbox>>

----------------------------------------------------------------------------
(* Quick operations: calls whose results nobody looks at. *)

\* CQHandleQuickOperation on the event of a message.
CQHandleQuickOperation(m, does) ==
    /\ todo = <<>> /\ m.from # Self /\ m \notin ToSet(inbox)
    /\ todo' = (IF "reply" \in does THEN <<[call |-> "reply", on |-> m]>> ELSE <<>>)
               \o (IF "delete" \in does /\ m.type = "group"
                   THEN <<[call |-> "delete", on |-> m]>> ELSE <<>>)
    /\ todo' # <<>>
    /\ UNCHANGED <<server, client, db, inbox, told, answer>>

QuickStep ==
    /\ todo # <<>>
    /\ todo' = Tail(todo)
    /\ LET m == Head(todo).on IN
       CASE Head(todo).call = "delete" -> CQDeleteMessage(GlobalID(m))
         [] m.type = "group" -> CQSendGroupMessage(m.chat, <<"text">>, {})
         [] OTHER -> CQSendPrivateMessage(m.from, NoGroup, <<"text">>, {})

----------------------------------------------------------------------------
(* Events. *)

\* External: somebody writes to a group, to the bot, or from a group to the bot.
Written(type, chat, u) ==
    /\ Room(1)
    /\ CASE type = "group" -> chat \in joined /\ u \in inGroup[chat]
         [] type = "private" -> chat = u /\ u \in friends
         [] OTHER -> chat = u /\ u \notin friends /\ \E g \in joined : u \in inGroup[g]
    /\ log' = Append(log, NextMessage(type, chat, u, log))
    /\ inbox' = Append(inbox, NextMessage(type, chat, u, log))
    /\ UNCHANGED <<marks, inGroup, client, db, todo, told, answer>>

\* groupMessageEvent: a file is posted and not recorded; a message is recorded
\* and posted if its sender can be found.
groupMessageEvent ==
    /\ inbox # <<>> /\ Head(inbox).type = "group"
    /\ LET m == Head(inbox) IN
       \/ UNCHANGED <<store, members, told>> \* a file
       \/ \E n \in 0..Len(order), now \in SUBSET Users :
            /\ Refreshed(m, now)
            /\ store' = Inserted(m, n)
            /\ members' = [members EXCEPT ![m.chat] = now]
            /\ told' = IF Formatted(m, now) THEN told \cup Handed(m, n) ELSE told
    /\ inbox' = Tail(inbox)
    /\ UNCHANGED <<server, joined, friends, session, order, todo, answer>>

privateMessageEvent ==
    /\ inbox # <<>> /\ Head(inbox).type = "private"
    /\ \E n \in 0..Len(order) :
         /\ store' = Inserted(Head(inbox), n)
         /\ told' = told \cup Handed(Head(inbox), n)
    /\ inbox' = Tail(inbox)
    /\ UNCHANGED <<server, client, order, todo, answer>>

\* tempMessageEvent keeps the session; the id posted is the bare number.
tempMessageEvent ==
    /\ inbox # <<>> /\ Head(inbox).type = "temp"
    /\ \E g \in Groups : Head(inbox).from \in inGroup[g]
                         /\ session' = [session EXCEPT ![Head(inbox).from] = g]
    /\ inbox' = Tail(inbox)
    /\ UNCHANGED <<server, members, joined, friends, db, todo, told, answer>>

\* friendAddedEvent drops the session with the new friend.
friendAddedEvent(u) ==
    /\ u \notin friends
    /\ friends' = friends \cup {u}
    /\ session' = [session EXCEPT ![u] = NoGroup]
    /\ UNCHANGED <<server, members, joined, db, inbox, todo, told, answer>>

\* External: a member leaves; the client may hear of it later or never.
Leaves(u, g) ==
    /\ u \in inGroup[g]
    /\ inGroup' = [inGroup EXCEPT ![g] = @ \ {u}]
    /\ members' \in {members, [members EXCEPT ![g] = @ \ {u}]}
    /\ UNCHANGED <<log, marks, joined, friends, session, db, inbox, todo, told, answer>>

\* Stop and start: the back ends come in any order, lists are read anew.
Restart ==
    /\ order' \in SetToSeqs(Backends)
    /\ members' = inGroup
    /\ session' = [u \in Users |-> NoGroup]
    /\ inbox' = <<>> /\ todo' = <<>>
    /\ Reply("ok", NoId, {})
    /\ UNCHANGED <<server, joined, friends, store, told>>

----------------------------------------------------------------------------

Init ==
    /\ log = <<>> /\ marks = {} /\ inbox = <<>> /\ todo = <<>> /\ told = {}
    /\ inGroup = [g \in Groups |-> Users] /\ members = inGroup
    /\ joined \in {Groups, {}} /\ friends = {}
    /\ session = [u \in Users |-> NoGroup]
    /\ store = [b \in Backends |-> {}]
    /\ order \in SetToSeqs(Backends)
    /\ answer = [kind |-> "ok", id |-> NoId, sent |-> {}]

Ids == {t[1] : t \in told} \cup {<<Self, 1>>}
Drafts == {[elems |-> <<"text">>, lost |-> {}], [elems |-> <<"media">>, lost |-> {1}],
           [elems |-> <<"text", "poke">>, lost |-> {}], [elems |-> <<"music">>, lost |-> {}]}

\* A call of a user of the bot, by one of its servers.
Call ==
    /\ UNCHANGED todo
    /\ \/ \E g \in Groups \cup {NoGroup}, u \in Users \cup {NoGroup}, d \in Drafts :
            CQSendMessage(IF u = NoGroup /\ g # NoGroup THEN "group" ELSE "", u, g, d.elems, d.lost)
       \/ \E g \in Groups, node \in {<<"content">>, <<"bad">>} \cup Ids : CQSendGroupForwardMessage(g, {node})
       \/ \E id \in Ids : \/ CQDeleteMessage(id) \/ CQMarkMessageAsRead(id) \/ CQGetMessage(id)
                          \/ CQSetEssenceMessage(id) \/ CQDeleteEssenceMessage(id)
       \/ \E g \in Groups, m \in ToSet(log) : CQGetGroupMessageHistory(g, m)

Event == \/ groupMessageEvent \/ privateMessageEvent \/ tempMessageEvent
         \/ \E u \in Users : friendAddedEvent(u) \/ \E g \in Groups : Leaves(u, g)
         \/ \E type \in {"group", "private", "temp"}, c \in Groups \cup Users, u \in Users : Written(type, c, u)

Next == \/ Call \/ Event \/ QuickStep \/ Restart
        \/ \E m \in ToSet(log), does \in {{"delete"}, {"reply", "delete"}} : CQHandleQuickOperation(m, does)

Spec == Init /\ [][Next]_vars

----------------------------------------------------------------------------

(* An id that an answer or an event has handed out names its message for    *)
(* ever: whichever back end is read, after any restart, finds that message  *)
(* and no other under it.  The -1 that events, histories and answers to     *)
(* send_group_forward_msg hand out when a back end refused the message      *)
(* never finds another one.                                                 *)
IdsStayGood ==
    \A t \in told : order # <<>> =>
        Found(t[1]) = IF t[1] = NoId THEN {} ELSE {t[2]}

(* What the answer just given says of a message that was sent: an id stands *)
(* for the message, or for the first part of a long one, and every back end *)
(* has it.  A failure, a -1 or the 0 of a music share in a private chat     *)
(* means that nothing the server took can be found in all back ends.        *)
AnswersAreTrue ==
    /\ answer.id # NoId =>
          /\ answer.kind = "ok"
          /\ \E m \in answer.sent :
               /\ answer.id = GlobalID(m)
               /\ \A b \in Backends : m \in store[b]
               /\ \A part \in answer.sent : m.no <= part.no
    /\ answer.id = NoId /\ Backends # {} =>
          \A m \in answer.sent : \E b \in Backends : m \notin store[b]

(* Nothing but the bot's own messages is recalled from a private chat, and  *)
(* a quick operation recalls no other message than that of its event.       *)
RecallsAreMeant ==
    [][\A m \in ToSet(log) : <<"gone", m>> \in marks' \ marks =>
         /\ m.type = "group" \/ m.from = Self
         /\ todo' # todo => m = Head(todo).on]_vars

=============================================================================
