--------------------------- MODULE MessagesProofs ---------------------------
(* Proofs about the messages of the bot: ids stay good, a failed answer      *)
(* leaves no full record, and only what is meant is recalled, for any        *)
(* groups, users and back ends.  The argument: the server numbers the        *)
(* messages of a series upwards, so that no two messages it took share a     *)
(* global ID; what any back end, inbox or quick operation holds is a message *)
(* the server took; so an id finds its message or nothing, and an insertion  *)
(* replaces nothing but itself.                                              *)
EXTENDS Messages, FiniteSetTheorems, TLAPS

Codes == Groups \cup Users \cup {Self}
FromOthers == {m \in Message : m.from # Self}
GoodOrNot == (Codes \X Nat) \cup {NoId}
Outcomes == {"ok", "failed", "panic"}
\* Answers that are not about a message.
Bare == [kind : Outcomes, id : {NoId}, sent : {{}}]
Pending == [call : {"reply", "delete"}, on : FromOthers]

TypeOK ==
    /\ log \in Seq(Message) /\ Len(log) <= MaxMessages
    /\ marks \subseteq {"gone", "essence"} \X Message
    /\ inGroup \in [Groups -> SUBSET Users] /\ members \in [Groups -> SUBSET Users]
    /\ joined \subseteq Groups /\ friends \subseteq Users
    /\ session \in [Users -> Groups \cup {NoGroup}]
    /\ inbox \in Seq(FromOthers)
    /\ store \in [Backends -> SUBSET Message]
    /\ order \in SetToSeqs(Backends)
    /\ todo \in Seq(Pending)
    /\ told \subseteq GoodOrNot \X Message
    /\ answer \in [kind : Outcomes, id : GoodOrNot, sent : SUBSET Message]

\* The messages of the series of m among the first n of s.
Earlier(s, n, m) == {j \in 1..n : SameSeries(s[j], m.type, m.chat, m.from)}

\* The number of a message is its place in its series.
Numbered(s) == \A i \in 1..Len(s) : s[i].no = 1 + Cardinality(Earlier(s, i - 1, s[i]))

\* No two messages of the set share an id.
OneEach(ms) == \A m1, m2 \in ms : GlobalID(m1) = GlobalID(m2) => m1 = m2

Taken == ToSet(log)

\* Whatever is held anywhere is a message the server took.
AllTaken ==
    /\ \A b \in Backends : store[b] \subseteq Taken
    /\ ToSet(inbox) \subseteq Taken
    /\ \A i \in 1..Len(todo) : todo[i].on \in Taken

\* An id that is handed out is none, or that of its message, which every back
\* end has.
HandedOut ==
    \A t \in told : t[1] # NoId =>
        /\ t[1] = GlobalID(t[2]) /\ t[2] \in Taken
        /\ \A b \in Backends : t[2] \in store[b]

\* An answer is about messages of the bot; no event is.
OwnSent == \A m \in answer.sent : m.from = Self

Inv ==
    /\ TypeOK
    /\ Numbered(log)
    /\ AllTaken
    /\ HandedOut
    /\ OwnSent
    /\ AnswersAreTrue

----------------------------------------------------------------------------
(* Numbers and ids. *)

\* What came earlier in a series can be counted.
LEMMA EarlierFinite ==
    ASSUME NEW s, NEW n \in Nat, NEW m
    PROVE  /\ IsFiniteSet(Earlier(s, n, m))
           /\ Cardinality(Earlier(s, n, m)) \in 0..n
<1>1. IsFiniteSet(1..n) /\ Cardinality(1..n) = n
  BY FS_Interval
<1>2. Earlier(s, n, m) \in SUBSET (1..n)
  BY DEF Earlier
<1>3. QED
  BY <1>1, <1>2, FS_Subset, FS_CardinalityType

\* Messages of one code are of one series.
LEMMA CodeIsSeries ==
    ASSUME NEW m1 \in Message, NEW m2 \in Message, Code(m1) = Code(m2)
    PROVE  /\ SameSeries(m1, m2.type, m2.chat, m2.from)
           /\ \A s, n : Earlier(s, n, m1) = Earlier(s, n, m2)
<1>1. CASE m1.type = "group"
  <2>1. m2.type = "group"
    BY <1>1, CodesApart DEF Message, Code
  <2>2. m1.chat = m2.chat
    BY <1>1, <2>1 DEF Code
  <2>3. QED
    BY <1>1, <2>1, <2>2 DEF SameSeries, Earlier
<1>2. CASE m1.type # "group"
  <2>1. m2.type # "group"
    BY <1>2, CodesApart DEF Message, Code
  <2>2. m1.from = m2.from
    BY <1>2, <2>1 DEF Code
  <2>3. QED
    BY <1>2, <2>1, <2>2 DEF SameSeries, Earlier
<1>3. QED
  BY <1>1, <1>2

\* Numbers that count up keep the ids of a log apart.
LEMMA IdsApart ==
    ASSUME NEW s \in Seq(Message), Numbered(s)
    PROVE  /\ \A i, j \in 1..Len(s) : GlobalID(s[i]) = GlobalID(s[j]) => i = j
           /\ OneEach(ToSet(s))
<1>1. ASSUME NEW i \in 1..Len(s), NEW j \in 1..Len(s), i < j, GlobalID(s[i]) = GlobalID(s[j])
      PROVE  FALSE
  <2>1. s[i] \in Message /\ s[j] \in Message
    OBVIOUS
  <2>2. Code(s[i]) = Code(s[j]) /\ s[i].no = s[j].no
    BY <1>1 DEF GlobalID
  <2>3. SameSeries(s[i], s[j].type, s[j].chat, s[j].from)
        /\ Earlier(s, i - 1, s[i]) = Earlier(s, i - 1, s[j])
    BY <2>1, <2>2, CodeIsSeries
  <2>4. Earlier(s, i - 1, s[j]) \cup {i} \in SUBSET Earlier(s, j - 1, s[j])
    BY <1>1, <2>3 DEF Earlier
  <2>5. i \notin Earlier(s, i - 1, s[j])
    BY DEF Earlier
  <2>6. /\ IsFiniteSet(Earlier(s, i - 1, s[j])) /\ Cardinality(Earlier(s, i - 1, s[j])) \in Nat
        /\ IsFiniteSet(Earlier(s, j - 1, s[j])) /\ Cardinality(Earlier(s, j - 1, s[j])) \in Nat
    BY EarlierFinite
  <2>7. Cardinality(Earlier(s, i - 1, s[j]) \cup {i}) = Cardinality(Earlier(s, i - 1, s[j])) + 1
    BY <2>5, <2>6, FS_AddElement
  <2>8. Cardinality(Earlier(s, i - 1, s[j])) + 1 <= Cardinality(Earlier(s, j - 1, s[j]))
    BY <2>4, <2>6, <2>7, FS_Subset
  <2>9. /\ s[i].no = 1 + Cardinality(Earlier(s, i - 1, s[i]))
        /\ s[j].no = 1 + Cardinality(Earlier(s, j - 1, s[j]))
    BY DEF Numbered
  <2>10. s[i].no = 1 + Cardinality(Earlier(s, i - 1, s[j]))
    BY <2>3, <2>9
  <2>11. s[j].no # s[i].no
    <3> HIDE DEF Earlier
    <3>1. QED
      BY <2>6, <2>8, <2>9, <2>10
  <2>12. QED
    BY <2>2, <2>11
<1>2. \A i, j \in 1..Len(s) : GlobalID(s[i]) = GlobalID(s[j]) => i = j
  BY <1>1
<1>3. OneEach(ToSet(s))
  BY <1>2 DEF OneEach, ToSet
<1>4. QED
  BY <1>2, <1>3

Proper(type, chat, from) ==
    /\ type \in {"group", "private", "temp"} /\ chat \in Groups \cup Users
    /\ from \in Users \cup {Self} /\ (type = "group" <=> chat \in Groups)

\* The next message is a new one, and is numbered as it should be.
LEMMA NextIsNumbered ==
    ASSUME NEW s \in Seq(Message), Numbered(s), Len(s) < MaxMessages,
           NEW type, NEW chat, NEW from, Proper(type, chat, from),
           NEW m, m = NextMessage(type, chat, from, s)
    PROVE  /\ m \in Message /\ m.from = from /\ m.type = type /\ m.chat = chat
           /\ Append(s, m) \in Seq(Message) /\ Len(Append(s, m)) = Len(s) + 1
           /\ Numbered(Append(s, m))
           /\ ToSet(Append(s, m)) = ToSet(s) \cup {m}
           /\ m \notin ToSet(s)
<1>0. /\ m.type = type /\ m.chat = chat /\ m.from = from
      /\ m = [type |-> type, chat |-> chat, from |-> from,
              no |-> 1 + Cardinality({i \in DOMAIN s : SameSeries(s[i], type, chat, from)})]
  BY DEF NextMessage
<1>1. m = [type |-> type, chat |-> chat, from |-> from,
           no |-> 1 + Cardinality(Earlier(s, Len(s), m))]
  <2>1. DOMAIN s = 1..Len(s)
    OBVIOUS
  <2>2. Earlier(s, Len(s), m) = {i \in DOMAIN s : SameSeries(s[i], type, chat, from)}
    BY <1>0, <2>1 DEF Earlier
  <2>3. QED
    BY <1>0, <2>2
<1>2. Cardinality(Earlier(s, Len(s), m)) \in 0..Len(s)
  BY EarlierFinite
<1>3. m \in Message
  BY <1>1, <1>2, MessagesCounted DEF Message, Proper
<1> DEFINE t == Append(s, m)
<1>4. /\ t \in Seq(Message) /\ Len(t) = Len(s) + 1
      /\ \A i \in 1..Len(s) : t[i] = s[i]
      /\ t[Len(s) + 1] = m
  BY <1>3
<1>5. \A x : \A n \in 0..Len(s) : Earlier(t, n, x) = Earlier(s, n, x)
  BY <1>4 DEF Earlier
<1>6. Numbered(t)
  <2>1. ASSUME NEW i \in 1..Len(t) PROVE t[i].no = 1 + Cardinality(Earlier(t, i - 1, t[i]))
    <3>1. CASE i \in 1..Len(s)
      BY <3>1, <1>4, <1>5 DEF Numbered
    <3>2. CASE i = Len(s) + 1
      BY <3>2, <1>1, <1>4, <1>5
    <3>3. QED
      BY <3>1, <3>2, <1>4
  <2>2. QED
    BY <2>1 DEF Numbered
<1>7. ToSet(t) = ToSet(s) \cup {m}
  BY <1>4 DEF ToSet
<1>8. m \notin ToSet(s)
  <2>1. SUFFICES ASSUME NEW i \in 1..Len(s), s[i] = m PROVE FALSE
    BY DEF ToSet
  <2>2. GlobalID(t[i]) = GlobalID(t[Len(s) + 1])
    BY <2>1, <1>4
  <2>3. i \in 1..Len(t) /\ Len(s) + 1 \in 1..Len(t)
    BY <1>4
  <2>4. \A k, l \in 1..Len(t) : GlobalID(t[k]) = GlobalID(t[l]) => k = l
    BY <1>4, <1>6, IdsApart
  <2>5. i = Len(s) + 1
    BY <2>2, <2>3, <2>4
  <2>6. QED
    BY <2>5
<1>9. QED
  BY <1>1, <1>3, <1>4, <1>6, <1>7, <1>8

\* The message after the next one of a series has a number no lower.
LEMMA NextIsLater ==
    ASSUME NEW s \in Seq(Message), NEW type, NEW chat, NEW from,
           NEW m, m = NextMessage(type, chat, from, s), Append(s, m) \in Seq(Message)
    PROVE  m.no <= NextMessage(type, chat, from, Append(s, m)).no
<1> DEFINE Of(t) == {i \in DOMAIN t : SameSeries(t[i], type, chat, from)}
           t == Append(s, m)
<1>1. /\ DOMAIN s = 1..Len(s) /\ DOMAIN t = 1..(Len(s) + 1)
      /\ \A i \in 1..Len(s) : t[i] = s[i]
  OBVIOUS
<1>2. Of(s) \in SUBSET Of(t) /\ Of(t) \in SUBSET (1..(Len(s) + 1))
  BY <1>1
<1>3. IsFiniteSet(1..(Len(s) + 1))
  BY FS_Interval
<1> HIDE DEF t
<1>4. m.no = 1 + Cardinality(Of(s)) /\ NextMessage(type, chat, from, t).no = 1 + Cardinality(Of(t))
  BY DEF NextMessage
<1> HIDE DEF Of
<1>5. /\ Cardinality(Of(s)) \in Nat /\ Cardinality(Of(t)) \in Nat
      /\ Cardinality(Of(s)) <= Cardinality(Of(t))
  BY <1>2, <1>3, FS_Subset, FS_CardinalityType
<1>6. QED
  BY <1>4, <1>5 DEF t

----------------------------------------------------------------------------
(* The message database. *)

\* Every back end has one place in the order, and one only.
LEMMA OrderIsOnto ==
    ASSUME NEW s \in SetToSeqs(Backends)
    PROVE  /\ s \in Seq(Backends)
           /\ \A i, j \in 1..Len(s) : s[i] = s[j] => i = j
           /\ \A b \in Backends : \E i \in 1..Len(s) : s[i] = b
           /\ s = <<>> <=> Backends = {}
<1> DEFINE n == Cardinality(Backends)
<1>1. IsFiniteSet(Backends) /\ n \in Nat
  <2>1. IsFiniteSet({"leveldb"} \cup {"mongodb"})
    BY FS_Singleton, FS_AddElement
  <2>2. Backends \in SUBSET ({"leveldb"} \cup {"mongodb"})
    BY KnownBackends
  <2>3. QED
    BY <2>1, <2>2, FS_Subset, FS_CardinalityType
<1>2. /\ s \in [1..n -> Backends]
      /\ \A i, j \in 1..n : i # j => s[i] # s[j]
  BY DEF SetToSeqs
<1>3. s \in Injection(1..n, Backends)
  BY <1>2 DEF Injection, IsInjective
<1>4. Cardinality(1..n) = n
  BY <1>1, FS_Interval
<1>5. s \in Surjection(1..n, Backends)
  BY <1>1, <1>3, <1>4, FS_Injection
<1>6. \A b \in Backends : \E i \in 1..n : s[i] = b
  BY <1>5 DEF Surjection
<1>7. s \in Seq(Backends) /\ Len(s) = n
  BY <1>1, <1>2
<1>8. s = <<>> <=> n = 0
  BY <1>1, <1>2, <1>7
<1>9. n = 0 <=> Backends = {}
  BY <1>1, FS_EmptySet
<1>10. QED
  BY <1>2, <1>6, <1>7, <1>8, <1>9

\* What an insertion replaces, where messages have ids of their own, is the
\* message itself; and one that stops early leaves a back end alone.
LEMMA InsertedAdds ==
    ASSUME TypeOK, NEW ms, OneEach(ms), \A b \in Backends : store[b] \subseteq ms,
           NEW m \in Message, m \in ms, NEW n \in 0..Len(order)
    PROVE  /\ Inserted(m, n) \in [Backends -> SUBSET Message]
           /\ \A b \in Backends : /\ store[b] \subseteq Inserted(m, n)[b]
                                  /\ Inserted(m, n)[b] \subseteq store[b] \cup {m}
           /\ n = Len(order) => \A b \in Backends : m \in Inserted(m, n)[b]
           /\ n # Len(order) => \E b \in Backends : Inserted(m, n)[b] = store[b]
<1>1. store \in [Backends -> SUBSET Message] /\ order \in SetToSeqs(Backends)
  BY DEF TypeOK
<1>2. /\ order \in Seq(Backends)
      /\ \A i, j \in 1..Len(order) : order[i] = order[j] => i = j
      /\ \A b \in Backends : \E i \in 1..Len(order) : order[i] = b
  BY <1>1, OrderIsOnto
<1>3. ASSUME NEW b \in Backends
      PROVE  InsertInto(b, m) = store[b] \cup {m}
  BY <1>1 DEF InsertInto, OneEach
<1>4. ASSUME NEW b \in Backends
      PROVE  Inserted(m, n)[b] = IF \E i \in 1..n : order[i] = b THEN store[b] \cup {m}
                                 ELSE store[b]
  BY <1>3 DEF Inserted
<1>5. Inserted(m, n) = [b \in Backends |-> Inserted(m, n)[b]]
  BY DEF Inserted
<1>6. ASSUME NEW b \in Backends
      PROVE  Inserted(m, n)[b] \in SUBSET Message
  <2>1. store[b] \cup {m} \in SUBSET Message /\ store[b] \in SUBSET Message
    BY <1>1
  <2>2. Inserted(m, n)[b] = store[b] \cup {m} \/ Inserted(m, n)[b] = store[b]
    BY <1>4
  <2>3. QED
    BY <2>1, <2>2
<1>7. Inserted(m, n) \in [Backends -> SUBSET Message]
  BY <1>5, <1>6
<1>8. ASSUME n # Len(order) PROVE \E b \in Backends : Inserted(m, n)[b] = store[b]
  <2>1. n + 1 \in 1..Len(order) /\ order[n + 1] \in Backends
    BY <1>2, <1>8
  <2>2. ~ \E i \in 1..n : order[i] = order[n + 1]
    BY <1>2, <2>1
  <2>3. QED
    BY <1>4, <2>1, <2>2
<1>9. ASSUME n = Len(order), NEW b \in Backends PROVE m \in Inserted(m, n)[b]
  <2>1. \E i \in 1..n : order[i] = b
    BY <1>2, <1>9
  <2>2. QED
    BY <1>4, <2>1
<1>10. ASSUME NEW b \in Backends
       PROVE  /\ store[b] \subseteq Inserted(m, n)[b]
              /\ Inserted(m, n)[b] \subseteq store[b] \cup {m}
  BY <1>4
<1>11. QED
  BY <1>7, <1>8, <1>9, <1>10

\* An id that is made is never NoId.
LEMMA IdIsGood ==
    ASSUME NEW m \in Message
    PROVE  GlobalID(m) # NoId /\ GlobalID(m) \in Codes \X Nat
BY IdsAreGood DEF GlobalID, Code, Codes, Message

\* A good id is handed out when all back ends have the message.
LEMMA HandedIsRecorded ==
    ASSUME TypeOK, NEW m \in Message, NEW n \in 0..Len(order)
    PROVE  /\ InsertedID(m, n) = NoId <=> n # Len(order)
           /\ InsertedID(m, n) # NoId => InsertedID(m, n) = GlobalID(m)
           /\ InsertedID(m, n) \in GoodOrNot
           /\ \A t \in Handed(m, n) :
                t = <<NoId, m>> \/ (n = Len(order) /\ t = <<GlobalID(m), m>>)
<1>1. InsertedID(m, n) = IF n = Len(order) THEN GlobalID(m) ELSE NoId
  BY DEF InsertedID
<1>2. Handed(m, n) = {<<InsertedID(m, n), m>>}
  BY DEF Handed
<1>3. GlobalID(m) # NoId /\ GlobalID(m) \in GoodOrNot /\ NoId \in GoodOrNot
  BY IdIsGood DEF GoodOrNot
<1>4. CASE n = Len(order)
  BY <1>1, <1>2, <1>3, <1>4
<1>5. CASE n # Len(order)
  BY <1>1, <1>2, <1>3, <1>5
<1>6. QED
  BY <1>4, <1>5

\* What a look-up finds has the id, and is a message the server took.
LEMMA FoundIsTaken ==
    ASSUME TypeOK, AllTaken, NEW id, NEW m \in Found(id)
    PROVE  m \in Taken /\ m \in Message /\ GlobalID(m) = id
<1>1. order # <<>> /\ m \in Candidates(id)
  BY DEF Found, MongoFirst
<1>2. order[1] \in Backends
  BY <1>1, OrderIsOnto DEF TypeOK
<1>3. QED
  BY <1>1, <1>2 DEF Candidates, AllTaken, TypeOK

\* An id that was handed out finds its message.
LEMMA GoodIds ==
    ASSUME TypeOK, Numbered(log), AllTaken, HandedOut
    PROVE  IdsStayGood
<1>1. OneEach(Taken)
  BY IdsApart DEF TypeOK, Taken
<1>2. ASSUME NEW t \in told, order # <<>>, t[1] # NoId PROVE Found(t[1]) = {t[2]}
  <2>1. order[1] \in Backends
    BY <1>2, OrderIsOnto DEF TypeOK
  <2>2. t[2] \in Candidates(t[1])
    BY <2>1, <1>2 DEF HandedOut, Candidates
  <2>3. \A r \in Candidates(t[1]) : r = t[2]
    BY <1>1, <1>2, <2>1 DEF OneEach, HandedOut, Candidates, AllTaken
  <2>4. Candidates(t[1]) = {t[2]}
    BY <2>2, <2>3
  <2>5. MongoFirst({t[2]}) = {t[2]}
    BY DEF MongoFirst
  <2>6. QED
    BY <1>2, <2>4, <2>5 DEF Found
<1>3. \A m \in Found(NoId) : FALSE
  BY FoundIsTaken, IdIsGood
<1>4. QED
  BY <1>2, <1>3 DEF IdsStayGood

----------------------------------------------------------------------------
(* What the steps do to what is sent, recorded and pending. *)

\* A step of a call leaves what is pending alone, or takes its head.
Pends == todo' = todo \/ (todo # <<>> /\ todo' = Tail(todo))

\* What is still to be done remains about messages the server took.
LEMMA PendsTypes ==
    ASSUME TypeOK, Pends
    PROVE  /\ todo' \in Seq(Pending)
           /\ AllTaken => \A i \in 1..Len(todo') : todo'[i].on \in Taken
<1>1. todo \in Seq(Pending)
  BY DEF TypeOK
<1>2. CASE todo' = todo
  BY <1>1, <1>2 DEF AllTaken
<1>3. CASE todo # <<>> /\ todo' = Tail(todo)
  <2>1. /\ todo' \in Seq(Pending)
        /\ \A i \in 1..Len(todo') : i + 1 \in 1..Len(todo) /\ todo'[i] = todo[i + 1]
    BY <1>1, <1>3
  <2>2. QED
    BY <2>1 DEF AllTaken
<1>4. QED
  BY <1>2, <1>3 DEF Pends

\* Nothing is sent, recorded or handed out, and no answer is about a message.
Quiet ==
    /\ UNCHANGED <<log, inGroup, client, db, inbox, told>>
    /\ marks' \subseteq {"gone", "essence"} \X Message
    /\ answer' \in Bare

\* A call that neither sends nor records keeps the invariant.
LEMMA QuietKeeps ==
    ASSUME Inv, Pends, Quiet
    PROVE  Inv'
<1>1. TypeOK'
  BY PendsTypes DEF Inv, TypeOK, Quiet, Bare, GoodOrNot, client, db
<1>2. Numbered(log)'
  BY DEF Inv, Quiet, Numbered, Earlier, SameSeries
<1>3. AllTaken'
  BY PendsTypes DEF Inv, Quiet, AllTaken, Taken, db
<1>4. HandedOut'
  BY DEF Inv, Quiet, HandedOut, GlobalID, Code, Taken, db
<1>5. answer'.sent = {} /\ answer'.id = NoId
  BY DEF Quiet, Bare
<1>6. QED
  BY <1>1, <1>2, <1>3, <1>4, <1>5 DEF Inv, OwnSent, AnswersAreTrue

\* A message the server took before is recorded.
RecordedOnce ==
    \E m \in Taken, n \in 0..Len(order) :
      /\ store' = Inserted(m, n)
      /\ told' \in {told, told \cup Handed(m, n)}
      /\ UNCHANGED <<server, joined, friends, session, order>>
      /\ members' \in [Groups -> SUBSET Users]
      /\ inbox' = inbox \/ (inbox # <<>> /\ inbox' = Tail(inbox))
      /\ \/ answer' \in Bare
         \/ answer' = answer /\ m.from # Self

\* What the bot has still to be told of.
LEMMA InboxTypes ==
    ASSUME TypeOK, inbox # <<>>
    PROVE  /\ Head(inbox) \in FromOthers /\ Head(inbox) \in ToSet(inbox)
           /\ Tail(inbox) \in Seq(FromOthers)
           /\ ToSet(Tail(inbox)) \subseteq ToSet(inbox)
<1>1. inbox \in Seq(FromOthers)
  BY DEF TypeOK
<1>2. /\ Head(inbox) = inbox[1] /\ 1 \in 1..Len(inbox)
      /\ Tail(inbox) \in Seq(FromOthers)
      /\ \A i \in 1..Len(Tail(inbox)) : i + 1 \in 1..Len(inbox) /\ Tail(inbox)[i] = inbox[i + 1]
  BY <1>1
<1>3. QED
  BY <1>1, <1>2 DEF ToSet

\* Recording a message the server took keeps the invariant.
LEMMA RecordedKeeps ==
    ASSUME Inv, Pends, RecordedOnce
    PROVE  Inv'
<1>1. PICK m \in Taken, n \in 0..Len(order) :
        /\ store' = Inserted(m, n)
        /\ told' \in {told, told \cup Handed(m, n)}
        /\ UNCHANGED <<server, joined, friends, session, order>>
        /\ members' \in [Groups -> SUBSET Users]
        /\ inbox' = inbox \/ (inbox # <<>> /\ inbox' = Tail(inbox))
        /\ \/ answer' \in Bare
           \/ answer' = answer /\ m.from # Self
  BY DEF RecordedOnce
<1>2. TypeOK /\ Numbered(log) /\ AllTaken /\ HandedOut
  BY DEF Inv
<1>3. m \in Message /\ log \in Seq(Message) /\ OneEach(Taken)
  BY <1>2, IdsApart DEF TypeOK, Taken, ToSet
<1>4. /\ store' \in [Backends -> SUBSET Message]
      /\ \A b \in Backends : store[b] \subseteq store'[b] /\ store'[b] \subseteq store[b] \cup {m}
      /\ n = Len(order) => \A b \in Backends : m \in store'[b]
  BY <1>1, <1>2, <1>3, InsertedAdds DEF AllTaken
<1>5. \A t \in told' : t \in told \/ t = <<NoId, m>>
                      \/ (n = Len(order) /\ t = <<GlobalID(m), m>>)
  <2>1. told' \subseteq told \cup Handed(m, n)
    BY <1>1
  <2>2. QED
    BY <1>2, <1>3, <2>1, HandedIsRecorded
<1>6. log' = log /\ order' = order
  BY <1>1 DEF server
<1>7. inbox' \in Seq(FromOthers) /\ ToSet(inbox') \subseteq ToSet(inbox)
  BY <1>1, <1>2, InboxTypes DEF TypeOK
<1>8. told' \subseteq GoodOrNot \X Message
  BY <1>2, <1>3, <1>5, IdIsGood DEF TypeOK, GoodOrNot
<1>9. answer' \in [kind : Outcomes, id : GoodOrNot, sent : SUBSET Message]
  BY <1>1, <1>2 DEF TypeOK, Bare, GoodOrNot
<1>10. TypeOK'
  BY <1>1, <1>2, <1>4, <1>6, <1>7, <1>8, <1>9, PendsTypes DEF TypeOK, server
<1>11. Numbered(log)'
  BY <1>2, <1>6 DEF Numbered, Earlier, SameSeries
<1>12. AllTaken'
  BY <1>2, <1>4, <1>6, <1>7, PendsTypes DEF AllTaken, Taken
<1>13. HandedOut'
  <2>1. SUFFICES ASSUME NEW t \in told', t[1] # NoId
                 PROVE  /\ t[1] = GlobalID(t[2]) /\ t[2] \in Taken
                        /\ \A b \in Backends : t[2] \in store'[b]
    BY <1>6 DEF HandedOut, Taken, GlobalID, Code
  <2>2. CASE t \in told
    BY <2>1, <2>2, <1>2, <1>4 DEF HandedOut
  <2>3. CASE n = Len(order) /\ t = <<GlobalID(m), m>>
    BY <2>3, <1>4
  <2>4. QED
    BY <1>5, <2>1, <2>2, <2>3
<1>14. OwnSent'
  BY <1>1 DEF Inv, OwnSent, Bare
<1>15. AnswersAreTrue'
  <2>1. CASE answer' \in Bare
    BY <2>1 DEF AnswersAreTrue, Bare
  <2>2. CASE answer' = answer /\ m.from # Self
    <3>1. \A x \in answer.sent : x # m
      BY <2>2 DEF Inv, OwnSent
    <3>2. QED
      BY <2>2, <3>1, <1>4 DEF Inv, AnswersAreTrue
  <2>3. QED
    BY <1>1, <2>1, <2>2
<1>16. QED
  BY <1>10, <1>11, <1>12, <1>13, <1>14, <1>15 DEF Inv

\* What a send gives to the server: the next message, and perhaps another part.
Sending(m, extra) ==
    \E type \in {"group", "private", "temp"}, chat \in Groups \cup Users :
      /\ Proper(type, chat, Self) /\ Room(1) /\ m = NextMessage(type, chat, Self, log)
      /\ \/ extra = <<>>
         \/ Room(2) /\ extra = <<NextMessage(type, chat, Self, Append(log, m))>>

\* A message that is sent is numbered after all of its series.
LEMMA SendingIsNew ==
    ASSUME TypeOK, Numbered(log), NEW m, NEW extra, Sending(m, extra),
           NEW s, s = Append(log, m) \o extra
    PROVE  /\ s \in Seq(Message) /\ Len(s) <= MaxMessages
           /\ Numbered(s)
           /\ ToSet(s) = Taken \cup {m} \cup ToSet(extra)
           /\ m \in Message
           /\ \A x \in {m} \cup ToSet(extra) :
                /\ x \in Message /\ x.from = Self /\ x \notin Taken
                /\ m.no <= x.no
<1>1. PICK type \in {"group", "private", "temp"}, chat \in Groups \cup Users :
        /\ Proper(type, chat, Self) /\ Room(1) /\ m = NextMessage(type, chat, Self, log)
        /\ \/ extra = <<>>
           \/ Room(2) /\ extra = <<NextMessage(type, chat, Self, Append(log, m))>>
  BY DEF Sending
<1>2. log \in Seq(Message) /\ Len(log) < MaxMessages
  BY <1>1, MessagesCounted DEF TypeOK, Room
<1> DEFINE s1 == Append(log, m)
<1>3. /\ m \in Message /\ m.from = Self
      /\ s1 \in Seq(Message) /\ Len(s1) = Len(log) + 1
      /\ Numbered(s1)
      /\ ToSet(s1) = Taken \cup {m}
      /\ m \notin Taken
  BY <1>1, <1>2, NextIsNumbered DEF Taken
<1>4. CASE extra = <<>>
  <2>1. s = s1 /\ ToSet(extra) = {} /\ m.no <= m.no
    BY <1>3, <1>4 DEF ToSet, Message
  <2>2. Len(s1) <= MaxMessages
    BY <1>2, <1>3, MessagesCounted
  <2> HIDE DEF s1
  <2>3. QED
    BY <1>3, <2>1, <2>2
<1>5. CASE Room(2) /\ extra = <<NextMessage(type, chat, Self, s1)>>
  <2> DEFINE x == NextMessage(type, chat, Self, s1)
             s2 == Append(s1, x)
  <2>1. Len(s1) < MaxMessages
    BY <1>2, <1>3, <1>5, MessagesCounted DEF Room
  <2> HIDE DEF s1
  <2>2. /\ x \in Message /\ x.from = Self
        /\ s2 \in Seq(Message) /\ Len(s2) = Len(s1) + 1
        /\ Numbered(s2)
        /\ ToSet(s2) = ToSet(s1) \cup {x}
        /\ x \notin ToSet(s1)
    BY <1>1, <1>3, <2>1, NextIsNumbered
  <2> HIDE DEF x
  <2>3. s = s2
    BY <1>3, <1>5, <2>2 DEF s1, x
  <2>4. ToSet(extra) = {x}
    BY <1>5 DEF ToSet, x
  <2> HIDE DEF s2
  <2>5. Len(s2) <= MaxMessages
    BY <1>3, <2>1, <2>2, MessagesCounted
  <2>6. m.no <= x.no
    BY <1>1, <1>2, <1>3, <2>1, NextIsLater DEF x, s1
  <2>6a. \A y \in {m} \cup ToSet(extra) : /\ y \in Message /\ y.from = Self /\ y \notin Taken
                                         /\ m.no <= y.no
    BY <1>3, <2>2, <2>4, <2>6 DEF Message
  <2>7. ToSet(s) = Taken \cup {m} \cup ToSet(extra)
    BY <1>3, <2>2, <2>3, <2>4
  <2>8. QED
    BY <1>3, <2>2, <2>3, <2>5, <2>6a, <2>7
<1>6. QED
  BY <1>1, <1>4, <1>5

\* The server takes a message and nothing records it.
SentOnly == \E m, ok : Sending(m, <<>>) /\ ok \in BOOLEAN /\ TakenOnly(m, ok)
\* The server takes a message, and back ends record it.
SentAndRecorded ==
    \E m, extra, checked : Sending(m, extra) /\ TakenAndRecorded(m, extra, checked)

\* A message that is sent and not recorded keeps the invariant.
LEMMA SentOnlyKeeps ==
    ASSUME Inv, Pends, SentOnly
    PROVE  Inv'
<1>1. PICK m, ok : Sending(m, <<>>) /\ ok \in BOOLEAN /\ TakenOnly(m, ok)
  BY DEF SentOnly
<1>2. /\ log' = Append(log, m) /\ answer' = [kind |-> OkIf(ok), id |-> NoId, sent |-> {m}]
      /\ UNCHANGED <<marks, inGroup, client, db, inbox, told>>
  BY <1>1 DEF TakenOnly, Reply
<1>3. TypeOK /\ Numbered(log) /\ AllTaken /\ HandedOut
  BY DEF Inv
<1>4. log \in Seq(Message) /\ ToSet(<<>>) = {}
  BY <1>3 DEF TypeOK, ToSet
<1>5. m \in Message
  BY <1>1, <1>3, SendingIsNew
<1>6. log' = Append(log, m) \o <<>>
  BY <1>2, <1>4, <1>5
<1>7. /\ log' \in Seq(Message) /\ Len(log') <= MaxMessages
      /\ Numbered(log')
      /\ ToSet(log') = Taken \cup {m}
      /\ m.from = Self /\ m \notin Taken
  <2>1. /\ log' \in Seq(Message) /\ Len(log') <= MaxMessages
        /\ Numbered(log')
        /\ ToSet(log') = Taken \cup {m} \cup ToSet(<<>>)
        /\ \A x \in {m} \cup ToSet(<<>>) : x.from = Self /\ x \notin Taken
    BY <1>1, <1>3, <1>6, SendingIsNew
  <2>2. QED
    BY <1>4, <2>1
<1>8. Taken' = Taken \cup {m}
  BY <1>7 DEF Taken
<1>9. TypeOK'
  BY <1>2, <1>3, <1>5, <1>7, PendsTypes DEF TypeOK, client, db, OkIf,
     GoodOrNot, Outcomes
<1>10. AllTaken'
  BY <1>2, <1>3, <1>8, PendsTypes DEF AllTaken, db
<1>11. HandedOut'
  BY <1>2, <1>3, <1>8 DEF HandedOut, GlobalID, Code, db
<1>12. OwnSent'
  BY <1>2, <1>7 DEF OwnSent
<1>13. AnswersAreTrue'
  BY <1>2, <1>3, <1>7 DEF AnswersAreTrue, AllTaken, db
<1>14. Numbered(log)'
  BY <1>7 DEF Numbered, Earlier, SameSeries
<1>15. QED
  BY <1>9, <1>10, <1>11, <1>12, <1>13, <1>14 DEF Inv

\* ... and so does one that back ends record.
LEMMA SentAndRecordedKeeps ==
    ASSUME Inv, Pends, SentAndRecorded
    PROVE  Inv'
<1>1. PICK m, extra, checked : Sending(m, extra) /\ TakenAndRecorded(m, extra, checked)
  BY DEF SentAndRecorded
<1>2. PICK n \in 0..Len(order) :
        /\ log' = Append(log, m) \o extra
        /\ store' = Inserted(m, n)
        /\ told' \in {told, told \cup Handed(m, n)}
        /\ answer' = [kind |-> OkIf(InsertedID(m, n) # NoId \/ ~checked),
                      id |-> InsertedID(m, n), sent |-> {m} \cup ToSet(extra)]
        /\ UNCHANGED <<marks, inGroup, client, inbox, order>>
  BY <1>1 DEF TakenAndRecorded, Reply
<1>3. TypeOK /\ Numbered(log) /\ AllTaken /\ HandedOut
  BY DEF Inv
<1>4. /\ log' \in Seq(Message) /\ Len(log') <= MaxMessages
      /\ Numbered(log')
      /\ ToSet(log') = Taken \cup {m} \cup ToSet(extra)
      /\ m \in Message
      /\ \A x \in {m} \cup ToSet(extra) : /\ x \in Message /\ x.from = Self /\ x \notin Taken
                                         /\ m.no <= x.no
  BY <1>1, <1>2, <1>3, SendingIsNew
<1>5. Taken' = Taken \cup {m} \cup ToSet(extra)
  BY <1>4 DEF Taken
<1>6. OneEach(Taken')
  BY <1>4, IdsApart DEF Taken
<1>7. /\ store' \in [Backends -> SUBSET Message]
      /\ \A b \in Backends : store[b] \subseteq store'[b] /\ store'[b] \subseteq store[b] \cup {m}
      /\ n = Len(order) => \A b \in Backends : m \in store'[b]
      /\ n # Len(order) => \E b \in Backends : store'[b] = store[b]
  <2>1. \A b \in Backends : store[b] \subseteq Taken'
    BY <1>3, <1>5 DEF AllTaken
  <2>2. QED
    <3>1. store' = Inserted(m, n) /\ m \in Message /\ m \in Taken'
      BY <1>2, <1>4, <1>5
    <3>2. QED
      BY <1>3, <1>6, <2>1, <3>1, InsertedAdds
<1>8. \A t \in told' : t \in told \/ t = <<NoId, m>>
                      \/ (n = Len(order) /\ t = <<GlobalID(m), m>>)
  <2>1. told' \subseteq told \cup Handed(m, n) /\ m \in Message
    BY <1>2, <1>4
  <2>2. QED
    BY <1>3, <2>1, HandedIsRecorded
<1>9. told' \subseteq GoodOrNot \X Message
  BY <1>3, <1>4, <1>8, IdIsGood DEF TypeOK, GoodOrNot
<1>10. answer' \in [kind : Outcomes, id : GoodOrNot, sent : SUBSET Message]
  BY <1>2, <1>3, <1>4, HandedIsRecorded DEF OkIf, Outcomes
<1>10a. TypeOK'
  BY <1>2, <1>3, <1>4, <1>7, <1>9, <1>10, PendsTypes DEF TypeOK, client
<1>11. AllTaken'
  BY <1>2, <1>3, <1>5, <1>7, PendsTypes DEF AllTaken
<1>12. HandedOut'
  <2>1. SUFFICES ASSUME NEW t \in told', t[1] # NoId
                 PROVE  /\ t[1] = GlobalID(t[2]) /\ t[2] \in Taken'
                        /\ \A b \in Backends : t[2] \in store'[b]
    BY DEF HandedOut, GlobalID, Code
  <2>2. CASE t \in told
    BY <2>1, <2>2, <1>3, <1>5, <1>7 DEF HandedOut
  <2>3. CASE n = Len(order) /\ t = <<GlobalID(m), m>>
    BY <2>3, <1>5, <1>7
  <2>4. QED
    BY <1>8, <2>1, <2>2, <2>3
<1>13. OwnSent'
  BY <1>2, <1>4 DEF OwnSent
<1>14. AnswersAreTrue'
  <2>1. CASE InsertedID(m, n) = NoId
    <3>1. n # Len(order)
      BY <1>3, <1>4, <2>1, HandedIsRecorded
    <3>2. PICK b \in Backends : store'[b] = store[b]
      BY <1>7, <3>1
    <3>3. \A x \in answer'.sent : x \notin Taken
      BY <1>2, <1>4
    <3>4. \A x \in answer'.sent : x \notin store'[b]
      BY <1>3, <3>2, <3>3 DEF AllTaken
    <3>5. QED
      BY <1>2, <2>1, <3>4 DEF AnswersAreTrue
  <2>2. CASE InsertedID(m, n) # NoId
    <3>1. n = Len(order) /\ InsertedID(m, n) = GlobalID(m)
      BY <1>3, <1>4, <2>2, HandedIsRecorded
    <3>2. answer'.kind = "ok" /\ answer'.id = GlobalID(m) /\ m \in answer'.sent
      BY <1>2, <2>2, <3>1 DEF OkIf
    <3>3. \A part \in answer'.sent : m.no <= part.no
      BY <1>2, <1>4
    <3>4. QED
      BY <1>2, <1>7, <2>2, <3>1, <3>2, <3>3 DEF AnswersAreTrue, GlobalID, Code
  <2>3. QED
    BY <2>1, <2>2
<1>15. Numbered(log)'
  BY <1>4 DEF Numbered, Earlier, SameSeries
<1>16. QED
  BY <1>10a, <1>11, <1>12, <1>13, <1>14, <1>15 DEF Inv

----------------------------------------------------------------------------
(* The calls, and what they recall. *)

CallEffect == Quiet \/ RecordedOnce \/ SentOnly \/ SentAndRecorded

\* Whatever a call does of these, the invariant holds.
LEMMA EffectKeeps ==
    ASSUME Inv, Pends, CallEffect
    PROVE  Inv'
BY QuietKeeps, RecordedKeeps, SentOnlyKeeps, SentAndRecordedKeeps DEF CallEffect

Recalled(m) == <<"gone", m>> \in marks' \ marks
NoRecall == \A m : ~Recalled(m)
RecallOf(id) == \A m : Recalled(m) =>
                  m \in Found(id) /\ (m.type = "group" \/ m.from = Self)

\* An outcome alone is a quiet effect.
LEMMA OnlyIsQuiet ==
    ASSUME TypeOK, NEW kind \in Outcomes, Only(kind)
    PROVE  CallEffect /\ NoRecall
BY DEF TypeOK, Only, Reply, server, CallEffect, Quiet, Bare, NoRecall, Recalled

\* A refusal is.
LEMMA RefuseIsQuiet ==
    ASSUME TypeOK, Refuse
    PROVE  CallEffect /\ NoRecall
BY OnlyIsQuiet DEF Refuse, Outcomes

\* What becomes of a message that is sent is an effect of a call.
LEMMA SentIsEffect ==
    ASSUME TypeOK, NEW type \in {"group", "private", "temp"}, NEW chat \in Groups \cup Users,
           Proper(type, chat, Self), Room(1),
           NEW m, m = NextMessage(type, chat, Self, log)
    PROVE  /\ \A ok \in BOOLEAN : TakenOnly(m, ok) => CallEffect /\ NoRecall
           /\ \A checked : TakenAndRecorded(m, <<>>, checked) => CallEffect /\ NoRecall
           /\ /\ Room(2)
              /\ TakenAndRecorded(m, <<NextMessage(type, chat, Self, Append(log, m))>>, TRUE)
              => CallEffect /\ NoRecall
<1>1. Sending(m, <<>>)
  BY DEF Sending
<1>2. Room(2) => Sending(m, <<NextMessage(type, chat, Self, Append(log, m))>>)
  BY DEF Sending
<1>3. \A ok \in BOOLEAN : TakenOnly(m, ok) => CallEffect
  BY <1>1 DEF SentOnly, CallEffect
<1>4. ASSUME NEW extra, NEW checked, Sending(m, extra), TakenAndRecorded(m, extra, checked)
      PROVE  CallEffect
  BY <1>4 DEF SentAndRecorded, CallEffect
<1>5. ASSUME NEW extra, NEW checked, TakenAndRecorded(m, extra, checked) PROVE NoRecall
  BY <1>5 DEF TakenAndRecorded, NoRecall, Recalled
<1>6. \A ok \in BOOLEAN : TakenOnly(m, ok) => NoRecall
  BY DEF TakenOnly, NoRecall, Recalled
<1>7. QED
  BY <1>1, <1>2, <1>3, <1>4, <1>5, <1>6

\* send_group_msg.
LEMMA GroupSend ==
    ASSUME TypeOK, NEW g \in Groups, NEW elems, NEW lost, CQSendGroupMessage(g, elems, lost)
    PROVE  CallEffect /\ NoRecall
<1>1. CASE Refuse
  BY <1>1, RefuseIsQuiet
<1>2. CASE SendGroupMessage(g, Shape(elems, lost))
  <2> DEFINE m1 == NextMessage("group", g, Self, log)
             m2 == NextMessage("group", g, Self, Append(log, m1))
  <2>1. Proper("group", g, Self)
    BY DEF Proper
  <2>2. \/ Refuse
        \/ Only("ok")
        \/ Room(1) /\ TakenAndRecorded(m1, <<>>, TRUE)
        \/ Room(2) /\ TakenAndRecorded(m1, <<m2>>, TRUE)
        \/ Room(1) /\ TakenOnly(m1, FALSE)
    BY <1>2, Zenon DEF SendGroupMessage
  <2>3. Room(2) => Room(1)
    BY MessagesCounted DEF Room, TypeOK
  <2>4. CASE Refuse \/ Only("ok")
    BY <2>4, RefuseIsQuiet, OnlyIsQuiet DEF Outcomes
  <2>5. CASE Room(1) /\ TakenAndRecorded(m1, <<>>, TRUE)
    BY <2>1, <2>5, SentIsEffect
  <2>6. CASE Room(2) /\ TakenAndRecorded(m1, <<m2>>, TRUE)
    BY <2>1, <2>3, <2>6, SentIsEffect
  <2>7. CASE Room(1) /\ TakenOnly(m1, FALSE)
    BY <2>1, <2>7, SentIsEffect
  <2>8. QED
    BY <2>2, <2>4, <2>5, <2>6, <2>7
<1>3. QED
  BY <1>1, <1>2 DEF CQSendGroupMessage

\* send_private_msg, over a group too.
LEMMA PrivateSend ==
    ASSUME TypeOK, NEW u \in Users, NEW g, NEW elems, NEW lost,
           CQSendPrivateMessage(u, g, elems, lost)
    PROVE  CallEffect /\ NoRecall
<1>1. CASE Refuse
  BY <1>1, RefuseIsQuiet
<1>2. CASE SendPrivateMessage(u, g, Shape(elems, lost))
  <2> DEFINE m == NextMessage("private", u, Self, log)
             t == NextMessage("temp", u, Self, log)
  <2>1. Proper("private", u, Self) /\ Proper("temp", u, Self)
    BY CodesApart DEF Proper
  <2>2. \/ Refuse
        \/ Only("ok")
        \/ Room(1) /\ TakenOnly(m, TRUE)
        \/ Room(1) /\ TakenAndRecorded(m, <<>>, TRUE)
        \/ Room(1) /\ TakenOnly(t, FALSE)
    BY <1>2, Zenon DEF SendPrivateMessage
  <2>3. CASE Refuse \/ Only("ok")
    BY <2>3, RefuseIsQuiet, OnlyIsQuiet DEF Outcomes
  <2>4. CASE Room(1) /\ TakenOnly(m, TRUE)
    BY <2>1, <2>4, SentIsEffect
  <2>5. CASE Room(1) /\ TakenAndRecorded(m, <<>>, TRUE)
    BY <2>1, <2>5, SentIsEffect
  <2>6. CASE Room(1) /\ TakenOnly(t, FALSE)
    BY <2>1, <2>6, SentIsEffect
  <2>7. QED
    BY <2>2, <2>3, <2>4, <2>5, <2>6
<1>3. QED
  BY <1>1, <1>2 DEF CQSendPrivateMessage

\* send_msg, which chooses between the two.
LEMMA AnySend ==
    ASSUME TypeOK, NEW type \in {"group", ""}, NEW g \in Groups \cup {NoGroup},
           NEW u \in Users \cup {NoGroup}, NEW elems, NEW lost,
           CQSendMessage(type, u, g, elems, lost)
    PROVE  CallEffect /\ NoRecall
<1>1. \/ g # NoGroup /\ CQSendGroupMessage(g, elems, lost)
      \/ u # NoGroup /\ CQSendPrivateMessage(u, g, elems, lost)
      \/ Refuse
  BY Zenon DEF CQSendMessage
<1>2. QED
  BY <1>1, GroupSend, PrivateSend, RefuseIsQuiet

\* send_group_forward_msg.
LEMMA ForwardSend ==
    ASSUME TypeOK, NEW g \in Groups, NEW nodes, CQSendGroupForwardMessage(g, nodes)
    PROVE  CallEffect /\ NoRecall
<1>1. Proper("group", g, Self)
  BY DEF Proper
<1>2. QED
  BY <1>1, RefuseIsQuiet, SentIsEffect DEF CQSendGroupForwardMessage

\* A mark on a message is quiet, and recalls at most that message.
LEMMA MarkIsQuiet ==
    ASSUME TypeOK, AllTaken, NEW mark \in {"gone", "essence"}, NEW id, NEW m \in Found(id),
           Marked(mark, m)
    PROVE  CallEffect /\ \A x : Recalled(x) => mark = "gone" /\ x = m
<1>1. m \in Message
  BY FoundIsTaken
<1>2. QED
  BY <1>1 DEF TypeOK, Marked, Reply, CallEffect, Quiet, Bare, Outcomes, Recalled

\* delete_msg recalls what the id names, of others in a group only.
LEMMA RecallStep ==
    ASSUME TypeOK, AllTaken, NEW id, CQDeleteMessage(id)
    PROVE  CallEffect /\ RecallOf(id)
<1>1. CASE Refuse
  BY <1>1, RefuseIsQuiet DEF NoRecall, RecallOf
<1>2. CASE \E m \in Found(id) : (m.type = "group" \/ m.from = Self) /\ Marked("gone", m)
  BY <1>2, MarkIsQuiet DEF RecallOf
<1>3. QED
  BY <1>1, <1>2 DEF CQDeleteMessage

\* The other actions that take an id recall nothing.
LEMMA OtherUses ==
    ASSUME TypeOK, AllTaken, NEW id,
           \/ CQMarkMessageAsRead(id) \/ CQGetMessage(id)
           \/ CQSetEssenceMessage(id) \/ CQDeleteEssenceMessage(id)
    PROVE  CallEffect /\ NoRecall
<1>1. CASE CQMarkMessageAsRead(id) \/ CQGetMessage(id)
  BY <1>1, RefuseIsQuiet, OnlyIsQuiet DEF Outcomes, CQMarkMessageAsRead, CQGetMessage
<1>2. CASE CQSetEssenceMessage(id)
  <2>1. CASE Refuse
    BY <2>1, RefuseIsQuiet
  <2>2. CASE \E m \in FoundGroup(id) : Marked("essence", m)
    BY <2>2, MarkIsQuiet DEF FoundGroup, NoRecall
  <2>3. QED
    BY <1>2, <2>1, <2>2 DEF CQSetEssenceMessage
<1>3. CASE CQDeleteEssenceMessage(id)
  <2>1. CASE Refuse
    BY <2>1, RefuseIsQuiet
  <2>2. CASE \E m \in FoundGroup(id) :
               /\ marks' = marks \ {<<"essence", m>>}
               /\ Reply("ok", NoId, {})
               /\ UNCHANGED <<log, inGroup, client, db, inbox, told>>
    BY <2>2 DEF TypeOK, Reply, CallEffect, Quiet, Bare, Outcomes, NoRecall, Recalled
  <2>3. QED
    BY <1>3, <2>1, <2>2 DEF CQDeleteEssenceMessage
<1>4. QED
  BY <1>1, <1>2, <1>3

\* A member list that was fetched anew is of users.
LEMMA RefreshedTypes ==
    ASSUME TypeOK, NEW m, NEW g \in Groups, m.chat = g, NEW now, Refreshed(m, now)
    PROVE  [members EXCEPT ![g] = now] \in [Groups -> SUBSET Users]
BY DEF TypeOK, Refreshed

\* get_group_msg_history records what was said and recalls nothing.
LEMMA HistoryStep ==
    ASSUME TypeOK, NEW g \in Groups, NEW m \in ToSet(log), CQGetGroupMessageHistory(g, m)
    PROVE  CallEffect /\ NoRecall
<1>1. CASE Refuse
  BY <1>1, RefuseIsQuiet
<1>2. CASE ~Refuse
  <2>1. m.chat = g /\ UNCHANGED <<server, joined, friends, session, order, inbox>>
    BY <1>2 DEF CQGetGroupMessageHistory
  <2>2. PICK n \in 0..Len(order), now \in SUBSET Users :
          /\ Refreshed(m, now)
          /\ store' = Inserted(m, n)
          /\ members' = [members EXCEPT ![g] = now]
          /\ told' = IF Formatted(m, now) THEN told \cup Handed(m, n) ELSE told
          /\ Reply(IF Formatted(m, now) THEN "ok" ELSE "panic", NoId, {})
    BY <1>2 DEF CQGetGroupMessageHistory
  <2>3. members' \in [Groups -> SUBSET Users]
    BY <2>1, <2>2, RefreshedTypes
  <2>4. answer' \in Bare
    BY <2>2 DEF Reply, Bare, Outcomes
  <2>5. told' \in {told, told \cup Handed(m, n)}
    BY <2>2
  <2>6. m \in Taken
    BY DEF Taken
  <2>7. RecordedOnce
    BY <2>1, <2>2, <2>3, <2>4, <2>5, <2>6 DEF RecordedOnce
  <2>8. QED
    BY <2>1, <2>7 DEF CallEffect, NoRecall, Recalled, server
<1>3. QED
  BY <1>1, <1>2

\* A call keeps the invariant, and recalls nothing or what it is asked to.
LEMMA CallSteps ==
    ASSUME TypeOK, AllTaken, Call
    PROVE  /\ CallEffect /\ todo' = todo
           /\ \/ NoRecall
              \/ \E id : RecallOf(id)
<1>1. CASE \E g \in Groups \cup {NoGroup}, u \in Users \cup {NoGroup}, d \in Drafts :
             CQSendMessage(IF u = NoGroup /\ g # NoGroup THEN "group" ELSE "", u, g, d.elems, d.lost)
  BY <1>1, AnySend DEF Call
<1>2. CASE \E g \in Groups, node \in {<<"content">>, <<"bad">>} \cup Ids :
             CQSendGroupForwardMessage(g, {node})
  BY <1>2, ForwardSend DEF Call
<1>3. CASE \E id \in Ids : CQDeleteMessage(id)
  BY <1>3, RecallStep DEF Call
<1>4. CASE \E id \in Ids : \/ CQMarkMessageAsRead(id) \/ CQGetMessage(id)
                            \/ CQSetEssenceMessage(id) \/ CQDeleteEssenceMessage(id)
  BY <1>4, OtherUses DEF Call
<1>5. CASE \E g \in Groups, m \in ToSet(log) : CQGetGroupMessageHistory(g, m)
  BY <1>5, HistoryStep DEF Call
<1>6. QED
  BY <1>1, <1>2, <1>3, <1>4, <1>5, Zenon DEF Call

\* A step of a quick operation recalls the message of its event at most.
LEMMA QuickSteps ==
    ASSUME TypeOK, AllTaken, QuickStep
    PROVE  /\ CallEffect /\ Pends
           /\ todo # <<>> /\ Head(todo).on \in Taken
           /\ NoRecall \/ RecallOf(GlobalID(Head(todo).on))
<1> DEFINE m == Head(todo).on
<1>1. /\ todo # <<>> /\ Pends
      /\ \/ CQDeleteMessage(GlobalID(m))
         \/ m.type = "group" /\ CQSendGroupMessage(m.chat, <<"text">>, {})
         \/ m.type # "group" /\ CQSendPrivateMessage(m.from, NoGroup, <<"text">>, {})
  BY Zenon DEF QuickStep, Pends
<1>2. /\ Head(todo) \in Pending
      /\ Head(todo) = todo[1] /\ 1 \in 1..Len(todo)
  <2>1. todo \in Seq(Pending) /\ todo # <<>>
    BY <1>1 DEF TypeOK
  <2>2. QED
    BY <2>1
<1>3. m \in FromOthers /\ m \in Taken
  BY <1>2 DEF AllTaken, Pending
<1>4. /\ m.type = "group" => m.chat \in Groups
      /\ m.from \in Users
  BY <1>3 DEF FromOthers, Message
<1>5. CallEffect /\ (NoRecall \/ RecallOf(GlobalID(m)))
  BY <1>1, <1>4, RecallStep, GroupSend, PrivateSend
<1>6. QED
  BY <1>1, <1>3, <1>5

----------------------------------------------------------------------------
(* Events and restarts. *)

\* What a message event records was written by another.
LEMMA MessageEvents ==
    ASSUME Inv, groupMessageEvent \/ privateMessageEvent
    PROVE  RecordedOnce /\ Pends /\ NoRecall
<1>1. TypeOK /\ AllTaken /\ inbox # <<>> /\ inbox' = Tail(inbox) /\ answer' = answer
      /\ UNCHANGED <<server, joined, friends, session, order, todo>>
  BY DEF Inv, groupMessageEvent, privateMessageEvent, client
<1> DEFINE m == Head(inbox)
<1>2. m \in Message /\ m.from # Self /\ m \in Taken
  BY <1>1, InboxTypes DEF AllTaken, FromOthers
<1>3. order \in Seq(Backends) /\ 0 \in 0..Len(order)
  BY <1>1, OrderIsOnto DEF TypeOK
<1>4. NoRecall /\ Pends
  BY <1>1 DEF NoRecall, Recalled, server, Pends
<1>5. \E n \in 0..Len(order) :
        /\ store' = Inserted(m, n)
        /\ told' \in {told, told \cup Handed(m, n)}
        /\ members' \in [Groups -> SUBSET Users]
  <2>1. CASE privateMessageEvent
    BY <2>1, <1>1 DEF privateMessageEvent, client, TypeOK
  <2>2. CASE groupMessageEvent /\ UNCHANGED <<store, members, told>>
    <3>1. Inserted(m, 0) = [b \in Backends |-> store[b]]
      BY DEF Inserted
    <3>2. store' = Inserted(m, 0)
      BY <1>1, <2>2, <3>1 DEF TypeOK
    <3>3. QED
      BY <1>1, <1>3, <2>2, <3>2 DEF TypeOK
  <2>3. CASE groupMessageEvent /\ \E n \in 0..Len(order), now \in SUBSET Users :
               /\ Refreshed(m, now)
               /\ store' = Inserted(m, n)
               /\ members' = [members EXCEPT ![m.chat] = now]
               /\ told' = IF Formatted(m, now) THEN told \cup Handed(m, n) ELSE told
    <3>1. PICK n \in 0..Len(order), now \in SUBSET Users :
            /\ Refreshed(m, now)
            /\ store' = Inserted(m, n)
            /\ members' = [members EXCEPT ![m.chat] = now]
            /\ told' = IF Formatted(m, now) THEN told \cup Handed(m, n) ELSE told
      BY <2>3
    <3>2. m.chat \in Groups
      BY <1>2, <2>3 DEF groupMessageEvent, Message
    <3>3. QED
      BY <1>1, <3>1, <3>2, RefreshedTypes
  <2>4. QED
    BY <2>1, <2>2, <2>3 DEF groupMessageEvent
<1>6. QED
  BY <1>1, <1>2, <1>4, <1>5 DEF RecordedOnce

\* A temporary message is received and recorded.
LEMMA TempMessageStep ==
    ASSUME Inv, tempMessageEvent
    PROVE  Inv' /\ NoRecall
<1>1. /\ inbox # <<>> /\ Head(inbox).type = "temp" /\ inbox' = Tail(inbox)
      /\ UNCHANGED <<server, members, joined, friends, db, todo, told, answer>>
  BY DEF tempMessageEvent
<1>2. PICK g \in Groups : session' = [session EXCEPT ![Head(inbox).from] = g]
  BY DEF tempMessageEvent
<1>3. TypeOK /\ AllTaken
  BY DEF Inv
<1>4. session' \in [Users -> Groups \cup {NoGroup}]
  BY <1>2, <1>3 DEF TypeOK
<1>5. inbox' \in Seq(FromOthers) /\ ToSet(inbox') \subseteq ToSet(inbox)
  BY <1>1, <1>3, InboxTypes
<1>6. TypeOK'
  BY <1>1, <1>3, <1>4, <1>5 DEF TypeOK, server, db
<1>7. AllTaken'
  BY <1>1, <1>3, <1>5 DEF AllTaken, Taken, server, db
<1>8. Numbered(log)' /\ HandedOut' /\ OwnSent' /\ AnswersAreTrue'
  BY <1>1 DEF Inv, Numbered, Earlier, SameSeries, HandedOut, OwnSent, AnswersAreTrue,
     GlobalID, Code, Taken, server, db
<1>9. QED
  BY <1>1, <1>6, <1>7, <1>8 DEF Inv, NoRecall, Recalled, server

\* Friends that are added and members that leave.
LEMMA ListSteps ==
    ASSUME Inv, (\E u \in Users : friendAddedEvent(u) \/ \E g \in Groups : Leaves(u, g))
    PROVE  Inv' /\ NoRecall
<1>1. UNCHANGED <<log, marks, joined, db, inbox, todo, told, answer>>
  BY DEF friendAddedEvent, Leaves, server
<1>2. /\ inGroup' \in [Groups -> SUBSET Users] /\ members' \in [Groups -> SUBSET Users]
      /\ friends' \subseteq Users /\ session' \in [Users -> Groups \cup {NoGroup}]
  <2>1. TypeOK
    BY DEF Inv
  <2>2. CASE \E u \in Users : friendAddedEvent(u)
    BY <2>1, <2>2 DEF TypeOK, friendAddedEvent, server
  <2>3. CASE \E u \in Users, g \in Groups : Leaves(u, g)
    BY <2>1, <2>3 DEF TypeOK, Leaves
  <2>4. QED
    BY <2>2, <2>3
<1>3. TypeOK'
  BY <1>1, <1>2 DEF Inv, TypeOK, db
<1>4. Numbered(log)' /\ AllTaken' /\ HandedOut' /\ OwnSent' /\ AnswersAreTrue'
  BY <1>1 DEF Inv, Numbered, Earlier, SameSeries, AllTaken, HandedOut, OwnSent,
     AnswersAreTrue, GlobalID, Code, Taken, db
<1>5. QED
  BY <1>1, <1>3, <1>4 DEF Inv, NoRecall, Recalled

\* A message that somebody writes is taken by the server.
LEMMA WrittenStep ==
    ASSUME Inv, NEW type \in {"group", "private", "temp"}, NEW chat \in Groups \cup Users,
           NEW u \in Users, Written(type, chat, u)
    PROVE  Inv' /\ NoRecall
<1> DEFINE m == NextMessage(type, chat, u, log)
<1>1. /\ Room(1) /\ log' = Append(log, m) /\ inbox' = Append(inbox, m)
      /\ UNCHANGED <<marks, inGroup, client, db, todo, told, answer>>
  BY DEF Written
<1>2. TypeOK /\ Numbered(log) /\ AllTaken /\ HandedOut
  BY DEF Inv
<1>3. Proper(type, chat, u)
  <2>1. CASE type = "group"
    BY <2>1, <1>2 DEF Written, Proper, TypeOK
  <2>2. CASE type # "group"
    BY <2>2, CodesApart DEF Written, Proper
  <2>3. QED
    BY <2>1, <2>2
<1>4. log \in Seq(Message) /\ Len(log) < MaxMessages
  BY <1>1, <1>2, MessagesCounted DEF TypeOK, Room
<1>5. /\ m \in Message /\ m.from = u
      /\ log' \in Seq(Message) /\ Len(log') = Len(log) + 1
      /\ Numbered(log') /\ ToSet(log') = ToSet(log) \cup {m}
  BY <1>1, <1>2, <1>3, <1>4, NextIsNumbered
<1> HIDE DEF m
<1>6. m \in FromOthers
  BY <1>5, CodesApart DEF FromOthers
<1>7. inbox' \in Seq(FromOthers) /\ ToSet(inbox') = ToSet(inbox) \cup {m}
  <2>1. inbox \in Seq(FromOthers)
    BY <1>2 DEF TypeOK
  <2>2. /\ inbox' \in Seq(FromOthers) /\ Len(inbox') = Len(inbox) + 1
        /\ \A i \in 1..Len(inbox) : inbox'[i] = inbox[i]
        /\ inbox'[Len(inbox) + 1] = m
    BY <1>1, <1>6, <2>1
  <2>3. QED
    BY <2>1, <2>2 DEF ToSet
<1>8. Len(log') <= MaxMessages
  BY <1>4, <1>5, MessagesCounted
<1>9. TypeOK'
  BY <1>1, <1>2, <1>5, <1>7, <1>8 DEF TypeOK, client, db
<1>10. AllTaken'
  BY <1>1, <1>2, <1>5, <1>7 DEF AllTaken, Taken, db
<1>11. HandedOut'
  BY <1>1, <1>2, <1>5 DEF HandedOut, Taken, GlobalID, Code, db
<1>12. OwnSent' /\ AnswersAreTrue'
  BY <1>1 DEF Inv, OwnSent, AnswersAreTrue, db
<1>13. Numbered(log)'
  BY <1>5 DEF Numbered, Earlier, SameSeries
<1>14. QED
  BY <1>1, <1>9, <1>10, <1>11, <1>12, <1>13 DEF Inv, NoRecall, Recalled

\* A restart draws the order of the back ends anew.
LEMMA RestartStep ==
    ASSUME Inv, Restart
    PROVE  Inv' /\ NoRecall
<1>1. /\ UNCHANGED <<server, joined, friends, store, told>>
      /\ order' \in SetToSeqs(Backends) /\ members' = inGroup
      /\ session' = [u \in Users |-> NoGroup]
      /\ inbox' = <<>> /\ todo' = <<>> /\ answer' = [kind |-> "ok", id |-> NoId, sent |-> {}]
  BY DEF Restart, Reply
<1>2. TypeOK'
  BY <1>1 DEF Inv, TypeOK, GoodOrNot, Outcomes, server
<1>3. AllTaken'
  BY <1>1 DEF Inv, AllTaken, Taken, ToSet, server
<1>4. Numbered(log)' /\ HandedOut'
  BY <1>1 DEF Inv, Numbered, Earlier, SameSeries, HandedOut, GlobalID, Code, Taken, server
<1>5. OwnSent' /\ AnswersAreTrue'
  BY <1>1 DEF OwnSent, AnswersAreTrue
<1>6. QED
  BY <1>1, <1>2, <1>3, <1>4, <1>5 DEF Inv, NoRecall, Recalled, server

\* A quick operation begins with what it is to do.
LEMMA QuickStart ==
    ASSUME Inv, NEW m \in ToSet(log), NEW does, CQHandleQuickOperation(m, does)
    PROVE  Inv' /\ NoRecall
<1>1. /\ m.from # Self
      /\ UNCHANGED <<server, client, db, inbox, told, answer>>
  BY DEF CQHandleQuickOperation
<1>2. TypeOK /\ AllTaken
  BY DEF Inv
<1>3. m \in FromOthers /\ m \in Taken
  BY <1>1, <1>2 DEF TypeOK, FromOthers, Taken, ToSet
<1>4. /\ todo' \in Seq(Pending)
      /\ \A i \in 1..Len(todo') : todo'[i].on = m
  <2> DEFINE reply == [call |-> "reply", on |-> m]
             delete == [call |-> "delete", on |-> m]
  <2>1. \/ todo' = <<reply>> \o <<delete>> \/ todo' = <<reply>> \o <<>>
        \/ todo' = <<>> \o <<delete>> \/ todo' = <<>> \o <<>>
    BY Zenon DEF CQHandleQuickOperation
  <2>2. \/ todo' = <<reply, delete>> \/ todo' = <<reply>>
        \/ todo' = <<delete>> \/ todo' = <<>>
    BY <2>1
  <2>3. reply \in Pending /\ delete \in Pending /\ reply.on = m /\ delete.on = m
    BY <1>3 DEF Pending
  <2> HIDE DEF reply, delete
  <2>4. \A i \in 1..Len(todo') : todo'[i] \in {reply, delete}
    BY <2>2
  <2>5. /\ <<>> \in Seq(Pending) /\ <<reply>> \in Seq(Pending) /\ <<delete>> \in Seq(Pending)
        /\ <<reply, delete>> \in Seq(Pending)
    BY <2>3
  <2>6. todo' \in Seq(Pending)
    BY <2>2, <2>5
  <2>7. QED
    BY <2>3, <2>4, <2>6
<1>5. TypeOK'
  BY <1>1, <1>2, <1>4 DEF TypeOK, server, client, db
<1>6. AllTaken'
  BY <1>1, <1>2, <1>3, <1>4 DEF AllTaken, Taken, server, db
<1>7. Numbered(log)' /\ HandedOut' /\ OwnSent' /\ AnswersAreTrue'
  BY <1>1 DEF Inv, Numbered, Earlier, SameSeries, HandedOut, OwnSent, AnswersAreTrue,
     GlobalID, Code, Taken, server, db
<1>8. QED
  BY <1>1, <1>5, <1>6, <1>7 DEF Inv, NoRecall, Recalled, server

----------------------------------------------------------------------------

\* Every step keeps the invariant and recalls only what is meant.
LEMMA Invariance ==
    ASSUME Inv, [Next]_vars
    PROVE  /\ Inv'
           /\ \A m \in ToSet(log) : Recalled(m) =>
                /\ m.type = "group" \/ m.from = Self
                /\ todo' # todo => m = Head(todo).on
<1>1. TypeOK /\ AllTaken /\ OneEach(Taken)
  BY IdsApart DEF Inv, TypeOK, Taken
<1>2. CASE Call
  <2>1. CallEffect /\ Pends /\ todo' = todo
    BY <1>1, <1>2, CallSteps DEF Pends
  <2>2. NoRecall \/ \E id : RecallOf(id)
    BY <1>1, <1>2, CallSteps
  <2>3. QED
    BY <2>1, <2>2, EffectKeeps DEF NoRecall, RecallOf
<1>3. CASE QuickStep
  <2>1. /\ CallEffect /\ Pends
        /\ todo # <<>> /\ Head(todo).on \in Taken
        /\ NoRecall \/ RecallOf(GlobalID(Head(todo).on))
    BY <1>1, <1>3, QuickSteps
  <2>2. \A m : m \in Found(GlobalID(Head(todo).on)) => m = Head(todo).on
    BY <1>1, <2>1, FoundIsTaken DEF OneEach
  <2>3. QED
    BY <2>1, <2>2, EffectKeeps DEF NoRecall, RecallOf
<1>4. CASE groupMessageEvent \/ privateMessageEvent
  BY <1>4, MessageEvents, RecordedKeeps DEF NoRecall
<1>5. CASE tempMessageEvent
  BY <1>5, TempMessageStep DEF NoRecall
<1>6. CASE \E u \in Users : friendAddedEvent(u) \/ \E g \in Groups : Leaves(u, g)
  BY <1>6, ListSteps DEF NoRecall
<1>7. CASE \E type \in {"group", "private", "temp"}, c \in Groups \cup Users, u \in Users :
             Written(type, c, u)
  BY <1>7, WrittenStep DEF NoRecall
<1>8. CASE Restart
  BY <1>8, RestartStep DEF NoRecall
<1>9. CASE \E m \in ToSet(log), does \in {{"delete"}, {"reply", "delete"}} :
             CQHandleQuickOperation(m, does)
  BY <1>9, QuickStart DEF NoRecall
<1>10. CASE UNCHANGED vars
  <2>1. UNCHANGED <<log, marks, inGroup, client, db, inbox, todo, told, answer>>
    BY <1>10 DEF vars, server
  <2>2. TypeOK' /\ AllTaken'
    BY <2>1 DEF Inv, TypeOK, AllTaken, Taken, client, db
  <2>3. Numbered(log)' /\ HandedOut' /\ OwnSent' /\ AnswersAreTrue'
    BY <2>1 DEF Inv, Numbered, Earlier, SameSeries, HandedOut, OwnSent,
       AnswersAreTrue, GlobalID, Code, Taken, client, db
  <2>4. QED
    BY <2>1, <2>2, <2>3 DEF Inv, Recalled
<1>11. QED
  BY <1>2, <1>3, <1>4, <1>5, <1>6, <1>7, <1>8, <1>9, <1>10 DEF Next, Event

\* The invariant holds at the start.
LEMMA InitInv ==
    ASSUME Init
    PROVE  Inv
<1>1. /\ log = <<>> /\ marks = {} /\ inbox = <<>> /\ todo = <<>> /\ told = {}
      /\ inGroup = [g \in Groups |-> Users] /\ members = inGroup
      /\ joined \subseteq Groups /\ friends = {}
      /\ session = [u \in Users |-> NoGroup]
      /\ store = [b \in Backends |-> {}]
      /\ order \in SetToSeqs(Backends)
      /\ answer = [kind |-> "ok", id |-> NoId, sent |-> {}]
  BY DEF Init
<1>2. TypeOK
  BY <1>1, MessagesCounted DEF TypeOK, GoodOrNot, Outcomes
<1>3. Numbered(log) /\ AllTaken /\ HandedOut /\ OwnSent /\ AnswersAreTrue
  BY <1>1 DEF Numbered, AllTaken, HandedOut, OwnSent, AnswersAreTrue, ToSet
<1>4. QED
  BY <1>2, <1>3 DEF Inv

\* The invariant holds in every state.
LEMMA InvHolds == Spec => []Inv
<1>1. Init => Inv
  BY InitInv
<1>2. Inv /\ [Next]_vars => Inv'
  BY Invariance
<1>3. QED
  BY <1>1, <1>2, PTL DEF Spec

(* Every step keeps the state's types: what stores, inboxes, ids handed out  *)
(* and answers hold are messages with the sender and chat their kind has.    *)
THEOREM TypeCorrect == Spec => []TypeOK
<1>1. Inv => TypeOK
  BY DEF Inv
<1>2. QED
  BY <1>1, InvHolds, PTL

(* An id that an answer or an event handed out finds its message and no      *)
(* other, for ever and whichever back end comes first; -1 finds none.        *)
THEOREM IdsHold == Spec => []IdsStayGood
<1>1. Inv => IdsStayGood
  BY GoodIds DEF Inv
<1>2. QED
  BY <1>1, InvHolds, PTL

(* The id of an answer stands for the message sent, or the first part of it, *)
(* in every back end; an answer without one means that some back end lacks   *)
(* whatever the server took.                                                 *)
THEOREM AnswersHold == Spec => []AnswersAreTrue
<1>1. Inv => AnswersAreTrue
  BY DEF Inv
<1>2. QED
  BY <1>1, InvHolds, PTL

(* Only the bot's own messages are recalled from a private chat, and a quick *)
(* operation recalls the message of its event and no other.                  *)
THEOREM RecallIsMeant == Spec => RecallsAreMeant
<1>1. Inv /\ [Next]_vars =>
        [\A m \in ToSet(log) : <<"gone", m>> \in marks' \ marks =>
          /\ m.type = "group" \/ m.from = Self
          /\ todo' # todo => m = Head(todo).on]_vars
  BY Invariance DEF Recalled
<1>2. QED
  BY <1>1, InvHolds, PTL DEF Spec, RecallsAreMeant

=============================================================================
