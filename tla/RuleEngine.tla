----------------------------- MODULE RuleEngine -----------------------------
(***************************************************************************)
(* The robot's group rules: OnGroupMessage and applyGroupRule of           *)
(* qqrobot/qq_robot.go.  Every group message has a handler of its own,     *)
(* which tries the rules in order.  A rule is applied under the lock of    *)
(* that rule, but the bookkeeping of the robot (how often a message was    *)
(* answered, who triggers rules, when a rule fired last) lives in maps     *)
(* shared by all rules, which no lock protects.                            *)
(*                                                                         *)
(* A step ends where another handler can tell the difference: at the lock, *)
(* at a call that blocks and between two accesses of a shared map.  What   *)
(* the group, keyword, at, robot and time-of-day conditions of a rule say  *)
(* of a message is data: Msg[m].hits, and Msg[m].editedHits once a repeat  *)
(* rule has edited the message.                                            *)
(***************************************************************************)
EXTENDS Integers, Sequences, FiniteSets

CONSTANTS
    Messages,    \* the group messages, each delivered once
    Msg,         \* Msg[m]: id, group, sender, admin, hits, editedHits,
                 \* timeless, target, qq
    Rules,       \* the sequence of rule configurations
    MaxApply,    \* MaxApply[t]: type_max_apply_count of type t, -1 = no bound
    WarmTypes,   \* the types whose count map exists already
    WarmGroups,  \* the groups whose maps exist already
    StartTime,   \* the clock when the messages start to come in
    MaxTime,     \* bound on the clock
    Nil, Warm    \* no map; a map made before the messages came in

Indices == DOMAIN Rules
Types == {Rules[i].type : i \in Indices}
Names == {Rules[i].name : i \in Indices}
Groups == {Msg[m].group : m \in Messages}
Senders == {Msg[m].sender : m \in Messages}
Qqs == {Msg[m].qq : m \in Messages}
Infinite == -1

Actions == {"guide", "silent", "food", "whitelist", "repeat"}

RuleConfig == [name : STRING, type : STRING, cd : Nat, inCd : BOOLEAN,
               count : Nat, duration : Nat, action : Actions,
               excludeAdmin : BOOLEAN, mutes : BOOLEAN, parseMute : BOOLEAN]

ASSUME RuleAssumption ==
    /\ Rules \in Seq(RuleConfig)
    /\ Len(Rules) > 0
    /\ \A m \in Messages :
         /\ Msg[m].hits \subseteq Indices
         /\ Msg[m].editedHits \subseteq Indices
         /\ Msg[m].admin \in BOOLEAN
         /\ Msg[m].timeless \in BOOLEAN
    /\ MaxApply \in [Types -> Nat \cup {Infinite}]
    /\ StartTime \in Nat
    /\ MaxTime \in Nat
    /\ StartTime <= MaxTime
    /\ \A i \in Indices : Rules[i].cd <= StartTime
    /\ Nil \notin Messages
    /\ Warm \notin Messages
    /\ Nil # Warm

VARIABLES
    now,        \* the clock, in seconds
    alive,      \* the process was not killed by the Go runtime
    pc,         \* pc[m]: where the handler of m is
    at,         \* at[m]: the rule it tries
    lock,       \* lock[i]: the handler that holds the Locker of rule i, or Nil
    exclude,    \* exclude[i]: Config.ExcludeQQs of rule i
    processed,  \* processed[i]: ProcessedMessages of rule i
    countsOf,   \* countsOf[t]: who made the current count map of type t
    counts,     \* counts[t][o]: the count map of type t made by o
    trigOf,     \* trigOf[g]: who made the current trigger map of group g
    trig,       \* trig[g][q]: the times at which q triggered rules in g
    stamped,    \* stamped[g]: the stamp map of group g exists
    stamp,      \* stamp[g][n]: when rule n fired last in g, 0 if it did not
    begun,      \* begun[m]: nowUnix
    failed,     \* failed[m]: GetMemberInfo returned an error
    white,      \* white[m]: ExcludeQQs as copied with the configuration
    held,       \* held[m]: messageApplyCount, by its maker
    from,       \* from[m]: the trigger map the handler is appending to
    list,       \* list[m]: the trigger times it read
    edited,     \* edited[m]: a repeat rule replaced the first line of m
    passes,     \* history: the records of the triggers that passed the gate
    sent,       \* history: the replies that were sent, as <<m, i>>
    muted,      \* history: the mutings that were asked for, as <<m, i>>
    applied,    \* history: the rules applied to the end, as <<m, i>>
    uncounted,  \* history: those of them whose count was lost with its map
    unstamped   \* history: the passes whose stamp was lost with its map

robot == <<countsOf, counts, trigOf, trig, stamped, stamp>>
local == <<begun, failed, white, held, from, list, edited>>
history == <<passes, sent, muted, applied, uncounted, unstamped>>
vars == <<now, alive, pc, at, lock, exclude, processed, robot, local, history>>

Owners == Messages \cup {Warm}

Init ==
    /\ now = StartTime
    /\ alive = TRUE
    /\ pc = [m \in Messages |-> "idle"]
    /\ at = [m \in Messages |-> 1]
    /\ lock = [i \in Indices |-> Nil]
    /\ exclude = [i \in Indices |-> {}]
    /\ processed = [i \in Indices |-> {}]
    /\ countsOf = [t \in Types |-> IF t \in WarmTypes THEN Warm ELSE Nil]
    /\ counts = [t \in Types |-> [o \in Owners |-> [m \in Messages |-> 0]]]
    /\ trigOf = [g \in Groups |-> IF g \in WarmGroups THEN Warm ELSE Nil]
    /\ trig = [g \in Groups |-> [q \in Senders |-> <<>>]]
    /\ stamped = [g \in Groups |-> g \in WarmGroups]
    /\ stamp = [g \in Groups |-> [n \in Names |-> 0]]
    /\ begun = [m \in Messages |-> 0]
    /\ failed = [m \in Messages |-> FALSE]
    /\ white = [m \in Messages |-> {}]
    /\ held = [m \in Messages |-> Nil]
    /\ from = [m \in Messages |-> Nil]
    /\ list = [m \in Messages |-> <<>>]
    /\ edited = [m \in Messages |-> FALSE]
    /\ passes = {}
    /\ sent = {}
    /\ muted = {}
    /\ applied = {}
    /\ uncounted = {}
    /\ unstamped = {}

-----------------------------------------------------------------------------
Rule(m) == Rules[at[m]]
Group(m) == Msg[m].group
Sender(m) == Msg[m].sender

\* isAdmin: a sender whose member info could not be had is taken for a member.
IsAdmin(m) == Msg[m].admin /\ ~failed[m]

Goto(m, label) == pc' = [pc EXCEPT ![m] = label]

\* applyGroupRule returns and unlocks; OnGroupMessage goes on or stops.
Leave(m, stop) ==
    /\ lock' = [lock EXCEPT ![at[m]] = Nil]
    /\ at' = [at EXCEPT ![m] = @ + 1]
    /\ Goto(m, IF stop \/ at[m] = Len(Rules) THEN "done" ELSE "enter")

\* A handler goes on while the process lives.
At(m, label) == alive /\ pc[m] = label

-----------------------------------------------------------------------------
\* The client delivers m: OnGroupMessage begins with the first rule.
Deliver(m) ==
    /\ At(m, "idle")
    /\ Goto(m, "enter")
    /\ UNCHANGED <<now, alive, at, lock, exclude, processed, robot, local,
                   history>>

\* A slip of Enter: several handlers may hold the lock (as with RLock).
EnterShared(m) ==
    /\ At(m, "enter")
    /\ lock' = [lock EXCEPT ![at[m]] = m]
    /\ begun' = [begun EXCEPT ![m] = now]
    /\ white' = [white EXCEPT ![m] = exclude[at[m]]]
    /\ Goto(m, "info")
    /\ UNCHANGED <<now, alive, at, exclude, processed, robot, failed, held,
                   from, list, edited, history>>

\* rule.Locker.Lock(), the copy of the configuration and nowUnix.
Enter(m) ==
    /\ At(m, "enter")
    /\ lock[at[m]] = Nil
    /\ lock' = [lock EXCEPT ![at[m]] = m]
    /\ begun' = [begun EXCEPT ![m] = now]
    /\ white' = [white EXCEPT ![m] = exclude[at[m]]]
    /\ Goto(m, "info")
    /\ UNCHANGED <<now, alive, at, exclude, processed, robot, failed, held,
                   from, list, edited, history>>

\* GetMemberInfo asks the server, which may fail.
GetMemberInfo(m) ==
    /\ At(m, "info")
    /\ \E error \in BOOLEAN : failed' = [failed EXCEPT ![m] = error]
    /\ Goto(m, "judge")
    /\ UNCHANGED <<now, alive, at, lock, exclude, processed, robot, begun,
                   white, held, from, list, edited, history>>

\* The sender triggered at least count rules in the last duration seconds.
TriggerTooOften(m) ==
    LET recent == {k \in DOMAIN trig[Group(m)][Sender(m)] :
                     trig[Group(m)][Sender(m)][k] >= now - Rule(m).duration}
    IN  Cardinality(recent) >= Rule(m).count

Limited(rule) == rule.count # 0 /\ rule.duration # 0

Selected(m) ==
    /\ at[m] \in IF edited[m] THEN Msg[m].editedHits ELSE Msg[m].hits
    /\ Limited(Rule(m)) => TriggerTooOften(m)
    /\ Sender(m) \notin white[m]
    /\ ~(Rule(m).excludeAdmin /\ IsAdmin(m))

\* The conditions up to the robot list: the rule is not for m, or it may be.
Judge(m) ==
    /\ At(m, "judge")
    /\ IF Selected(m)
       THEN Goto(m, "counts") /\ UNCHANGED <<at, lock>>
       ELSE Leave(m, FALSE)
    /\ UNCHANGED <<now, alive, exclude, processed, robot, local, history>>

\* The count map of the type is looked up; a handler that finds none is
\* about to make one, and nothing keeps another one from doing the same.  What
\* was counted in the map that the later one replaces is lost.
LookupCounts(m) ==
    /\ At(m, "counts")
    /\ held' = [held EXCEPT ![m] = countsOf[Rule(m).type]]
    /\ Goto(m, IF held'[m] = Nil THEN "makecounts" ELSE "gate")
    /\ UNCHANGED <<now, alive, at, lock, exclude, processed, robot, begun,
                   failed, white, from, list, edited, history>>

MakeCounts(m) ==
    /\ At(m, "makecounts")
    /\ held' = [held EXCEPT ![m] = m]
    /\ countsOf' = [countsOf EXCEPT ![Rule(m).type] = m]
    /\ uncounted' = uncounted \cup
         {a \in applied : Rules[a[2]].type = Rule(m).type}
    /\ Goto(m, "gate")
    /\ UNCHANGED <<now, alive, at, lock, exclude, processed, counts, trigOf,
                   trig, stamped, stamp, begun, failed, white, from, list,
                   edited, passes, sent, muted, applied, unstamped>>

\* A slip of AppliedEnough: > where the code has >=.
AppliedMore(m) ==
    /\ MaxApply[Rule(m).type] # Infinite
    /\ counts[Rule(m).type][held[m]][m] > MaxApply[Rule(m).type]

AppliedEnough(m) ==
    /\ MaxApply[Rule(m).type] # Infinite
    /\ counts[Rule(m).type][held[m]][m] >= MaxApply[Rule(m).type]

\* A slip of InCd: the last second of the CD does not count.
InCdShort(m) ==
    /\ Rule(m).cd # 0
    /\ begun[m] + 1 < stamp[Group(m)][Rule(m).name] + Rule(m).cd

InCd(m) ==
    /\ Rule(m).cd # 0
    /\ begun[m] < stamp[Group(m)][Rule(m).name] + Rule(m).cd

\* The two limits: applications of the type to this message, and the CD.
Gate(m) ==
    /\ At(m, "gate")
    /\ IF AppliedEnough(m) \/ (InCd(m) /\ ~Rule(m).inCd)
       THEN Leave(m, FALSE) /\ UNCHANGED passes
       ELSE /\ passes' = passes \cup
                 {[msg |-> m, rule |-> at[m], time |-> begun[m],
                   inCd |-> InCd(m)]}
            /\ Goto(m, "trig")
            /\ UNCHANGED <<at, lock>>
    /\ UNCHANGED <<now, alive, exclude, processed, robot, local, sent, muted,
                   applied, uncounted, unstamped>>

\* The time of the trigger goes into the list of its sender.
LookupTriggers(m) ==
    /\ At(m, "trig")
    /\ Goto(m, IF trigOf[Group(m)] = Nil THEN "maketrig" ELSE "readtrig")
    /\ UNCHANGED <<now, alive, at, lock, exclude, processed, robot, local,
                   history>>

MakeTriggers(m) ==
    /\ At(m, "maketrig")
    /\ trigOf' = [trigOf EXCEPT ![Group(m)] = m]
    /\ trig' = [trig EXCEPT ![Group(m)] = [q \in Senders |-> <<>>]]
    /\ Goto(m, "readtrig")
    /\ UNCHANGED <<now, alive, at, lock, exclude, processed, countsOf, counts,
                   stamped, stamp, local, history>>

\* A slip of ReadTriggers: nowUnix, taken before GetMemberInfo, is recorded.
ReadTriggersBegun(m) ==
    /\ At(m, "readtrig")
    /\ from' = [from EXCEPT ![m] = trigOf[Group(m)]]
    /\ list' = [list EXCEPT ![m] =
                   Append(trig[Group(m)][Sender(m)], begun[m])]
    /\ Goto(m, "writetrig")
    /\ UNCHANGED <<now, alive, at, lock, exclude, processed, robot, begun,
                   failed, white, held, edited, history>>

ReadTriggers(m) ==
    /\ At(m, "readtrig")
    /\ from' = [from EXCEPT ![m] = trigOf[Group(m)]]
    /\ list' = [list EXCEPT ![m] = Append(trig[Group(m)][Sender(m)], now)]
    /\ Goto(m, "writetrig")
    /\ UNCHANGED <<now, alive, at, lock, exclude, processed, robot, begun,
                   failed, white, held, edited, history>>

\* The write is lost in a map that was replaced meanwhile.
WriteTriggers(m) ==
    /\ At(m, "writetrig")
    /\ trig' = IF trigOf[Group(m)] = from[m]
               THEN [trig EXCEPT ![Group(m)][Sender(m)] = list[m]]
               ELSE trig
    /\ Goto(m, "stamp")
    /\ UNCHANGED <<now, alive, at, lock, exclude, processed, countsOf, counts,
                   trigOf, stamped, stamp, local, history>>

\* The stamp of its rule is as late as the trigger p.
InStamp(p) == p.time <= stamp[Group(p.msg)][Rules[p.rule].name]

\* The time goes into the stamp of the rule, in or out of its CD.
LookupStamps(m) ==
    /\ At(m, "stamp")
    /\ Goto(m, IF stamped[Group(m)] THEN "writestamp" ELSE "makestamp")
    /\ UNCHANGED <<now, alive, at, lock, exclude, processed, robot, local,
                   history>>

\* The map is made even if another handler has made one meanwhile: the stamps
\* in that one are gone.
MakeStamps(m) ==
    /\ At(m, "makestamp")
    /\ stamped' = [stamped EXCEPT ![Group(m)] = TRUE]
    /\ stamp' = [stamp EXCEPT ![Group(m)] = [n \in Names |-> 0]]
    /\ unstamped' = unstamped \cup
         {p \in passes : Group(p.msg) = Group(m) /\ InStamp(p)}
    /\ Goto(m, "writestamp")
    /\ UNCHANGED <<now, alive, at, lock, exclude, processed, countsOf, counts,
                   trigOf, trig, local, passes, sent, muted, applied,
                   uncounted>>

WriteStamp(m) ==
    /\ At(m, "writestamp")
    /\ stamp' = [stamp EXCEPT ![Group(m)][Rule(m).name] = begun[m]]
    /\ Goto(m, "act")
    /\ UNCHANGED <<now, alive, at, lock, exclude, processed, countsOf, counts,
                   trigOf, trig, stamped, local, history>>

-----------------------------------------------------------------------------
\* parseMuteTime finds no duration: the message does not want to be muted.
GiveUp(m) ==
    /\ At(m, "act")
    /\ Rule(m).parseMute /\ Msg[m].timeless
    /\ Leave(m, FALSE)
    /\ UNCHANGED <<now, alive, exclude, processed, robot, local, history>>

Acting(m, action) ==
    /\ At(m, "act")
    /\ ~(Rule(m).parseMute /\ Msg[m].timeless)
    /\ Rule(m).action = action

\* The actions that change nothing of the robot before the reply.
Compose(m) ==
    /\ Acting(m, "guide") \/ Acting(m, "silent")
    /\ Goto(m, "send")
    /\ UNCHANGED <<now, alive, at, lock, exclude, processed, robot, local,
                   history>>

\* For an admin the message goes to other groups, its first line replaced in
\* place: the rules that follow look at what is left of it.
Repeat(m) ==
    /\ Acting(m, "repeat")
    /\ edited' = [edited EXCEPT ![m] = @ \/ IsAdmin(m)]
    /\ Goto(m, "send")
    /\ UNCHANGED <<now, alive, at, lock, exclude, processed, robot, begun,
                   failed, white, held, from, list, history>>

\* A slip of CreateFood: the unlock is not deferred.
CreateFoodKeepsLock(m) ==
    /\ Acting(m, "food")
    /\ \/ Goto(m, "send") /\ UNCHANGED <<at, lock>>
       \/ Goto(m, "done") /\ UNCHANGED <<at, lock>>
    /\ UNCHANGED <<now, alive, exclude, processed, robot, local, history>>

\* createFoodMessage returns nil with its error and the handler reads the
\* elements of that: the panic unlocks the rule and ends the handler.
CreateFood(m) ==
    /\ Acting(m, "food")
    /\ \/ Goto(m, "send") /\ UNCHANGED <<at, lock>>
       \/ Leave(m, TRUE)
    /\ UNCHANGED <<now, alive, exclude, processed, robot, local, history>>

\* processCommand appends to ExcludeQQs of every rule of that name, whoever
\* holds their locks.
AddWhiteList(m) ==
    /\ Acting(m, "whitelist")
    /\ exclude' = [i \in Indices |->
                     IF Rules[i].name = Msg[m].target
                     THEN exclude[i] \cup {Msg[m].qq} ELSE exclude[i]]
    /\ Goto(m, "send")
    /\ UNCHANGED <<now, alive, at, lock, processed, robot, local, history>>

\* The reply has elements: a repeated message is not answered where it came
\* from, and a message id seen before is always commented upon.
HasReply(m) ==
    \/ Rule(m).action \in {"guide", "food", "whitelist"}
    \/ Rule(m).action = "repeat" /\ ~IsAdmin(m)
    \/ Msg[m].id \in processed[at[m]]

Send(m) ==
    /\ At(m, "send")
    /\ sent' = IF HasReply(m) THEN sent \cup {<<m, at[m]>>} ELSE sent
    /\ Goto(m, "finish")
    /\ UNCHANGED <<now, alive, at, lock, exclude, processed, robot, local,
                   passes, muted, applied, uncounted, unstamped>>

\* "return err" gives the error of GetMemberInfo: only where that failed too
\* does OnGroupMessage drop the remaining rules.
SendFails(m) ==
    /\ At(m, "send")
    /\ HasReply(m)
    /\ Leave(m, failed[m])
    /\ UNCHANGED <<now, alive, exclude, processed, robot, local, history>>

\* The count goes up in the map that was looked up before the gate, whether or
\* not it still is the map of the type.
Count(m) ==
    /\ applied' = applied \cup {<<m, at[m]>>}
    /\ counts' = [counts EXCEPT ![Rule(m).type][held[m]][m] = @ + 1]
    /\ uncounted' = IF held[m] = countsOf[Rule(m).type] THEN uncounted
                    ELSE uncounted \cup {<<m, at[m]>>}

\* A slip of Finish: the mute does not ask whether the member info was there.
FinishMutes(m) ==
    /\ At(m, "finish")
    /\ muted' = IF Rule(m).mutes \/ Rule(m).parseMute
                THEN muted \cup {<<m, at[m]>>} ELSE muted
    /\ Count(m)
    /\ processed' = [processed EXCEPT ![at[m]] = @ \cup {Msg[m].id}]
    /\ Leave(m, FALSE)
    /\ UNCHANGED <<now, alive, exclude, countsOf, trigOf, trig, stamped,
                   stamp, local, passes, sent, unstamped>>

\* After the reply: recall, mute and forward, then the count and the mark.
Finish(m) ==
    /\ At(m, "finish")
    /\ muted' = IF (Rule(m).mutes \/ Rule(m).parseMute) /\ ~failed[m]
                THEN muted \cup {<<m, at[m]>>} ELSE muted
    /\ Count(m)
    /\ processed' = [processed EXCEPT ![at[m]] = @ \cup {Msg[m].id}]
    /\ Leave(m, FALSE)
    /\ UNCHANGED <<now, alive, exclude, countsOf, trigOf, trig, stamped,
                   stamp, local, passes, sent, unstamped>>

-----------------------------------------------------------------------------
\* The shared data without a lock that the next step of a handler reads and
\* writes: maps, and the white lists a command appends to.
Reads(m) ==
    LET trigOfGroup == <<"trig", Group(m), trigOf[Group(m)]>> IN
    CASE pc[m] = "enter" /\ lock[at[m]] = Nil -> {<<"exclude", at[m]>>}
      [] pc[m] = "judge" /\ Limited(Rule(m)) -> {<<"trig">>, trigOfGroup}
      [] pc[m] = "counts"     -> {<<"counts">>}
      [] pc[m] = "gate"       -> {<<"counts", Rule(m).type, held[m]>>,
                                  <<"stamp">>, <<"stamp", Group(m)>>}
      [] pc[m] = "trig"       -> {<<"trig">>}
      [] pc[m] = "readtrig"   -> {<<"trig">>, trigOfGroup}
      [] pc[m] = "stamp"      -> {<<"stamp">>}
      [] pc[m] = "writestamp" -> {<<"stamp">>}
      [] OTHER                -> {}

Writes(m) ==
    CASE pc[m] = "makecounts" -> {<<"counts">>}
      [] pc[m] = "maketrig"   -> {<<"trig">>}
      [] pc[m] = "writetrig"  -> {<<"trig", Group(m), from[m]>>}
      [] pc[m] = "makestamp"  -> {<<"stamp">>}
      [] pc[m] = "writestamp" -> {<<"stamp", Group(m)>>}
      [] pc[m] = "act" /\ Acting(m, "whitelist") ->
           {<<"exclude", i>> : i \in {j \in Indices :
                                       Rules[j].name = Msg[m].target}}
      [] pc[m] = "finish"     -> {<<"counts", Rule(m).type, held[m]>>}
      [] OTHER                -> {}

Conflict(m, n) == Writes(m) \cap (Reads(n) \cup Writes(n)) # {}

\* The Go runtime kills the process that uses a map while it is written, and a
\* slice that is copied while it is written may point anywhere.
FatalAccess ==
    /\ alive
    /\ \E m, n \in Messages : m # n /\ Conflict(m, n)
    /\ alive' = FALSE
    /\ UNCHANGED <<now, pc, at, lock, exclude, processed, robot, local,
                   history>>

Tick ==
    /\ alive
    /\ now < MaxTime
    /\ now' = now + 1
    /\ UNCHANGED <<alive, pc, at, lock, exclude, processed, robot, local,
                   history>>

Account(m) ==
    \/ LookupCounts(m) \/ MakeCounts(m) \/ Gate(m)
    \/ LookupTriggers(m) \/ MakeTriggers(m) \/ ReadTriggers(m)
    \/ WriteTriggers(m)
    \/ LookupStamps(m) \/ MakeStamps(m) \/ WriteStamp(m)

Answer(m) ==
    \/ GiveUp(m) \/ Compose(m) \/ Repeat(m) \/ CreateFood(m)
    \/ AddWhiteList(m) \/ Send(m) \/ SendFails(m) \/ Finish(m)

Apply(m) == GetMemberInfo(m) \/ Judge(m) \/ Account(m) \/ Answer(m)

Next ==
    \/ \E m \in Messages : Deliver(m) \/ Enter(m) \/ Apply(m)
    \/ FatalAccess
    \/ Tick

Spec == Init /\ [][Next]_vars

(***************************************************************************)
(* Goroutines that can run are run and requests to the server come back    *)
(* with an answer or an error.  A free lock is taken by one of the handlers*)
(* that wait for it; nothing is assumed about which.                       *)
(***************************************************************************)
Fairness == \A m \in Messages : WF_vars(Enter(m) \/ Apply(m))

FairSpec == Spec /\ Fairness
-----------------------------------------------------------------------------
Labels == {"idle", "enter", "info", "judge", "counts", "makecounts", "gate",
           "trig", "maketrig", "readtrig", "writetrig", "stamp", "makestamp",
           "writestamp", "act", "send", "finish", "done"}

Inside(m) == pc[m] \notin {"idle", "enter", "done"}

TypeOK ==
    /\ now \in StartTime .. MaxTime
    /\ alive \in BOOLEAN
    /\ pc \in [Messages -> Labels]
    /\ at \in [Messages -> 1 .. Len(Rules) + 1]
    /\ \A m \in Messages : pc[m] # "done" => at[m] \in Indices
    /\ lock \in [Indices -> Messages \cup {Nil}]
    /\ exclude \in [Indices -> SUBSET Qqs]
    /\ processed \in [Indices -> SUBSET {Msg[m].id : m \in Messages}]
    /\ countsOf \in [Types -> Owners \cup {Nil}]
    /\ counts \in [Types -> [Owners -> [Messages -> Nat]]]
    /\ trigOf \in [Groups -> Owners \cup {Nil}]
    /\ trig \in [Groups -> [Senders -> Seq(StartTime .. MaxTime)]]
    /\ stamped \in [Groups -> BOOLEAN]
    /\ stamp \in [Groups -> [Names -> {0} \cup StartTime .. MaxTime]]
    /\ begun \in [Messages -> {0} \cup StartTime .. MaxTime]
    /\ failed \in [Messages -> BOOLEAN]
    /\ white \in [Messages -> SUBSET Qqs]
    /\ held \in [Messages -> Owners \cup {Nil}]
    /\ from \in [Messages -> Owners \cup {Nil}]
    /\ list \in [Messages -> Seq(StartTime .. MaxTime)]
    /\ edited \in [Messages -> BOOLEAN]
    /\ passes \subseteq [msg : Messages, rule : Indices,
                         time : StartTime .. MaxTime, inCd : BOOLEAN]
    /\ sent \subseteq Messages \X Indices
    /\ muted \subseteq Messages \X Indices
    /\ applied \subseteq Messages \X Indices
    /\ uncounted \subseteq applied
    /\ unstamped \subseteq passes

\* The rules of type t that replied to m or were applied to it, but for those
\* whose count was lost.
Answered(m, t) ==
    {i \in Indices : Rules[i].type = t /\ <<m, i>> \in sent \cup applied
                     /\ <<m, i>> \notin uncounted}

\* type_max_apply_count: no message is answered by more rules of a type, from
\* the first message on.  All that may be left out are the answers counted in
\* a map that a handler replaced which had looked before there was one.
MaxApplyRespected ==
    \A m \in Messages, t \in Types :
        MaxApply[t] # Infinite =>
            Cardinality(Answered(m, t)) <= MaxApply[t]

\* Two triggers of a rule in a group that were not taken to be inside its CD
\* are at least the CD apart.
Spaced(p, q) ==
    /\ p.rule = q.rule /\ p.msg # q.msg
    /\ Group(p.msg) = Group(q.msg)
    /\ ~p.inCd /\ ~q.inCd
    /\ p.time <= q.time
    => q.time - p.time >= Rules[p.rule].cd

\* cd, as the configuration explains it: every two triggers.
CdSpacing == \A p, q \in passes : Spaced(p, q)

\* cd, as the code keeps it from the first message on, although the time is
\* taken before a call that may block and the stamp is written after it: all
\* that may come too early is a trigger after one whose stamp was in a map
\* that another handler replaced.
CdUnlessLost == \A p, q \in passes \ unstamped : Spaced(p, q)

\* The trigger times of a sender stay sorted, as sort.Search needs them, even
\* where concurrent handlers overwrite each other's entry.
TriggersSorted ==
    \A g \in Groups, q \in Senders :
        \A k \in 2 .. Len(trig[g][q]) : trig[g][q][k - 1] <= trig[g][q][k]

\* A failed GetMemberInfo makes an admin look like a member; a rule that
\* excludes admins then answers, but still never mutes one.
AdminNeverMuted ==
    \A m \in Messages, i \in Indices :
        <<m, i>> \in muted /\ Rules[i].excludeAdmin => ~Msg[m].admin

\* The state inside a rule (ProcessedMessages, the foods, the CD check and its
\* stamp) is used by one handler at a time, although the lock is held across
\* calls that block and a handler may die of a panic inside.
OneHandlerPerRule ==
    \A m, n \in Messages :
        m # n /\ Inside(m) /\ Inside(n) => at[m] # at[n]

\* Every message gets through all its rules or is given up, unless the runtime
\* kills the process.
MessageHandled ==
    \A m \in Messages : pc[m] # "idle" ~> pc[m] = "done" \/ ~alive

=============================================================================
