-------------------------- MODULE RuleEngineProofs --------------------------
(***************************************************************************)
(* Theorems about RuleEngine, for every number of messages and rules.      *)
(***************************************************************************)
EXTENDS RuleEngine, SequenceTheorems, FiniteSetTheorems, TLAPS

\* What every handler step needs to know of its rule.
LEMMA RuleProperties ==
    ASSUME TypeOK, NEW m \in Messages, pc[m] # "done"
    PROVE  /\ at[m] \in Indices
           /\ Rule(m) \in RuleConfig
           /\ Rule(m).type \in Types
           /\ Rule(m).name \in Names
           /\ Group(m) \in Groups
           /\ Sender(m) \in Senders
<1>1. at[m] \in Indices
  BY DEF TypeOK
<1>2. Rules \in [1 .. Len(Rules) -> RuleConfig] /\ Indices = 1 .. Len(Rules)
  BY RuleAssumption, LenProperties DEF Indices
<1>3. Rule(m) \in RuleConfig
  BY <1>1, <1>2 DEF Rule
<1>4. QED
  BY <1>1, <1>3 DEF Rule, Types, Names, Group, Groups, Sender, Senders

\* Leaving a rule keeps the types of the control state.
LEMMA LeaveType ==
    ASSUME TypeOK, NEW m \in Messages, pc[m] # "done", NEW stop \in BOOLEAN,
           Leave(m, stop)
    PROVE  /\ pc' \in [Messages -> Labels]
           /\ at' \in [Messages -> 1 .. Len(Rules) + 1]
           /\ \A n \in Messages : pc'[n] # "done" => at'[n] \in Indices
           /\ lock' \in [Indices -> Messages \cup {Nil}]
<1>1. Indices = 1 .. Len(Rules) /\ Len(Rules) \in Nat
  BY RuleAssumption, LenProperties DEF Indices
<1>2. at[m] \in 1 .. Len(Rules)
  BY <1>1 DEF TypeOK
<1>3. at' \in [Messages -> 1 .. Len(Rules) + 1]
  BY <1>1, <1>2 DEF Leave, TypeOK
<1>4. pc' \in [Messages -> Labels]
  BY DEF Leave, Goto, TypeOK, Labels
<1>5. ASSUME NEW n \in Messages, pc'[n] # "done"
      PROVE  at'[n] \in Indices
  <2>1. CASE n = m
    <3>1. at[m] # Len(Rules)
      BY <1>5, <2>1 DEF Leave, Goto, TypeOK
    <3>2. at'[m] = at[m] + 1
      BY DEF Leave, TypeOK
    <3>3. QED
      BY <1>1, <1>2, <2>1, <3>1, <3>2
  <2>2. CASE n # m
    BY <1>5, <2>2 DEF Leave, Goto, TypeOK
  <2>3. QED
    BY <2>1, <2>2
<1>6. lock' \in [Indices -> Messages \cup {Nil}]
  BY DEF Leave, TypeOK
<1>7. QED
  BY <1>3, <1>4, <1>5, <1>6

-----------------------------------------------------------------------------
Counted == {"gate", "trig", "maketrig", "readtrig", "writetrig", "stamp",
            "makestamp", "writestamp", "act", "send", "finish"}
Judged == Counted \cup {"counts", "makecounts"}

\* A handler inside a rule holds its lock and took the time; past the lookup
\* it has a count map; past the conditions it has an admin before it, whose
\* rule excludes admins, only if the member info was missing.
Holding(m) ==
    /\ Inside(m) => lock[at[m]] = m /\ begun[m] \in StartTime .. MaxTime
    /\ pc[m] \in Counted => held[m] \in Owners
    /\ pc[m] \in Judged /\ Rule(m).excludeAdmin /\ Msg[m].admin => failed[m]

IInv ==
    /\ TypeOK
    /\ \A m \in Messages : Holding(m)
    /\ AdminNeverMuted

\* A step within a rule moves to a label that is not the end.
LEMMA GotoType ==
    ASSUME TypeOK, NEW m \in Messages, pc[m] # "done",
           NEW l \in Labels, Goto(m, l)
    PROVE  /\ pc' \in [Messages -> Labels]
           /\ \A n \in Messages : pc'[n] # "done" => at[n] \in Indices
BY DEF Goto, TypeOK

\* A step keeps the types, given IInv.
LEMMA TypeInductive == IInv /\ [Next]_vars => TypeOK'
<1> SUFFICES ASSUME IInv, [Next]_vars
             PROVE  TypeOK'
  OBVIOUS
<1> USE DEF IInv
<1>1. ASSUME NEW m \in Messages, Deliver(m)
      PROVE  TypeOK'
  BY <1>1, GotoType DEF Deliver, At, TypeOK, Labels, robot, local, history
<1>2. ASSUME NEW m \in Messages, Enter(m)
      PROVE  TypeOK'
  BY <1>2, GotoType, RuleProperties DEF Enter, At, TypeOK, Labels, robot, history
<1>3. ASSUME NEW m \in Messages, GetMemberInfo(m)
      PROVE  TypeOK'
  BY <1>3, GotoType DEF GetMemberInfo, At, TypeOK, Labels, robot, history
<1>4. ASSUME NEW m \in Messages, Judge(m)
      PROVE  TypeOK'
  BY <1>4, GotoType, LeaveType DEF Judge, At, TypeOK, Labels, robot, local, history
<1>5. ASSUME NEW m \in Messages, LookupCounts(m)
      PROVE  TypeOK'
  BY <1>5, GotoType, RuleProperties DEF LookupCounts, At, TypeOK, Labels, robot, history
<1>6. ASSUME NEW m \in Messages, MakeCounts(m)
      PROVE  TypeOK'
  BY <1>6, GotoType, RuleProperties DEF MakeCounts, At, TypeOK, Labels, history, Owners
<1>7. ASSUME NEW m \in Messages, Gate(m)
      PROVE  TypeOK'
  <2>1. pc[m] = "gate" /\ at[m] \in Indices
    BY <1>7, RuleProperties DEF Gate, At
  <2>2. begun[m] \in StartTime .. MaxTime
    BY <2>1 DEF Holding, Inside
  <2>3. InCd(m) \in BOOLEAN
    BY DEF InCd
  <2>4. passes' \subseteq [msg : Messages, rule : Indices,
                          time : StartTime .. MaxTime, inCd : BOOLEAN]
    <3> DEFINE pass == [msg |-> m, rule |-> at[m], time |-> begun[m],
                        inCd |-> InCd(m)]
    <3>1. pass \in [msg : Messages, rule : Indices,
                    time : StartTime .. MaxTime, inCd : BOOLEAN]
      BY <2>1, <2>2, <2>3
    <3>2. passes' = passes \/ passes' = passes \cup {pass}
      BY <1>7 DEF Gate
    <3> HIDE DEF pass
    <3>3. QED
      BY <3>1, <3>2 DEF TypeOK
  <2>5. /\ pc' \in [Messages -> Labels]
        /\ at' \in [Messages -> 1 .. Len(Rules) + 1]
        /\ \A n \in Messages : pc'[n] # "done" => at'[n] \in Indices
        /\ lock' \in [Indices -> Messages \cup {Nil}]
    <3>1. CASE Leave(m, FALSE)
      BY <2>1, <3>1, LeaveType
    <3>2. CASE Goto(m, "trig") /\ UNCHANGED <<at, lock>>
      BY <2>1, <3>2, GotoType DEF Labels, TypeOK
    <3>3. QED
      BY <1>7, <3>1, <3>2 DEF Gate
  <2>6. QED
    BY <1>7, <2>4, <2>5 DEF Gate, TypeOK, robot, local
<1>8. ASSUME NEW m \in Messages, LookupTriggers(m)
      PROVE  TypeOK'
  BY <1>8, GotoType DEF LookupTriggers, At, TypeOK, Labels, robot, local, history
<1>9. ASSUME NEW m \in Messages, MakeTriggers(m)
      PROVE  TypeOK'
  BY <1>9, GotoType, RuleProperties, EmptySeq DEF MakeTriggers, At, TypeOK, Labels, local, history, Owners
<1>10. ASSUME NEW m \in Messages, ReadTriggers(m)
      PROVE  TypeOK'
  <2>1. /\ trig[Group(m)][Sender(m)] \in Seq(StartTime .. MaxTime)
        /\ trigOf[Group(m)] \in Owners \cup {Nil}
    BY <1>10, RuleProperties DEF ReadTriggers, At, TypeOK
  <2>2. Append(trig[Group(m)][Sender(m)], now) \in Seq(StartTime .. MaxTime)
    BY <2>1, AppendProperties DEF TypeOK
  <2>3. /\ list' \in [Messages -> Seq(StartTime .. MaxTime)]
        /\ from' \in [Messages -> Owners \cup {Nil}]
    BY <1>10, <2>1, <2>2 DEF ReadTriggers, TypeOK
  <2>4. /\ pc' \in [Messages -> Labels]
        /\ \A n \in Messages : pc'[n] # "done" => at[n] \in Indices
    BY <1>10, GotoType DEF ReadTriggers, At, Labels
  <2>5. QED
    BY <1>10, <2>3, <2>4 DEF ReadTriggers, TypeOK, robot, history
<1>11. ASSUME NEW m \in Messages, WriteTriggers(m)
      PROVE  TypeOK'
  BY <1>11, GotoType, RuleProperties DEF WriteTriggers, At, TypeOK, Labels, local, history
<1>12. ASSUME NEW m \in Messages, LookupStamps(m)
      PROVE  TypeOK'
  BY <1>12, GotoType DEF LookupStamps, At, TypeOK, Labels, robot, local, history
<1>13. ASSUME NEW m \in Messages, MakeStamps(m)
      PROVE  TypeOK'
  BY <1>13, GotoType, RuleProperties DEF MakeStamps, At, TypeOK, Labels, local, history
<1>14. ASSUME NEW m \in Messages, WriteStamp(m)
      PROVE  TypeOK'
  BY <1>14, GotoType, RuleProperties DEF WriteStamp, At, TypeOK, Labels, local, history, Holding, Inside
<1>15. ASSUME NEW m \in Messages, GiveUp(m)
      PROVE  TypeOK'
  BY <1>15, LeaveType DEF GiveUp, At, TypeOK, robot, local, history
<1>16. ASSUME NEW m \in Messages, Compose(m)
      PROVE  TypeOK'
  BY <1>16, GotoType DEF Compose, Acting, At, TypeOK, Labels, robot, local, history
<1>17. ASSUME NEW m \in Messages, Repeat(m)
      PROVE  TypeOK'
  BY <1>17, GotoType, RuleAssumption DEF Repeat, Acting, At, TypeOK, Labels, robot, history, IsAdmin
<1>18. ASSUME NEW m \in Messages, CreateFood(m)
      PROVE  TypeOK'
  BY <1>18, GotoType, LeaveType DEF CreateFood, Acting, At, TypeOK, Labels, robot, local, history
<1>19. ASSUME NEW m \in Messages, AddWhiteList(m)
      PROVE  TypeOK'
  <2>1. exclude' \in [Indices -> SUBSET Qqs]
    BY <1>19 DEF AddWhiteList, TypeOK, Qqs
  <2>2. /\ pc' \in [Messages -> Labels]
        /\ \A n \in Messages : pc'[n] # "done" => at[n] \in Indices
    BY <1>19, GotoType DEF AddWhiteList, Acting, At, Labels
  <2>3. QED
    BY <1>19, <2>1, <2>2 DEF AddWhiteList, TypeOK, robot, local, history
<1>20. ASSUME NEW m \in Messages, Send(m)
      PROVE  TypeOK'
  <2>1. sent' \subseteq Messages \X Indices
    BY <1>20, RuleProperties DEF Send, At, TypeOK
  <2>2. /\ pc' \in [Messages -> Labels]
        /\ \A n \in Messages : pc'[n] # "done" => at[n] \in Indices
    BY <1>20, GotoType DEF Send, At, Labels
  <2>3. QED
    BY <1>20, <2>1, <2>2 DEF Send, TypeOK, robot, local
<1>21. ASSUME NEW m \in Messages, SendFails(m)
      PROVE  TypeOK'
  BY <1>21, LeaveType DEF SendFails, At, TypeOK, robot, local, history
<1>22. ASSUME NEW m \in Messages, Finish(m)
      PROVE  TypeOK'
  <2>1. /\ pc[m] = "finish" /\ at[m] \in Indices /\ held[m] \in Owners
        /\ Rule(m).type \in Types
    BY <1>22, RuleProperties DEF Finish, At, Holding, Counted
  <2>2. counts' \in [Types -> [Owners -> [Messages -> Nat]]]
    <3> DEFINE t == Rule(m).type
               o == held[m]
    <3>1. counts[t][o][m] + 1 \in Nat
      BY <2>1 DEF TypeOK
    <3>2. [counts[t][o] EXCEPT ![m] = @ + 1] \in [Messages -> Nat]
      BY <2>1, <3>1 DEF TypeOK
    <3>3. [counts[t] EXCEPT ![o] = [counts[t][o] EXCEPT ![m] = @ + 1]]
            \in [Owners -> [Messages -> Nat]]
      BY <2>1, <3>2 DEF TypeOK
    <3>4. counts' = [counts EXCEPT ![t] =
                       [counts[t] EXCEPT ![o] =
                          [counts[t][o] EXCEPT ![m] = @ + 1]]]
      BY <1>22 DEF Finish, Count
    <3>5. QED
      BY <2>1, <3>3, <3>4 DEF TypeOK
  <2>3. /\ muted' \subseteq Messages \X Indices
        /\ applied' \subseteq Messages \X Indices
        /\ uncounted' \subseteq applied'
        /\ processed' \in [Indices -> SUBSET {Msg[n].id : n \in Messages}]
    BY <1>22, <2>1 DEF Finish, Count, TypeOK
  <2>4. /\ pc' \in [Messages -> Labels]
        /\ at' \in [Messages -> 1 .. Len(Rules) + 1]
        /\ \A n \in Messages : pc'[n] # "done" => at'[n] \in Indices
        /\ lock' \in [Indices -> Messages \cup {Nil}]
    BY <1>22, <2>1, LeaveType DEF Finish
  <2>5. QED
    BY <1>22, <2>2, <2>3, <2>4 DEF Finish, TypeOK, local
<1>23. CASE FatalAccess
  BY <1>23 DEF FatalAccess, TypeOK, robot, local, history
<1>24. CASE Tick
  BY <1>24, RuleAssumption DEF Tick, TypeOK, robot, local, history
<1>25. CASE UNCHANGED vars
  BY <1>25 DEF vars, TypeOK, robot, local, history
<1>26. ASSUME NEW m \in Messages, Account(m)
       PROVE  TypeOK'
  BY <1>5, <1>6, <1>7, <1>8, <1>9, <1>10, <1>11, <1>12, <1>13, <1>14, <1>26
     DEF Account
<1>27. ASSUME NEW m \in Messages, Answer(m)
       PROVE  TypeOK'
  BY <1>15, <1>16, <1>17, <1>18, <1>19, <1>20, <1>21, <1>22, <1>27 DEF Answer
<1>28. ASSUME NEW m \in Messages, Deliver(m) \/ Enter(m) \/ Apply(m)
       PROVE  TypeOK'
  BY <1>1, <1>2, <1>3, <1>4, <1>26, <1>27, <1>28 DEF Apply
<1>29. CASE Next
  BY <1>23, <1>24, <1>28, <1>29 DEF Next
<1>30. QED
  BY <1>25, <1>29

-----------------------------------------------------------------------------
\* A step of m leaves alone what the invariant says of another handler: it
\* only touches the lock of its own rule, which no other handler holds.
LEMMA Others ==
    ASSUME IInv, NEW m \in Messages, NEW n \in Messages, n # m,
           at[m] \in Indices, lock[at[m]] \in {m, Nil},
           pc'[n] = pc[n], at'[n] = at[n], begun'[n] = begun[n],
           held'[n] = held[n], failed'[n] = failed[n],
           \A i \in Indices : i # at[m] => lock'[i] = lock[i]
    PROVE  Holding(n)'
<1>1. Holding(n) /\ TypeOK
  BY DEF IInv
<1>2. Nil \notin Messages
  BY RuleAssumption
<1>3. CASE Inside(n)
  <2>1. lock[at[n]] = n /\ at[n] \in Indices
    BY <1>1, <1>3 DEF Holding, Inside, TypeOK
  <2>2. at[n] # at[m]
    BY <1>2, <2>1
  <2>3. lock'[at[n]] = n
    BY <2>1, <2>2
  <2>4. QED
    BY <1>1, <2>3 DEF Holding, Inside, Rule
<1>4. CASE ~Inside(n)
  BY <1>1, <1>4 DEF Holding, Inside, Rule
<1>5. QED
  BY <1>3, <1>4

\* A handler that left its rule holds nothing.
LEMMA LeftHolding ==
    ASSUME IInv, NEW m \in Messages, Inside(m), NEW stop \in BOOLEAN,
           Leave(m, stop), UNCHANGED <<begun, held, failed>>
    PROVE  \A n \in Messages : Holding(n)'
<1>1. at[m] \in Indices /\ lock[at[m]] = m
  BY DEF IInv, Holding, Inside, TypeOK
<1>2. Holding(m)'
  <2>1. pc'[m] \in {"done", "enter"}
    BY DEF IInv, TypeOK, Leave, Goto
  <2>2. QED
    BY <2>1 DEF Holding, Inside, Counted, Judged
<1>3. ASSUME NEW n \in Messages, n # m
      PROVE  Holding(n)'
  <2>1. pc'[n] = pc[n] /\ at'[n] = at[n]
    BY <1>3 DEF IInv, TypeOK, Leave, Goto
  <2>2. \A i \in Indices : i # at[m] => lock'[i] = lock[i]
    BY DEF IInv, TypeOK, Leave
  <2>3. QED
    BY <1>1, <1>3, <2>1, <2>2, Others
<1>4. QED
  BY <1>2, <1>3

\* A step within a rule that needs no more than the step before.
LEMMA GoneOnHolding ==
    ASSUME IInv, NEW m \in Messages, Inside(m), NEW l \in Labels, Goto(m, l),
           UNCHANGED <<at, lock, begun, failed>>,
           \A n \in Messages \ {m} : held'[n] = held[n],
           l \notin {"idle", "enter", "done"},
           l \in Counted => held'[m] \in Owners,
           l \in Judged /\ Rule(m).excludeAdmin /\ Msg[m].admin => failed[m]
    PROVE  \A n \in Messages : Holding(n)'
<1>1. at[m] \in Indices /\ lock[at[m]] = m
  BY DEF IInv, Holding, Inside, TypeOK
<1>2. Holding(m)'
  <2>1. pc'[m] = l
    BY DEF IInv, TypeOK, Goto
  <2>2. begun[m] \in StartTime .. MaxTime
    BY DEF IInv, Holding
  <2>3. QED
    BY <1>1, <2>1, <2>2 DEF Holding, Rule
<1>3. ASSUME NEW n \in Messages, n # m
      PROVE  Holding(n)'
  <2>1. pc'[n] = pc[n]
    BY <1>3 DEF IInv, TypeOK, Goto
  <2>2. QED
    BY <1>1, <1>3, <2>1, Others
<1>4. QED
  BY <1>2, <1>3

\* A step keeps what IInv says of each rule's lock.
LEMMA HoldingInductive ==
    IInv /\ [Next]_vars => \A n \in Messages : Holding(n)'
<1> SUFFICES ASSUME IInv, [Next]_vars
             PROVE  \A n \in Messages : Holding(n)'
  OBVIOUS
<1>a. \A m \in Messages : Holding(m)
  BY DEF IInv
<1>b. TypeOK
  BY DEF IInv
<1>1. ASSUME NEW m \in Messages, Deliver(m)
      PROVE  \A n \in Messages : Holding(n)'
  <2>1. pc[m] = "idle" /\ pc' = [pc EXCEPT ![m] = "enter"]
    BY <1>1 DEF Deliver, At, Goto
  <2>2. ASSUME NEW n \in Messages
        PROVE  Holding(n)'
    <3>1. pc'[n] = pc[n] \/ pc'[n] = "enter"
      BY <1>b, <2>1 DEF TypeOK
    <3>2. QED
      BY <1>1, <1>a, <3>1 DEF Deliver, Holding, Inside, Counted, Judged, Rule,
                              local, robot
  <2>3. QED
    BY <2>2
<1>2. ASSUME NEW m \in Messages, Enter(m)
      PROVE  \A n \in Messages : Holding(n)'
  <2>1. /\ pc[m] = "enter" /\ at[m] \in Indices /\ lock[at[m]] = Nil
        /\ at' = at /\ UNCHANGED <<failed, held>>
    BY <1>2, <1>b DEF Enter, At, TypeOK
  <2>2. /\ pc'[m] = "info" /\ lock'[at[m]] = m /\ begun'[m] = now
        /\ now \in StartTime .. MaxTime
    BY <1>2, <1>b, <2>1 DEF Enter, Goto, TypeOK
  <2>3. Holding(m)'
    BY <2>1, <2>2 DEF Holding, Counted, Judged
  <2>4. ASSUME NEW n \in Messages, n # m
        PROVE  Holding(n)'
    <3>1. /\ pc'[n] = pc[n] /\ begun'[n] = begun[n]
          /\ \A i \in Indices : i # at[m] => lock'[i] = lock[i]
      BY <1>2, <1>b, <2>4 DEF Enter, Goto, TypeOK
    <3>2. QED
      BY <2>1, <2>4, <3>1, Others
  <2>5. QED
    BY <2>3, <2>4
<1>3. ASSUME NEW m \in Messages, GetMemberInfo(m)
      PROVE  \A n \in Messages : Holding(n)'
  <2>1. /\ pc[m] = "info" /\ at[m] \in Indices /\ Inside(m)
        /\ UNCHANGED <<at, lock, begun, held>>
    BY <1>3, <1>b DEF GetMemberInfo, At, TypeOK, robot, Inside
  <2>2. pc'[m] = "judge" /\ lock[at[m]] = m /\ begun[m] \in StartTime .. MaxTime
    BY <1>3, <1>a, <1>b, <2>1 DEF GetMemberInfo, Goto, TypeOK, Holding
  <2>3. Holding(m)'
    BY <2>1, <2>2 DEF Holding, Counted, Judged
  <2>4. ASSUME NEW n \in Messages, n # m
        PROVE  Holding(n)'
    <3>1. pc'[n] = pc[n] /\ failed'[n] = failed[n]
      BY <1>3, <1>b, <2>4 DEF GetMemberInfo, Goto, TypeOK
    <3>2. QED
      BY <2>1, <2>2, <2>4, <3>1, Others
  <2>5. QED
    BY <2>3, <2>4
<1>4. ASSUME NEW m \in Messages, Judge(m)
      PROVE  \A n \in Messages : Holding(n)'
  <2>1. pc[m] = "judge" /\ Inside(m) /\ UNCHANGED <<begun, held, failed>>
    BY <1>4 DEF Judge, At, Inside, local
  <2>2. CASE Selected(m)
    <3>1. Rule(m).excludeAdmin /\ Msg[m].admin => failed[m]
      BY <2>2 DEF Selected, IsAdmin
    <3>2. Goto(m, "counts") /\ UNCHANGED <<at, lock>>
      BY <1>4, <2>2 DEF Judge
    <3>3. QED
      BY <2>1, <3>1, <3>2, GoneOnHolding DEF Labels, Counted
  <2>3. CASE ~Selected(m)
    BY <1>4, <2>1, <2>3, LeftHolding DEF Judge
  <2>4. QED
    BY <2>2, <2>3
<1>5. ASSUME NEW m \in Messages, LookupCounts(m)
      PROVE  \A n \in Messages : Holding(n)'
  <2>1. /\ pc[m] = "counts" /\ Inside(m) /\ UNCHANGED <<at, lock, begun, failed>>
        /\ \A n \in Messages \ {m} : held'[n] = held[n]
    BY <1>5, <1>b DEF LookupCounts, At, Inside, TypeOK
  <2>2. Rule(m).excludeAdmin /\ Msg[m].admin => failed[m]
    BY <1>a, <2>1 DEF Holding, Judged
  <2>3. held'[m] \in Owners \cup {Nil}
    BY <1>5, <1>b, <2>1, RuleProperties DEF LookupCounts, TypeOK
  <2>4. CASE held'[m] = Nil
    <3>1. Goto(m, "makecounts")
      BY <1>5, <2>4 DEF LookupCounts
    <3>2. QED
      BY <2>1, <2>2, <3>1, GoneOnHolding DEF Labels, Counted
  <2>5. CASE held'[m] # Nil
    <3>1. Goto(m, "gate")
      BY <1>5, <2>5 DEF LookupCounts
    <3>2. QED
      BY <2>1, <2>2, <2>3, <2>5, <3>1, GoneOnHolding DEF Labels
  <2>6. QED
    BY <2>4, <2>5
<1>6. ASSUME NEW m \in Messages, MakeCounts(m)
      PROVE  \A n \in Messages : Holding(n)'
  <2>1. /\ pc[m] = "makecounts" /\ Inside(m) /\ Goto(m, "gate")
        /\ UNCHANGED <<at, lock, begun, failed>>
        /\ \A n \in Messages \ {m} : held'[n] = held[n]
        /\ held'[m] = m
    BY <1>6, <1>b DEF MakeCounts, At, Inside, TypeOK
  <2>2. Rule(m).excludeAdmin /\ Msg[m].admin => failed[m]
    BY <1>a, <2>1 DEF Holding, Judged
  <2>3. QED
    BY <2>1, <2>2, GoneOnHolding DEF Labels, Owners
\* The steps behind the lookup: the handler leaves the rule or goes on.
<1>7. ASSUME NEW m \in Messages, pc[m] \in Counted,
             UNCHANGED <<begun, held, failed>>,
             \/ \E stop \in BOOLEAN : Leave(m, stop)
             \/ /\ \E l \in Counted : Goto(m, l)
                /\ UNCHANGED <<at, lock>>
      PROVE  \A n \in Messages : Holding(n)'
  <2>1. Inside(m)
    BY <1>7 DEF Inside, Counted
  <2>2. ASSUME NEW stop \in BOOLEAN, Leave(m, stop)
        PROVE  \A n \in Messages : Holding(n)'
    BY <1>7, <2>1, <2>2, LeftHolding
  <2>3. ASSUME NEW l \in Counted, Goto(m, l), UNCHANGED <<at, lock>>
        PROVE  \A n \in Messages : Holding(n)'
    <3>1. /\ held[m] \in Owners
          /\ Rule(m).excludeAdmin /\ Msg[m].admin => failed[m]
      BY <1>7, <1>a DEF Holding, Judged
    <3>2. l \in Labels /\ l \notin {"idle", "enter", "done"}
      BY DEF Labels, Counted
    <3>3. QED
      BY <1>7, <2>1, <2>3, <3>1, <3>2, GoneOnHolding
  <2>4. QED
    BY <1>7, <2>2, <2>3
<1>8. ASSUME NEW m \in Messages, Gate(m)
      PROVE  \A n \in Messages : Holding(n)'
  BY <1>7, <1>8 DEF Gate, At, Counted, local
<1>9. ASSUME NEW m \in Messages, LookupTriggers(m)
      PROVE  \A n \in Messages : Holding(n)'
  BY <1>7, <1>9 DEF LookupTriggers, At, Counted, local
<1>10. ASSUME NEW m \in Messages, MakeTriggers(m)
      PROVE  \A n \in Messages : Holding(n)'
  BY <1>7, <1>10 DEF MakeTriggers, At, Counted, local
<1>11. ASSUME NEW m \in Messages, ReadTriggers(m)
      PROVE  \A n \in Messages : Holding(n)'
  BY <1>7, <1>11 DEF ReadTriggers, At, Counted
<1>12. ASSUME NEW m \in Messages, WriteTriggers(m)
      PROVE  \A n \in Messages : Holding(n)'
  BY <1>7, <1>12 DEF WriteTriggers, At, Counted, local
<1>13. ASSUME NEW m \in Messages, LookupStamps(m)
      PROVE  \A n \in Messages : Holding(n)'
  BY <1>7, <1>13 DEF LookupStamps, At, Counted, local
<1>14. ASSUME NEW m \in Messages, MakeStamps(m)
      PROVE  \A n \in Messages : Holding(n)'
  BY <1>7, <1>14 DEF MakeStamps, At, Counted, local
<1>15. ASSUME NEW m \in Messages, WriteStamp(m)
      PROVE  \A n \in Messages : Holding(n)'
  BY <1>7, <1>15 DEF WriteStamp, At, Counted, local
<1>16. ASSUME NEW m \in Messages, GiveUp(m)
      PROVE  \A n \in Messages : Holding(n)'
  BY <1>7, <1>16 DEF GiveUp, At, Counted, local
<1>17. ASSUME NEW m \in Messages, Compose(m)
      PROVE  \A n \in Messages : Holding(n)'
  BY <1>7, <1>17 DEF Compose, Acting, At, Counted, local
<1>18. ASSUME NEW m \in Messages, Repeat(m)
      PROVE  \A n \in Messages : Holding(n)'
  BY <1>7, <1>18 DEF Repeat, Acting, At, Counted
<1>19. ASSUME NEW m \in Messages, CreateFood(m)
      PROVE  \A n \in Messages : Holding(n)'
  BY <1>7, <1>19 DEF CreateFood, Acting, At, Counted, local
<1>20. ASSUME NEW m \in Messages, AddWhiteList(m)
      PROVE  \A n \in Messages : Holding(n)'
  BY <1>7, <1>20 DEF AddWhiteList, Acting, At, Counted, local
<1>21. ASSUME NEW m \in Messages, Send(m)
      PROVE  \A n \in Messages : Holding(n)'
  BY <1>7, <1>21 DEF Send, At, Counted, local
<1>22. ASSUME NEW m \in Messages, SendFails(m)
      PROVE  \A n \in Messages : Holding(n)'
  BY <1>7, <1>22, <1>b DEF SendFails, At, Counted, local, TypeOK
<1>23. ASSUME NEW m \in Messages, Finish(m)
      PROVE  \A n \in Messages : Holding(n)'
  BY <1>7, <1>23 DEF Finish, At, Counted, local
<1>24. CASE FatalAccess \/ Tick \/ UNCHANGED vars
  <2>1. UNCHANGED <<pc, at, lock, begun, held, failed>>
    BY <1>24 DEF FatalAccess, Tick, vars, local
  <2>2. QED
    BY <1>a, <2>1 DEF Holding, Inside, Rule
<1>25. ASSUME NEW m \in Messages, Account(m)
       PROVE  \A n \in Messages : Holding(n)'
  BY <1>5, <1>6, <1>8, <1>9, <1>10, <1>11, <1>12, <1>13, <1>14, <1>15, <1>25
     DEF Account
<1>26. ASSUME NEW m \in Messages, Answer(m)
       PROVE  \A n \in Messages : Holding(n)'
  BY <1>16, <1>17, <1>18, <1>19, <1>20, <1>21, <1>22, <1>23, <1>26 DEF Answer
<1>27. ASSUME NEW m \in Messages, Deliver(m) \/ Enter(m) \/ Apply(m)
       PROVE  \A n \in Messages : Holding(n)'
  BY <1>1, <1>2, <1>3, <1>4, <1>25, <1>26, <1>27 DEF Apply
<1>28. QED
  BY <1>24, <1>27 DEF Next

\* Only Finish mutes, and only with the member info at hand.
LEMMA MutedInductive == IInv /\ [Next]_vars => AdminNeverMuted'
<1> SUFFICES ASSUME IInv, [Next]_vars
             PROVE  AdminNeverMuted'
  OBVIOUS
<1>1. ASSUME NEW m \in Messages, Finish(m)
      PROVE  AdminNeverMuted'
  <2>1. pc[m] = "finish" /\ Holding(m)
    BY <1>1 DEF Finish, At, IInv
  <2>2. Rules[at[m]].excludeAdmin /\ Msg[m].admin => failed[m]
    BY <2>1 DEF Holding, Judged, Counted, Rule
  <2>3. \/ muted' = muted
        \/ muted' = muted \cup {<<m, at[m]>>} /\ ~failed[m]
    BY <1>1 DEF Finish
  <2>4. QED
    BY <2>2, <2>3 DEF AdminNeverMuted, IInv
<1>2. ASSUME UNCHANGED muted
      PROVE  AdminNeverMuted'
  BY <1>2 DEF AdminNeverMuted, IInv
<1>3. ASSUME NEW m \in Messages, Account(m)
      PROVE  UNCHANGED muted
  BY <1>3 DEF Account, LookupCounts, MakeCounts, Gate, LookupTriggers,
     MakeTriggers, ReadTriggers, WriteTriggers, LookupStamps, MakeStamps,
     WriteStamp, history
<1>4. ASSUME NEW m \in Messages, Answer(m), ~Finish(m)
      PROVE  UNCHANGED muted
  BY <1>4 DEF Answer, GiveUp, Compose, Repeat, CreateFood, AddWhiteList,
     Send, SendFails, history
<1>5. ASSUME NEW m \in Messages, Deliver(m) \/ Enter(m) \/ GetMemberInfo(m)
                                 \/ Judge(m)
      PROVE  UNCHANGED muted
  BY <1>5 DEF Deliver, Enter, GetMemberInfo, Judge, history
<1>6. CASE FatalAccess \/ Tick \/ UNCHANGED vars
  BY <1>2, <1>6 DEF FatalAccess, Tick, vars, history
<1>7. QED
  BY <1>1, <1>2, <1>3, <1>4, <1>5, <1>6 DEF Next, Apply

\* IInv is inductive.
LEMMA Invariance == Spec => []IInv
<1>1. Init => IInv
  <2> SUFFICES ASSUME Init
               PROVE  IInv
    OBVIOUS
  <2>1. Indices = 1 .. Len(Rules) /\ Len(Rules) \in Nat /\ Len(Rules) > 0
    BY RuleAssumption, LenProperties DEF Indices
  <2>2. 1 \in Indices /\ 1 \in 1 .. Len(Rules) + 1
    BY <2>1
  <2>3. <<>> \in Seq(StartTime .. MaxTime) /\ StartTime \in StartTime .. MaxTime
    BY EmptySeq, RuleAssumption
  <2>4. /\ pc \in [Messages -> Labels] /\ at \in [Messages -> 1 .. Len(Rules) + 1]
        /\ \A m \in Messages : pc[m] # "done" => at[m] \in Indices
        /\ lock \in [Indices -> Messages \cup {Nil}]
    BY <2>2 DEF Init, Labels
  <2>5. /\ countsOf \in [Types -> Owners \cup {Nil}]
        /\ counts \in [Types -> [Owners -> [Messages -> Nat]]]
        /\ trigOf \in [Groups -> Owners \cup {Nil}]
        /\ trig \in [Groups -> [Senders -> Seq(StartTime .. MaxTime)]]
        /\ stamped \in [Groups -> BOOLEAN]
        /\ stamp \in [Groups -> [Names -> {0} \cup StartTime .. MaxTime]]
    BY <2>3 DEF Init, Owners
  <2>6. TypeOK
    BY <2>3, <2>4, <2>5 DEF Init, TypeOK, Owners
  <2>7. \A m \in Messages : Holding(m)
    BY DEF Init, Holding, Inside, Counted, Judged
  <2>8. AdminNeverMuted
    BY DEF Init, AdminNeverMuted
  <2>9. QED
    BY <2>6, <2>7, <2>8 DEF IInv
<1>2. IInv /\ [Next]_vars => IInv'
  BY TypeInductive, HoldingInductive, MutedInductive DEF IInv
<1>3. QED
  BY <1>1, <1>2, PTL DEF Spec

\* Every variable keeps its type, and a handler that is not done stands at a
\* rule.
THEOREM TypeCorrect == Spec => []TypeOK
<1>1. IInv => TypeOK
  BY DEF IInv
<1>2. QED
  BY <1>1, Invariance, PTL

\* Two handlers are never inside the same rule, wherever they block or panic.
THEOREM RuleExclusion == Spec => []OneHandlerPerRule
<1>1. IInv => OneHandlerPerRule
  BY DEF IInv, Holding, OneHandlerPerRule
<1>2. QED
  BY <1>1, Invariance, PTL

\* A rule that excludes admins mutes none, although a failed GetMemberInfo
\* makes it answer them.
THEOREM AdminsKeepTheirVoice == Spec => []AdminNeverMuted
<1>1. IInv => AdminNeverMuted
  BY DEF IInv
<1>2. QED
  BY <1>1, Invariance, PTL

-----------------------------------------------------------------------------
\* Trigger times are recorded in order and never lie in the future.
SortedUpTo(s, t) ==
    /\ \A k \in 2 .. Len(s) : s[k - 1] <= s[k]
    /\ \A k \in 1 .. Len(s) : s[k] <= t

Timeline ==
    /\ \A g \in Groups, q \in Senders : SortedUpTo(trig[g][q], now)
    /\ \A m \in Messages : pc[m] = "writetrig" => SortedUpTo(list[m], now)

\* Appending the present keeps a list sorted.
LEMMA AppendSorted ==
    ASSUME NEW t \in Int, NEW s \in Seq(Int), SortedUpTo(s, t)
    PROVE  SortedUpTo(Append(s, t), t)
<1>1. /\ Len(s) \in Nat
      /\ Len(Append(s, t)) = Len(s) + 1
      /\ \A k \in 1 .. Len(s) : Append(s, t)[k] = s[k]
      /\ Append(s, t)[Len(s) + 1] = t
  BY AppendProperties, LenProperties
<1> DEFINE r == Append(s, t)
<1>2. /\ Len(r) = Len(s) + 1 /\ \A k \in 1 .. Len(s) : r[k] = s[k]
      /\ r[Len(s) + 1] = t
  BY <1>1
<1> HIDE DEF r
<1>3. ASSUME NEW k \in 2 .. Len(r)
      PROVE  r[k - 1] <= r[k]
  <2>1. k - 1 \in 1 .. Len(s) /\ (k \in 2 .. Len(s) \/ k = Len(s) + 1)
    BY <1>1, <1>2
  <2>2. r[k - 1] = s[k - 1]
    BY <1>2, <2>1
  <2>3. CASE k \in 2 .. Len(s)
    <3>1. r[k] = s[k]
      BY <1>1, <1>2, <2>3
    <3>2. QED
      BY <2>2, <2>3, <3>1 DEF SortedUpTo
  <2>4. CASE k = Len(s) + 1
    BY <1>2, <2>1, <2>2, <2>4 DEF SortedUpTo
  <2>5. QED
    BY <2>1, <2>3, <2>4
<1>4. ASSUME NEW k \in 1 .. Len(r)
      PROVE  r[k] <= t
  <2>1. k \in 1 .. Len(s) \/ k = Len(s) + 1
    BY <1>1, <1>2
  <2>2. CASE k \in 1 .. Len(s)
    BY <1>2, <2>2 DEF SortedUpTo
  <2>3. CASE k = Len(s) + 1
    BY <1>2, <2>3
  <2>4. QED
    BY <2>1, <2>2, <2>3
<1>5. SortedUpTo(r, t)
  BY <1>3, <1>4 DEF SortedUpTo
<1>6. QED
  BY <1>5 DEF r

\* A list that is sorted now stays so as the clock goes on.
LEMMA SortedLater ==
    ASSUME NEW t \in Int, NEW u \in Int, t <= u,
           NEW s \in Seq(Int), SortedUpTo(s, t)
    PROVE  SortedUpTo(s, u)
<1>1. Len(s) \in Nat /\ \A k \in 1 .. Len(s) : s[k] \in Int
  BY LenProperties, ElementOfSeq
<1>2. QED
  BY <1>1 DEF SortedUpTo

\* A step keeps the order of the times.
LEMMA TimelineInductive == IInv /\ Timeline /\ [Next]_vars => Timeline'
<1> SUFFICES ASSUME IInv, Timeline, [Next]_vars
             PROVE  Timeline'
  OBVIOUS
<1>t. /\ now \in Int /\ pc \in [Messages -> Labels]
      /\ \A g \in Groups, q \in Senders : trig[g][q] \in Seq(Int)
      /\ \A m \in Messages : list[m] \in Seq(Int)
  <2>1. StartTime .. MaxTime \subseteq Int
    BY RuleAssumption
  <2>2. Seq(StartTime .. MaxTime) \subseteq Seq(Int)
    BY <2>1, SeqMonotonic
  <2>3. QED
    BY <2>1, <2>2 DEF IInv, TypeOK
<1>1. ASSUME UNCHANGED <<now, trig, list>>,
             \A m \in Messages : pc'[m] = "writetrig" => pc[m] = "writetrig"
      PROVE  Timeline'
  BY <1>1 DEF Timeline
<1>2. ASSUME NEW m \in Messages, ReadTriggers(m)
      PROVE  Timeline'
  <2>1. pc[m] = "readtrig" /\ UNCHANGED <<now, trig>>
    BY <1>2 DEF ReadTriggers, At, robot
  <2>2. Group(m) \in Groups /\ Sender(m) \in Senders
    BY DEF Group, Groups, Sender, Senders
  <2>3. SortedUpTo(Append(trig[Group(m)][Sender(m)], now), now)
    BY <1>t, <2>2, AppendSorted DEF Timeline
  <2>4. list'[m] = Append(trig[Group(m)][Sender(m)], now)
    BY <1>2 DEF ReadTriggers, IInv, TypeOK
  <2>5. \A n \in Messages : n # m => list'[n] = list[n] /\ pc'[n] = pc[n]
    BY <1>2, <1>t DEF ReadTriggers, Goto, IInv, TypeOK
  <2>6. \A n \in Messages : pc'[n] = "writetrig" => SortedUpTo(list'[n], now)
    BY <2>3, <2>4, <2>5 DEF Timeline
  <2>7. QED
    BY <2>1, <2>6 DEF Timeline
<1>3. ASSUME NEW m \in Messages, WriteTriggers(m)
      PROVE  Timeline'
  <2>1. pc[m] = "writetrig" /\ UNCHANGED <<now, list>>
    BY <1>3 DEF WriteTriggers, At, local
  <2>2. SortedUpTo(list[m], now)
    BY <2>1 DEF Timeline
  <2>3. \A g \in Groups, q \in Senders :
          trig'[g][q] = trig[g][q] \/ trig'[g][q] = list[m]
    BY <1>3 DEF WriteTriggers, IInv, TypeOK
  <2>4. \A n \in Messages : pc'[n] = "writetrig" => pc[n] = "writetrig"
    BY <1>3, <1>t DEF WriteTriggers, Goto
  <2>5. \A g \in Groups, q \in Senders : SortedUpTo(trig'[g][q], now)
    BY <2>2, <2>3 DEF Timeline
  <2>6. QED
    BY <2>1, <2>4, <2>5 DEF Timeline
<1>4. ASSUME NEW m \in Messages, MakeTriggers(m)
      PROVE  Timeline'
  <2>1. UNCHANGED <<now, list>>
    BY <1>4 DEF MakeTriggers, local
  <2>2. \A g \in Groups, q \in Senders :
          trig'[g][q] = trig[g][q] \/ trig'[g][q] = <<>>
    BY <1>4 DEF MakeTriggers, IInv, TypeOK
  <2>3. \A n \in Messages : pc'[n] = "writetrig" => pc[n] = "writetrig"
    BY <1>4, <1>t DEF MakeTriggers, Goto
  <2>4. SortedUpTo(<<>>, now)
    BY EmptySeq DEF SortedUpTo
  <2>5. \A g \in Groups, q \in Senders : SortedUpTo(trig'[g][q], now)
    BY <2>2, <2>4 DEF Timeline
  <2>6. QED
    BY <2>1, <2>3, <2>5 DEF Timeline
<1>5. CASE Tick
  <2>1. now' \in Int /\ now <= now' /\ UNCHANGED <<pc, trig, list>>
    BY <1>5, <1>t DEF Tick, robot, local
  <2>2. \A g \in Groups, q \in Senders : SortedUpTo(trig[g][q], now')
    BY <1>t, <2>1, SortedLater DEF Timeline
  <2>3. \A m \in Messages : pc[m] = "writetrig" => SortedUpTo(list[m], now')
    BY <1>t, <2>1, SortedLater DEF Timeline
  <2>4. QED
    BY <2>1, <2>2, <2>3 DEF Timeline
<1>6. ASSUME NEW m \in Messages, NEW l, l # "writetrig", Goto(m, l),
             UNCHANGED <<now, trig, list>>
      PROVE  Timeline'
  <2>1. \A n \in Messages : pc'[n] = "writetrig" => pc[n] = "writetrig"
    BY <1>6, <1>t DEF Goto
  <2>2. QED
    BY <1>1, <1>6, <2>1
<1>7. ASSUME NEW m \in Messages, NEW stop \in BOOLEAN, Leave(m, stop),
             UNCHANGED <<now, trig, list>>
      PROVE  Timeline'
  BY <1>6, <1>7 DEF Leave
<1>8. ASSUME NEW m \in Messages, Account(m), ~ReadTriggers(m),
             ~WriteTriggers(m), ~MakeTriggers(m)
      PROVE  Timeline'
  <2>1. UNCHANGED <<now, trig, list>>
    BY <1>8 DEF Account, LookupCounts, MakeCounts, Gate, LookupTriggers,
       LookupStamps, MakeStamps, WriteStamp, robot, local
  <2>2. \/ \E l \in Labels \ {"writetrig"} : Goto(m, l)
        \/ Leave(m, FALSE)
    BY <1>8 DEF Account, LookupCounts, MakeCounts, Gate, LookupTriggers,
       LookupStamps, MakeStamps, WriteStamp, Labels
  <2>3. QED
    BY <1>6, <1>7, <2>1, <2>2
<1>9. ASSUME NEW m \in Messages, Answer(m)
      PROVE  Timeline'
  <2>1. UNCHANGED <<now, trig, list>>
    BY <1>9 DEF Answer, GiveUp, Compose, Repeat, CreateFood, AddWhiteList,
       Send, SendFails, Finish, robot, local
  <2>2. \/ \E l \in Labels \ {"writetrig"} : Goto(m, l)
        \/ \E stop \in BOOLEAN : Leave(m, stop)
    BY <1>9 DEF Answer, GiveUp, Compose, Repeat, CreateFood, AddWhiteList,
       Send, SendFails, Finish, Labels, IInv, TypeOK
  <2>3. QED
    BY <1>6, <1>7, <2>1, <2>2
<1>10. ASSUME NEW m \in Messages, Deliver(m) \/ Enter(m) \/ GetMemberInfo(m)
                                  \/ Judge(m)
       PROVE  Timeline'
  <2>1. UNCHANGED <<now, trig, list>>
    BY <1>10 DEF Deliver, Enter, GetMemberInfo, Judge, robot, local
  <2>2. \/ \E l \in Labels \ {"writetrig"} : Goto(m, l)
        \/ Leave(m, FALSE)
    BY <1>10 DEF Deliver, Enter, GetMemberInfo, Judge, Labels
  <2>3. QED
    BY <1>6, <1>7, <2>1, <2>2
<1>11. CASE FatalAccess \/ UNCHANGED vars
  BY <1>1, <1>11 DEF FatalAccess, vars, robot, local
<1>12. ASSUME NEW m \in Messages, Deliver(m) \/ Enter(m) \/ Apply(m)
       PROVE  Timeline'
  BY <1>2, <1>3, <1>4, <1>8, <1>9, <1>10, <1>12 DEF Apply
<1>13. QED
  BY <1>5, <1>11, <1>12 DEF Next

\* The binary search of the rate limit always runs on a sorted list, although
\* handlers of different rules overwrite each other's entries.
THEOREM SearchFindsSorted == Spec => []TriggersSorted
<1>1. Init => Timeline
  <2>1. SortedUpTo(<<>>, now)
    BY EmptySeq DEF SortedUpTo
  <2>2. QED
    BY <2>1 DEF Init, Timeline
<1>2. IInv /\ Timeline /\ [Next]_vars => Timeline'
  BY TimelineInductive
<1>3. Timeline => TriggersSorted
  BY DEF Timeline, SortedUpTo, TriggersSorted
<1>4. QED
  BY <1>1, <1>2, <1>3, Invariance, PTL DEF Spec
-----------------------------------------------------------------------------
\* The CD.  A stamp bears the name of its rule: two rules of one name would
\* overwrite each other's.
NamesDiffer ==
    \A i, j \in Indices : Rules[i].name = Rules[j].name => i = j

\* From the gate to the stamp.
Unstamped == {"trig", "maketrig", "readtrig", "writetrig", "stamp",
              "makestamp", "writestamp"}

\* A trigger that passed is in the stamp of its rule, or its handler is about
\* to put it there.
Recorded(p) ==
    \/ InStamp(p)
    \/ /\ pc[p.msg] \in Unstamped
       /\ at[p.msg] = p.rule
       /\ begun[p.msg] = p.time

\* No trigger of a rule is later than the time its present handler took, and
\* every trigger is recorded whose stamp was not lost.
CdInv ==
    /\ \A p \in passes : p.time <= now
    /\ \A p \in passes \ unstamped : Recorded(p)
    /\ \A m \in Messages : begun[m] <= now
    /\ \A p \in passes, m \in Messages :
         Inside(m) /\ p.rule = at[m] => p.time <= begun[m]
    /\ CdUnlessLost

\* The times and places that CdInv compares.
LEMMA PassTypes ==
    ASSUME TypeOK
    PROVE  /\ StartTime .. MaxTime \subseteq Int /\ now \in Int
           /\ \A m \in Messages : begun[m] \in Int
           /\ \A g \in Groups, n \in Names : stamp[g][n] \in Int
           /\ \A p \in passes : /\ p.msg \in Messages /\ p.rule \in Indices
                                /\ p.time \in Int /\ p.inCd \in BOOLEAN
                                /\ Group(p.msg) \in Groups
                                /\ Rules[p.rule].name \in Names
                                /\ Rules[p.rule].cd \in Nat
<1>1. StartTime .. MaxTime \subseteq Int
  BY RuleAssumption
<1>2. Rules \in [1 .. Len(Rules) -> RuleConfig] /\ Indices = 1 .. Len(Rules)
  BY RuleAssumption, LenProperties DEF Indices
<1>3. \A i \in Indices : Rules[i] \in RuleConfig
  BY <1>2
<1>4. \A i \in Indices : Rules[i].name \in Names /\ Rules[i].cd \in Nat
  BY <1>3 DEF Names, RuleConfig
<1>5. \A m \in Messages : Group(m) \in Groups
  BY DEF Group, Groups
<1>6. QED
  BY <1>1, <1>4, <1>5 DEF TypeOK

\* A step between the gate and the stamp, or outside of them.
LEMMA CdQuiet ==
    ASSUME TypeOK, CdInv, UNCHANGED <<passes, stamp, unstamped, begun>>,
           now' \in StartTime .. MaxTime, now <= now',
           \A n \in Messages :
             /\ pc[n] \in Unstamped => pc'[n] \in Unstamped
             /\ pc'[n] \notin {"idle", "enter", "done"} => Inside(n)
             /\ Inside(n) => at'[n] = at[n] \/ pc'[n] \in {"enter", "done"}
    PROVE  CdInv'
<1>1. ASSUME NEW p \in passes
      PROVE  p.time <= now'
  <2>1. p.time \in Int /\ now \in Int /\ now' \in Int
    BY PassTypes
  <2>2. QED
    BY <2>1 DEF CdInv
<1>r. ASSUME NEW p \in passes \ unstamped
      PROVE  Recorded(p)'
  <2>1. Recorded(p) /\ p.msg \in Messages
    BY PassTypes DEF CdInv
  <2>3. CASE pc[p.msg] \in Unstamped
    <3>1. Inside(p.msg) /\ pc'[p.msg] \in Unstamped
      BY <2>1, <2>3 DEF Inside, Unstamped
    <3>2. at'[p.msg] = at[p.msg]
      BY <2>1, <3>1 DEF Unstamped
    <3>3. QED
      BY <2>1, <3>1, <3>2 DEF Recorded, InStamp, Group
  <2>4. CASE pc[p.msg] \notin Unstamped
    BY <2>1, <2>4 DEF Recorded, InStamp, Group
  <2>5. QED
    BY <2>3, <2>4
<1>2. ASSUME NEW p \in passes, NEW m \in Messages, Inside(m)', p.rule = at'[m]
      PROVE  p.time <= begun'[m]
  <2>1. Inside(m) /\ at'[m] = at[m]
    BY <1>2 DEF Inside
  <2>2. QED
    BY <1>2, <2>1 DEF CdInv
<1>3. CdUnlessLost'
  BY DEF CdInv, CdUnlessLost, Spaced, Group
<1>4. \A m \in Messages : begun'[m] <= now'
  <2>1. now \in Int /\ now' \in Int /\ \A m \in Messages : begun[m] \in Int
    BY PassTypes
  <2>2. QED
    BY <2>1 DEF CdInv
<1>5. QED
  BY <1>1, <1>r, <1>2, <1>3, <1>4 DEF CdInv

\* A handler takes the lock of a rule and the time.
LEMMA CdEnter ==
    ASSUME IInv, CdInv, NEW m \in Messages, Enter(m)
    PROVE  CdInv'
<1>1. /\ pc[m] = "enter" /\ at[m] \in Indices /\ lock[at[m]] = Nil
      /\ UNCHANGED <<now, at, passes, stamp, unstamped>>
      /\ begun'[m] = now /\ pc'[m] = "info"
  BY DEF Enter, At, Goto, IInv, TypeOK, robot, history
<1>2. \A n \in Messages : n # m => pc'[n] = pc[n] /\ begun'[n] = begun[n]
  BY DEF Enter, Goto, IInv, TypeOK
<1>3. ASSUME NEW p \in passes \ unstamped
      PROVE  Recorded(p)'
  <2>1. Recorded(p) /\ p.msg \in Messages
    BY PassTypes DEF CdInv, IInv
  <2>2. p.msg # m \/ pc[p.msg] \notin Unstamped
    BY <1>1 DEF Unstamped
  <2>3. QED
    BY <1>1, <1>2, <2>1, <2>2 DEF Recorded, InStamp, Group
<1>4. ASSUME NEW p \in passes, NEW n \in Messages, Inside(n)', p.rule = at'[n]
      PROVE  p.time <= begun'[n]
  <2>1. CASE n = m
    BY <1>1, <2>1 DEF CdInv
  <2>2. CASE n # m
    <3>1. Inside(n) /\ p.rule = at[n]
      BY <1>1, <1>2, <1>4, <2>2 DEF Inside
    <3>2. QED
      BY <1>2, <2>2, <3>1 DEF CdInv
  <2>3. QED
    BY <2>1, <2>2
<1>5. CdUnlessLost'
  BY <1>1 DEF CdInv, CdUnlessLost, Spaced, Group
<1>6. \A n \in Messages : begun'[n] <= now'
  BY <1>1, <1>2, PassTypes DEF CdInv, IInv
<1>7. QED
  BY <1>1, <1>3, <1>4, <1>5, <1>6 DEF CdInv

\* A trigger passes: the lock is its handler's, so that every trigger of the
\* rule by another message is in the stamp.
LEMMA CdGate ==
    ASSUME IInv, CdInv, NEW m \in Messages, Gate(m), passes' # passes
    PROVE  CdInv'
<1> DEFINE pass == [msg |-> m, rule |-> at[m], time |-> begun[m],
                    inCd |-> InCd(m)]
<1>1. /\ pc[m] = "gate" /\ Inside(m) /\ at[m] \in Indices
      /\ UNCHANGED <<now, at, stamp, unstamped, begun>>
      /\ pc' = [pc EXCEPT ![m] = "trig"]
      /\ passes' = passes \cup {pass}
  BY DEF Gate, At, Goto, IInv, TypeOK, Inside, robot, local
<1>t. /\ pass.msg = m /\ pass.rule = at[m] /\ pass.time = begun[m]
      /\ pass.inCd = InCd(m)
  OBVIOUS
<1> HIDE DEF pass
<1>2. /\ pc'[m] = "trig"
      /\ \A n \in Messages : n # m => pc'[n] = pc[n]
      /\ \A n \in Messages : Inside(n)' <=> Inside(n)
  BY <1>1 DEF IInv, TypeOK, Inside
<1>3. begun[m] <= now /\ begun[m] \in Int /\ now \in Int
  <2>1. begun[m] \in Int /\ now \in Int
    BY PassTypes DEF IInv
  <2>2. QED
    BY <2>1 DEF CdInv
<1>4. ASSUME NEW p \in passes' \ unstamped
      PROVE  Recorded(p)'
  <2>1. CASE p = pass
    BY <1>1, <1>t, <1>2, <1>3, <2>1 DEF Recorded, Unstamped
  <2>2. CASE p \in passes
    <3>1. Recorded(p) /\ p.msg \in Messages
      BY <1>4, <2>2, PassTypes DEF CdInv, IInv
    <3>2. p.msg # m \/ pc[p.msg] \notin Unstamped
      BY <1>1 DEF Unstamped
    <3>3. QED
      BY <1>1, <1>2, <3>1, <3>2 DEF Recorded, InStamp, Group
  <2>3. QED
    BY <1>1, <1>4, <2>1, <2>2
<1>n. \A p \in passes' : p.time <= now
  BY <1>1, <1>t, <1>3 DEF CdInv
<1>5. ASSUME NEW p \in passes', NEW n \in Messages, Inside(n), p.rule = at[n]
      PROVE  p.time <= begun[n]
  <2>1. CASE p \in passes
    BY <1>5, <2>1 DEF CdInv
  <2>2. CASE p = pass
    <3>1. n = m
      BY <1>1, <1>t, <1>5, <2>2 DEF IInv, Holding, Inside
    <3>2. QED
      BY <1>3, <1>t, <2>2, <3>1
  <2>3. QED
    BY <1>1, <2>1, <2>2
\* Against the trigger that passes now, with the stamp it was compared with.
<1>6. ASSUME NEW p \in passes \ unstamped, p.rule = at[m], p.msg # m,
             Group(p.msg) = Group(m), ~InCd(m)
      PROVE  \/ Rule(m).cd = 0
             \/ p.time + Rule(m).cd <= begun[m]
  <2>1. p.msg \in Messages /\ p.time \in Int /\ Rule(m).cd \in Nat
    BY <1>6, PassTypes DEF IInv, Rule
  <2>2. InStamp(p)
    <3>1. ~(pc[p.msg] \in Unstamped /\ at[p.msg] = p.rule)
      BY <1>1, <1>6, <2>1 DEF IInv, Holding, Inside, Unstamped
    <3>2. QED
      BY <3>1 DEF CdInv, Recorded
  <2>3. stamp[Group(m)][Rule(m).name] \in Int
    BY <1>1, RuleProperties, PassTypes DEF IInv
  <2>4. Rule(m).cd = 0 \/ ~(begun[m] < stamp[Group(m)][Rule(m).name] + Rule(m).cd)
    BY <1>6 DEF InCd
  <2>5. QED
    BY <1>3, <1>6, <2>1, <2>2, <2>3, <2>4 DEF Rule, InStamp
<1>7. CdUnlessLost'
  <2>1. SUFFICES ASSUME NEW p \in passes' \ unstamped,
                        NEW q \in passes' \ unstamped,
                        p.rule = q.rule, p.msg # q.msg,
                        Group(p.msg) = Group(q.msg),
                        ~p.inCd, ~q.inCd, p.time <= q.time
                 PROVE  q.time - p.time >= Rules[p.rule].cd
    BY <1>1 DEF CdUnlessLost, Spaced, Group
  <2>2. CASE p \in passes /\ q \in passes
    BY <2>1, <2>2 DEF CdInv, CdUnlessLost, Spaced
  <2>3. CASE p \in passes /\ q = pass
    <3>1. p.time \in Int /\ Rule(m).cd \in Nat /\ Rule(m) = Rules[p.rule]
      BY <1>t, <2>1, <2>3, PassTypes DEF IInv, Rule
    <3>2. Rule(m).cd = 0 \/ p.time + Rule(m).cd <= begun[m]
      BY <1>t, <1>6, <2>1, <2>3
    <3>3. QED
      BY <1>3, <1>t, <2>1, <2>3, <3>1, <3>2
  <2>4. CASE p = pass /\ q \in passes
    <3>1. q.time \in Int /\ Rule(m).cd \in Nat /\ Rule(m) = Rules[p.rule]
      BY <1>t, <2>1, <2>4, PassTypes DEF IInv, Rule
    <3>2. Rule(m).cd = 0 \/ q.time + Rule(m).cd <= begun[m]
      BY <1>t, <1>6, <2>1, <2>4
    <3>3. QED
      BY <1>3, <1>t, <2>1, <2>4, <3>1, <3>2
  <2>5. QED
    BY <1>1, <2>1, <2>2, <2>3, <2>4
<1>8. QED
  BY <1>1, <1>2, <1>4, <1>n, <1>5, <1>7 DEF CdInv

\* The stamp is written: it is not older than any trigger of its rule.
LEMMA CdStamp ==
    ASSUME IInv, CdInv, NamesDiffer, NEW m \in Messages, WriteStamp(m)
    PROVE  CdInv'
<1>1. /\ pc[m] = "writestamp" /\ Inside(m) /\ at[m] \in Indices
      /\ Rule(m).name \in Names /\ Group(m) \in Groups
      /\ UNCHANGED <<now, at, passes, unstamped, begun>>
      /\ pc' = [pc EXCEPT ![m] = "act"]
      /\ stamp' = [stamp EXCEPT ![Group(m)][Rule(m).name] = begun[m]]
  BY RuleProperties DEF WriteStamp, At, Goto, IInv, Inside, local, history
<1>2. /\ pc'[m] = "act"
      /\ \A n \in Messages : n # m => pc'[n] = pc[n]
      /\ \A n \in Messages : Inside(n)' <=> Inside(n)
  BY <1>1 DEF IInv, TypeOK, Inside
<1>3. ASSUME NEW p \in passes \ unstamped
      PROVE  Recorded(p)'
  <2>1. /\ Recorded(p) /\ p.msg \in Messages /\ p.rule \in Indices
        /\ Group(p.msg) \in Groups /\ Rules[p.rule].name \in Names
    BY PassTypes DEF CdInv, IInv
  <2>2. CASE Group(p.msg) = Group(m) /\ Rules[p.rule].name = Rule(m).name
    <3>1. p.rule = at[m]
      BY <1>1, <2>1, <2>2 DEF NamesDiffer, Rule
    <3>2. p.time <= begun[m]
      BY <1>1, <3>1 DEF CdInv
    <3>3. stamp'[Group(p.msg)][Rules[p.rule].name] = begun[m]
      BY <1>1, <2>1, <2>2 DEF IInv, TypeOK
    <3>4. QED
      BY <3>2, <3>3 DEF Recorded, InStamp, Group
  <2>3. CASE ~(Group(p.msg) = Group(m) /\ Rules[p.rule].name = Rule(m).name)
    <3>1. stamp'[Group(p.msg)][Rules[p.rule].name] =
            stamp[Group(p.msg)][Rules[p.rule].name]
      BY <1>1, <2>1, <2>3 DEF IInv, TypeOK
    <3>2. ~(p.msg = m /\ at[p.msg] = p.rule)
      BY <2>3 DEF Rule
    <3>3. QED
      BY <1>1, <1>2, <2>1, <3>1, <3>2 DEF Recorded, InStamp, Group
  <2>4. QED
    BY <2>2, <2>3
<1>5. CdUnlessLost'
  BY <1>1 DEF CdInv, CdUnlessLost, Spaced, Group
<1>6. QED
  BY <1>1, <1>2, <1>3, <1>5 DEF CdInv

\* A map is made, over one that another handler may have made: the triggers
\* that were in its stamps are lost, and the others are still to be written.
LEMMA CdLoss ==
    ASSUME IInv, CdInv, NEW m \in Messages, MakeStamps(m)
    PROVE  CdInv'
<1>1. /\ pc[m] = "makestamp" /\ pc' = [pc EXCEPT ![m] = "writestamp"]
      /\ UNCHANGED <<now, at, passes, begun>>
      /\ stamp' = [stamp EXCEPT ![Group(m)] = [n \in Names |-> 0]]
      /\ unstamped' = unstamped \cup
           {p \in passes : Group(p.msg) = Group(m) /\ InStamp(p)}
  BY DEF MakeStamps, At, Goto, local
<1>2. /\ pc'[m] = "writestamp"
      /\ \A n \in Messages : n # m => pc'[n] = pc[n]
      /\ \A n \in Messages : Inside(n)' <=> Inside(n)
      /\ \A n \in Messages : pc[n] \in Unstamped => pc'[n] \in Unstamped
  BY <1>1 DEF IInv, TypeOK, Inside, Unstamped
<1>3. ASSUME NEW p \in passes \ unstamped'
      PROVE  Recorded(p)'
  <2>1. Recorded(p) /\ p.msg \in Messages /\ Group(p.msg) \in Groups
    BY <1>1, PassTypes DEF CdInv, IInv
  <2>2. CASE InStamp(p)
    <3>1. Group(p.msg) # Group(m)
      BY <1>1, <2>2
    <3>2. stamp'[Group(p.msg)] = stamp[Group(p.msg)]
      BY <1>1, <2>1, <3>1 DEF IInv, TypeOK
    <3>3. QED
      BY <2>2, <3>2 DEF Recorded, InStamp, Group
  <2>3. CASE ~InStamp(p)
    BY <1>1, <1>2, <2>1, <2>3 DEF Recorded
  <2>4. QED
    BY <2>2, <2>3
<1>4. CdUnlessLost'
  BY <1>1 DEF CdInv, CdUnlessLost, Spaced, Group
<1>5. QED
  BY <1>1, <1>2, <1>3, <1>4 DEF CdInv

\* The steps of CdQuiet: within a rule, and out of it.
LEMMA CdGoesOn ==
    ASSUME IInv, CdInv, NEW m \in Messages, NEW l \in Labels, Goto(m, l),
           UNCHANGED <<now, passes, stamp, unstamped, begun>>,
           \/ Inside(m) /\ UNCHANGED at
           \/ l \in {"enter", "done"} /\ \A n \in Messages : n # m => at'[n] = at[n],
           pc[m] \in Unstamped => l \in Unstamped
    PROVE  CdInv'
<1>1. pc'[m] = l /\ \A n \in Messages : n # m => pc'[n] = pc[n]
  BY DEF Goto, IInv, TypeOK
<1>2. now' \in StartTime .. MaxTime /\ now <= now'
  BY PassTypes DEF IInv, TypeOK
<1>4. ASSUME NEW n \in Messages
      PROVE  /\ pc[n] \in Unstamped => pc'[n] \in Unstamped
             /\ pc'[n] \notin {"idle", "enter", "done"} => Inside(n)
             /\ Inside(n) => at'[n] = at[n] \/ pc'[n] \in {"enter", "done"}
  BY <1>1 DEF Inside
<1>5. QED
  BY <1>2, <1>4, CdQuiet DEF IInv

\* A handler that leaves a rule without a stamp keeps the stamps.
LEMMA CdLeaves ==
    ASSUME IInv, CdInv, NEW m \in Messages, pc[m] \notin Unstamped,
           NEW stop \in BOOLEAN, Leave(m, stop),
           UNCHANGED <<now, passes, stamp, unstamped, begun>>
    PROVE  CdInv'
<1>1. \E l \in {"done", "enter"} : Goto(m, l)
  BY DEF Leave
<1>2. \A n \in Messages : n # m => at'[n] = at[n]
  BY DEF Leave, IInv, TypeOK
<1>3. QED
  BY <1>1, <1>2, CdGoesOn DEF Labels

\* Only the gate, the stamp, a handler that enters and the clock touch what
\* CdInv speaks of.
LEMMA CdInductive ==
    NamesDiffer /\ IInv /\ CdInv /\ [Next]_vars => CdInv'
<1> SUFFICES ASSUME NamesDiffer, IInv, CdInv, [Next]_vars
             PROVE  CdInv'
  OBVIOUS
<1>1. ASSUME NEW m \in Messages, Deliver(m)
      PROVE  CdInv'
  <2>1. /\ pc[m] = "idle" /\ Goto(m, "enter")
        /\ UNCHANGED <<now, at, passes, stamp, unstamped, begun>>
    BY <1>1 DEF Deliver, At, robot, local, history
  <2>2. QED
    BY <2>1, CdGoesOn DEF Labels, Unstamped
<1>2. ASSUME NEW m \in Messages, GetMemberInfo(m)
      PROVE  CdInv'
  <2>1. /\ pc[m] = "info" /\ Goto(m, "judge")
        /\ UNCHANGED <<now, at, passes, stamp, unstamped, begun>>
    BY <1>2 DEF GetMemberInfo, At, robot, history
  <2>2. QED
    BY <2>1, CdGoesOn DEF Labels, Unstamped, Inside
<1>3. ASSUME NEW m \in Messages, Judge(m)
      PROVE  CdInv'
  <2>1. /\ pc[m] = "judge"
        /\ UNCHANGED <<now, passes, stamp, unstamped, begun>>
        /\ (Goto(m, "counts") /\ UNCHANGED at) \/ Leave(m, FALSE)
    BY <1>3 DEF Judge, At, robot, local, history
  <2>2. QED
    BY <2>1, CdGoesOn, CdLeaves DEF Labels, Unstamped, Inside
<1>4. ASSUME NEW m \in Messages, LookupCounts(m) \/ MakeCounts(m)
      PROVE  CdInv'
  <2>1. /\ pc[m] \in {"counts", "makecounts"}
        /\ UNCHANGED <<now, at, passes, stamp, unstamped, begun>>
        /\ \E l \in {"makecounts", "gate"} : Goto(m, l)
    BY <1>4 DEF LookupCounts, MakeCounts, At, robot, history
  <2>2. QED
    BY <2>1, CdGoesOn DEF Labels, Unstamped, Inside
<1>5. ASSUME NEW m \in Messages, Gate(m)
      PROVE  CdInv'
  <2>1. CASE passes' = passes
    <3>1. /\ pc[m] = "gate" /\ Inside(m)
          /\ UNCHANGED <<now, stamp, unstamped, begun>>
      BY <1>5 DEF Gate, At, Inside, robot, local
    <3>2. Leave(m, FALSE) \/ (Goto(m, "trig") /\ UNCHANGED at)
      BY <1>5, Zenon DEF Gate
    <3>3. QED
      BY <2>1, <3>1, <3>2, CdGoesOn, CdLeaves DEF Labels, Unstamped
  <2>2. QED
    BY <1>5, <2>1, CdGate
<1>6. ASSUME NEW m \in Messages,
             LookupTriggers(m) \/ MakeTriggers(m) \/ ReadTriggers(m)
                               \/ WriteTriggers(m)
      PROVE  CdInv'
  <2>1. /\ pc[m] \in {"trig", "maketrig", "readtrig", "writetrig"}
        /\ UNCHANGED <<now, at, passes, stamp, unstamped, begun>>
        /\ \E l \in {"maketrig", "readtrig", "writetrig", "stamp"} : Goto(m, l)
    BY <1>6 DEF LookupTriggers, MakeTriggers, ReadTriggers, WriteTriggers, At,
                robot, local, history
  <2>2. QED
    BY <2>1, CdGoesOn DEF Labels, Unstamped, Inside
<1>7. ASSUME NEW m \in Messages, LookupStamps(m)
      PROVE  CdInv'
  <2>1. /\ pc[m] = "stamp"
        /\ \E l \in {"makestamp", "writestamp"} : Goto(m, l)
        /\ UNCHANGED <<now, at, passes, stamp, unstamped, begun>>
    BY <1>7 DEF LookupStamps, At, robot, local, history
  <2>2. QED
    BY <2>1, CdGoesOn DEF Labels, Unstamped, Inside
<1>9. ASSUME NEW m \in Messages, GiveUp(m) \/ SendFails(m) \/ Finish(m)
      PROVE  CdInv'
  <2>1. /\ pc[m] \in {"act", "send", "finish"}
        /\ UNCHANGED <<now, passes, stamp, unstamped, begun>>
        /\ \E stop \in BOOLEAN : Leave(m, stop)
    BY <1>9 DEF GiveUp, SendFails, Finish, At, robot, local, history, IInv, TypeOK
  <2>2. QED
    BY <2>1, CdLeaves DEF Unstamped
<1>10. ASSUME NEW m \in Messages, Compose(m) \/ Repeat(m) \/ AddWhiteList(m)
                                  \/ Send(m)
       PROVE  CdInv'
  <2>1. /\ pc[m] \in {"act", "send"}
        /\ UNCHANGED <<now, at, passes, stamp, unstamped, begun>>
        /\ \E l \in {"send", "finish"} : Goto(m, l)
    BY <1>10 DEF Compose, Repeat, AddWhiteList, Send, Acting, At, robot, local,
                 history
  <2>2. QED
    BY <2>1, CdGoesOn DEF Labels, Unstamped, Inside
<1>11. ASSUME NEW m \in Messages, CreateFood(m)
       PROVE  CdInv'
  <2>1. /\ pc[m] = "act"
        /\ UNCHANGED <<now, passes, stamp, unstamped, begun>>
        /\ (Goto(m, "send") /\ UNCHANGED at) \/ Leave(m, TRUE)
    BY <1>11 DEF CreateFood, Acting, At, robot, local, history
  <2>2. QED
    BY <2>1, CdGoesOn, CdLeaves DEF Labels, Unstamped, Inside
<1>12. CASE Tick
  <2>1. /\ now' = now + 1 /\ now < MaxTime
        /\ UNCHANGED <<pc, at, passes, stamp, unstamped, begun>>
    BY <1>12 DEF Tick, robot, local, history
  <2>2. now' \in StartTime .. MaxTime /\ now <= now'
    BY <2>1, RuleAssumption DEF IInv, TypeOK
  <2>3. QED
    BY <2>1, <2>2, CdQuiet DEF IInv, CdInv, Inside
<1>13. CASE FatalAccess \/ UNCHANGED vars
  <2>1. UNCHANGED <<now, pc, at, passes, stamp, unstamped, begun>>
    BY <1>13 DEF FatalAccess, vars, robot, local, history
  <2>2. now' \in StartTime .. MaxTime /\ now <= now'
    BY <2>1, PassTypes DEF IInv, TypeOK
  <2>3. QED
    BY <2>1, <2>2, CdQuiet DEF IInv, CdInv, Inside
<1>14. ASSUME NEW m \in Messages, Account(m) \/ Answer(m)
       PROVE  CdInv'
  BY <1>4, <1>5, <1>6, <1>7, <1>9, <1>10, <1>11, <1>14, CdLoss, CdStamp
     DEF Account, Answer
<1>15. ASSUME NEW m \in Messages, Deliver(m) \/ Enter(m) \/ Apply(m)
       PROVE  CdInv'
  BY <1>1, <1>2, <1>3, <1>14, <1>15, CdEnter DEF Apply
<1>16. QED
  BY <1>12, <1>13, <1>15 DEF Next

\* Two triggers of a rule in a group are at least its CD apart, although a
\* handler takes the time before it asks the server and stamps it after: the
\* lock of the rule makes the two one step, for every rule that has its name
\* for itself.  From the empty maps of the start on, a stamp is lost in one
\* way only, with a map that another handler replaced.
THEOREM CdKept ==
    ASSUME NamesDiffer
    PROVE  Spec => []CdUnlessLost
<1>1. Init => CdInv
  <2> SUFFICES ASSUME Init
               PROVE  CdInv
    OBVIOUS
  <2>1. passes = {}
    BY DEF Init
  <2>2. \A m \in Messages : pc[m] = "idle" /\ begun[m] <= now
    BY RuleAssumption DEF Init
  <2>3. QED
    BY <2>1, <2>2 DEF CdInv, CdUnlessLost
<1>2. IInv /\ CdInv /\ [Next]_vars => CdInv'
  BY CdInductive
<1>3. CdInv => CdUnlessLost
  BY DEF CdInv
<1>4. QED
  BY <1>1, <1>2, <1>3, Invariance, PTL DEF Spec

-----------------------------------------------------------------------------
\* The bound on applications.  Handlers that find no count map each make one,
\* and the later one replaces the earlier, with what was counted there.
Passed == Counted \ {"gate"}

\* The rules of type t that are counted for m in the map of the type.
CountedOf(m, t) ==
    {i \in Indices : Rules[i].type = t /\ <<m, i>> \in applied
                     /\ <<m, i>> \notin uncounted}

\* Before there is a map of a type nothing is counted, and no handler holds
\* one; a handler about to make one makes it for the first time.
Mapless ==
    \A t \in Types : countsOf[t] = Nil =>
        \A n \in Messages :
            /\ pc[n] \in Counted => Rule(n).type # t
            /\ \A o \in Owners : counts[t][o][n] = 0

Fresh(m) ==
    pc[m] = "makecounts" =>
        /\ countsOf[Rule(m).type] # m
        /\ \A n \in Messages :
             /\ counts[Rule(m).type][m][n] = 0
             /\ pc[n] \in Counted /\ held[n] = m => Rule(n).type # Rule(m).type

\* The map of a type counts of m what was applied to it; a handler with a map
\* that was replaced starts from nothing in the new one.  A reply that is not
\* yet counted is that of the rule m is at, for which the gate left room.
Budget(m) ==
    /\ \A i \in Indices : <<m, i>> \in applied => i < at[m]
    /\ \A i \in Indices :
         <<m, i>> \in sent => <<m, i>> \in applied
                              \/ (i = at[m] /\ pc[m] = "finish")
    /\ \A t \in Types :
         /\ countsOf[t] # Nil =>
              counts[t][countsOf[t]][m] = Cardinality(CountedOf(m, t))
         /\ pc[m] \in Counted /\ Rule(m).type = t /\ held[m] # countsOf[t] =>
              CountedOf(m, t) = {}
         /\ MaxApply[t] # Infinite =>
              /\ Cardinality(CountedOf(m, t)) <= MaxApply[t]
              /\ pc[m] \in Passed /\ Rule(m).type = t =>
                   Cardinality(CountedOf(m, t)) < MaxApply[t]

BudgetInv ==
    /\ Mapless
    /\ \A m \in Messages : Fresh(m) /\ Budget(m)

\* The rules of a type that are counted are finitely many.
LEMMA CountedFinite ==
    ASSUME NEW m, NEW t
    PROVE  /\ IsFiniteSet(CountedOf(m, t)) /\ Cardinality(CountedOf(m, t)) \in Nat
           /\ CountedOf(m, t) \subseteq Indices
<1>1. IsFiniteSet(Indices)
  BY RuleAssumption, LenProperties, FS_Interval DEF Indices
<1>2. CountedOf(m, t) \subseteq Indices
  BY DEF CountedOf
<1>3. QED
  BY <1>1, <1>2, FS_Subset, FS_CardinalityType

\* The limits are numbers.
LEMMA LimitTypes ==
    ASSUME NEW t \in Types, MaxApply[t] # Infinite
    PROVE  MaxApply[t] \in Nat
BY RuleAssumption

\* A step that applies nothing, counts nothing and sends nothing.
LEMMA BudgetQuiet ==
    ASSUME TypeOK, BudgetInv, NEW m \in Messages,
           UNCHANGED <<countsOf, counts, held, applied, uncounted, sent>>,
           \A n \in Messages : n # m => pc'[n] = pc[n] /\ at'[n] = at[n],
           pc'[m] # "makecounts",
           \/ /\ at'[m] = at[m]
              /\ pc'[m] \in Counted => pc[m] \in Counted
              /\ pc'[m] \in Passed => pc[m] \in Passed
              /\ pc[m] # "finish" \/ pc'[m] = "finish"
           \/ /\ at'[m] = at[m] + 1 /\ pc[m] # "finish"
              /\ pc'[m] \in {"enter", "done"}
    PROVE  BudgetInv'
<1>1. ASSUME NEW n \in Messages
      PROVE  /\ pc'[n] = "makecounts" => pc[n] = "makecounts" /\ at'[n] = at[n]
             /\ pc'[n] \in Counted => pc[n] \in Counted /\ at'[n] = at[n]
             /\ pc'[n] \in Passed => pc[n] \in Passed /\ at'[n] = at[n]
             /\ pc[n] = "finish" => pc'[n] = "finish" /\ at'[n] = at[n]
             /\ at'[n] = at[n] \/ at'[n] = at[n] + 1
  BY DEF Counted, Passed
<1>2. ASSUME NEW n \in Messages
      PROVE  Budget(n)'
  <2>1. Budget(n) /\ at[n] \in Int /\ at'[n] >= at[n]
    <3>1. at[n] \in Int
      BY RuleAssumption, LenProperties DEF TypeOK
    <3>2. QED
      BY <1>1, <3>1 DEF BudgetInv
  <2>2. \A i \in Indices : i \in Int
    BY RuleAssumption, LenProperties DEF Indices
  <2>3. \A t \in Types : CountedOf(n, t)' = CountedOf(n, t)
    BY DEF CountedOf
  <2>4. /\ \A i \in Indices : <<n, i>> \in applied' => i < at'[n]
        /\ \A i \in Indices :
             <<n, i>> \in sent' => <<n, i>> \in applied'
                                   \/ (i = at'[n] /\ pc'[n] = "finish")
    BY <1>1, <2>1, <2>2 DEF Budget
  <2>5. QED
    BY <1>1, <2>1, <2>3, <2>4 DEF Budget, Rule
<1>3. Mapless'
  BY <1>1 DEF BudgetInv, Mapless, Rule
<1>4. \A n \in Messages : Fresh(n)'
  BY <1>1 DEF BudgetInv, Fresh, Rule
<1>5. QED
  BY <1>2, <1>3, <1>4 DEF BudgetInv

\* The map of the type is looked up: there is one, or the handler is about to
\* make the first it ever makes.
LEMMA BudgetLookup ==
    ASSUME IInv, BudgetInv, NEW m \in Messages, LookupCounts(m)
    PROVE  BudgetInv'
<1> DEFINE type == Rule(m).type
<1>1. /\ pc[m] = "counts" /\ type \in Types
      /\ held' = [held EXCEPT ![m] = countsOf[type]]
      /\ UNCHANGED <<at, countsOf, counts, applied, uncounted, sent>>
  BY RuleProperties DEF LookupCounts, At, IInv, robot, history
<1>2. /\ held'[m] = countsOf[type]
      /\ pc'[m] = IF countsOf[type] = Nil THEN "makecounts" ELSE "gate"
      /\ \A n \in Messages : n # m => pc'[n] = pc[n] /\ held'[n] = held[n]
  BY <1>1 DEF LookupCounts, Goto, IInv, TypeOK
<1>3. ASSUME NEW n \in Messages
      PROVE  Budget(n)'
  <2>1. Budget(n) /\ \A t \in Types : CountedOf(n, t)' = CountedOf(n, t)
    BY <1>1 DEF BudgetInv, CountedOf
  <2>2. CASE n # m
    BY <1>1, <1>2, <2>1, <2>2 DEF Budget, Rule
  <2>3. CASE n = m
    <3>1. pc'[n] \notin Passed /\ pc'[n] # "finish" /\ pc[n] # "finish"
      BY <1>1, <1>2, <2>3 DEF Passed, Counted
    <3>2. QED
      BY <1>1, <1>2, <2>1, <2>3, <3>1 DEF Budget, Rule
  <2>4. QED
    BY <2>2, <2>3
<1>4. Mapless'
  <2>1. ASSUME NEW t \in Types, countsOf[t] = Nil, NEW n \in Messages,
               pc'[n] \in Counted
        PROVE  Rule(n).type # t
    <3>1. CASE n = m
      BY <1>2, <2>1, <3>1 DEF Counted
    <3>2. CASE n # m
      BY <1>2, <2>1, <3>2 DEF BudgetInv, Mapless
    <3>3. QED
      BY <3>1, <3>2
  <2>2. QED
    BY <1>1, <2>1 DEF BudgetInv, Mapless, Rule
<1>5. ASSUME NEW n \in Messages, pc'[n] = "makecounts"
      PROVE  Fresh(n)'
  <2>1. CASE n = m
    <3>1. countsOf[type] = Nil /\ Nil # m /\ m \in Owners
      BY <1>2, <1>5, <2>1, RuleAssumption DEF Owners
    <3>2. \A k \in Messages : counts[type][m][k] = 0
                             /\ (pc[k] \in Counted => Rule(k).type # type)
      BY <1>1, <3>1 DEF BudgetInv, Mapless
    <3>3. \A k \in Messages : pc'[k] \in Counted => pc[k] \in Counted
      BY <1>2, <1>5, <2>1 DEF Counted
    <3>4. QED
      BY <1>1, <2>1, <3>1, <3>2, <3>3 DEF Fresh, Rule
  <2>2. CASE n # m
    <3>1. Fresh(n) /\ pc[n] = "makecounts"
      BY <1>2, <1>5, <2>2 DEF BudgetInv
    <3>2. ASSUME NEW k \in Messages, pc'[k] \in Counted, held'[k] = n
          PROVE  Rule(k).type # Rule(n).type
      <4>1. CASE k = m
        BY <1>2, <3>1, <3>2, <4>1 DEF Fresh
      <4>2. CASE k # m
        BY <1>2, <3>1, <3>2, <4>2 DEF Fresh
      <4>3. QED
        BY <4>1, <4>2
    <3>3. QED
      BY <1>1, <3>1, <3>2 DEF Fresh, Rule
  <2>3. QED
    BY <2>1, <2>2
<1>6. QED
  BY <1>3, <1>4, <1>5 DEF BudgetInv, Fresh

\* A map is made, over one that another handler may have made: nothing of that
\* type is counted any more, in no map.
LEMMA BudgetLoss ==
    ASSUME IInv, BudgetInv, NEW m \in Messages, MakeCounts(m)
    PROVE  BudgetInv'
<1> DEFINE type == Rule(m).type
<1>1. /\ pc[m] = "makecounts" /\ type \in Types /\ at[m] \in Indices
      /\ held' = [held EXCEPT ![m] = m]
      /\ countsOf' = [countsOf EXCEPT ![type] = m]
      /\ uncounted' = uncounted \cup {a \in applied : Rules[a[2]].type = type}
      /\ pc' = [pc EXCEPT ![m] = "gate"]
      /\ UNCHANGED <<at, counts, applied, sent>>
  BY RuleProperties DEF MakeCounts, At, Goto, IInv
<1>2. /\ held'[m] = m /\ pc'[m] = "gate" /\ countsOf'[type] = m
      /\ m # Nil
      /\ \A t \in Types : t # type => countsOf'[t] = countsOf[t]
      /\ \A n \in Messages : n # m => pc'[n] = pc[n] /\ held'[n] = held[n]
  BY <1>1, RuleAssumption DEF IInv, TypeOK
<1>3. /\ \A n \in Messages : counts[type][m][n] = 0
      /\ \A n \in Messages : pc[n] \in Counted /\ held[n] = m =>
                                Rule(n).type # type
  BY <1>1 DEF BudgetInv, Fresh
<1>4. \A n \in Messages, t \in Types : t = type => CountedOf(n, t)' = {}
  <2>1. ASSUME NEW n \in Messages, NEW i \in Indices, Rules[i].type = type,
               <<n, i>> \in applied
        PROVE  <<n, i>> \in uncounted'
    BY <1>1, <2>1
  <2>2. applied' = applied
    BY <1>1
  <2>3. QED
    BY <2>1, <2>2 DEF CountedOf
<1>5. \A n \in Messages, t \in Types :
        t # type => CountedOf(n, t)' = CountedOf(n, t)
  <2>1. ASSUME NEW n \in Messages, NEW i \in Indices, Rules[i].type # type
        PROVE  <<n, i>> \in uncounted' <=> <<n, i>> \in uncounted
    BY <1>1, <2>1
  <2>2. QED
    BY <1>1, <2>1 DEF CountedOf
<1> HIDE DEF type
<1>6. ASSUME NEW n \in Messages
      PROVE  Budget(n)'
  <2>1. Budget(n) /\ Rule(n)' = Rule(n)
    BY <1>1 DEF BudgetInv, Rule
  <2>2. /\ pc'[n] \in Passed => pc[n] \in Passed
        /\ pc'[n] = "finish" <=> pc[n] = "finish"
        /\ n # m => pc'[n] = pc[n] /\ held'[n] = held[n]
        /\ n = m => Rule(n).type = type
    BY <1>1, <1>2 DEF Passed, Counted, type
  <2>3. ASSUME NEW t \in Types, t # type
        PROVE  /\ countsOf'[t] # Nil =>
                    counts'[t][countsOf'[t]][n] = Cardinality(CountedOf(n, t)')
               /\ pc'[n] \in Counted /\ Rule(n).type = t
                    /\ held'[n] # countsOf'[t] => CountedOf(n, t)' = {}
               /\ MaxApply[t] # Infinite =>
                    /\ Cardinality(CountedOf(n, t)') <= MaxApply[t]
                    /\ pc'[n] \in Passed /\ Rule(n).type = t =>
                         Cardinality(CountedOf(n, t)') < MaxApply[t]
    <3>1. countsOf'[t] = countsOf[t] /\ CountedOf(n, t)' = CountedOf(n, t)
      BY <1>2, <1>5, <2>3
    <3>2. QED
      BY <1>1, <2>1, <2>2, <2>3, <3>1 DEF Budget
  <2>4. ASSUME MaxApply[type] # Infinite
        PROVE  /\ 0 <= MaxApply[type]
               /\ pc[n] \in Passed /\ Rule(n).type = type => 0 < MaxApply[type]
    <3>1. MaxApply[type] \in Nat /\ Cardinality(CountedOf(n, type)) \in Nat
      BY <1>1, <2>4, LimitTypes, CountedFinite
    <3>2. QED
      BY <1>1, <2>1, <2>4, <3>1 DEF Budget
  <2>6. ASSUME NEW t \in Types, t = type
        PROVE  /\ countsOf'[t] # Nil =>
                    counts'[t][countsOf'[t]][n] = Cardinality(CountedOf(n, t)')
               /\ pc'[n] \in Counted /\ Rule(n).type = t
                    /\ held'[n] # countsOf'[t] => CountedOf(n, t)' = {}
               /\ MaxApply[t] # Infinite =>
                    /\ Cardinality(CountedOf(n, t)') <= MaxApply[t]
                    /\ pc'[n] \in Passed /\ Rule(n).type = t =>
                         Cardinality(CountedOf(n, t)') < MaxApply[t]
    <3>1. CountedOf(n, t)' = {} /\ Cardinality(CountedOf(n, t)') = 0
      BY <1>4, <2>6, FS_EmptySet
    <3>2. countsOf'[t] # Nil => counts'[t][countsOf'[t]][n] = 0
      BY <1>1, <1>2, <1>3, <2>6
    <3>3. QED
      BY <2>2, <2>4, <2>6, <3>1, <3>2
  <2>7. QED
    BY <1>1, <2>1, <2>2, <2>3, <2>6 DEF Budget
<1>7. Mapless'
  <2>1. ASSUME NEW t \in Types, countsOf'[t] = Nil, NEW n \in Messages,
               pc'[n] \in Counted
        PROVE  Rule(n).type # t
    <3>1. t # type /\ countsOf[t] = Nil
      BY <1>2, <2>1
    <3>2. n = m \/ pc[n] \in Counted
      BY <1>2, <2>1
    <3>3. QED
      BY <3>1, <3>2 DEF BudgetInv, Mapless, type
  <2>2. QED
    BY <1>1, <1>2, <2>1 DEF BudgetInv, Mapless, Rule
<1>8. ASSUME NEW n \in Messages, pc'[n] = "makecounts"
      PROVE  Fresh(n)'
  <2>1. n # m /\ pc[n] = "makecounts" /\ Fresh(n) /\ Rule(n)' = Rule(n)
    BY <1>1, <1>2, <1>8 DEF BudgetInv, Rule
  <2>2. Rule(n).type \in Types
    BY <2>1, RuleProperties DEF IInv
  <2>3. countsOf'[Rule(n).type] # n
    BY <1>2, <2>1, <2>2 DEF Fresh
  <2>4. ASSUME NEW k \in Messages, pc'[k] \in Counted, held'[k] = n
        PROVE  Rule(k).type # Rule(n).type
    <3>1. k # m /\ pc[k] \in Counted /\ held[k] = n
      BY <1>2, <2>1, <2>4
    <3>2. QED
      BY <2>1, <3>1 DEF Fresh
  <2>5. QED
    BY <1>1, <2>1, <2>3, <2>4 DEF Fresh, Rule
<1>9. QED
  BY <1>6, <1>7, <1>8 DEF BudgetInv, Fresh

\* The gate lets a message through where the bound leaves room: in the map of
\* the type, or in one that was replaced, and then nothing is counted.
LEMMA BudgetGate ==
    ASSUME IInv, BudgetInv, NEW m \in Messages, Gate(m), Goto(m, "trig"),
           UNCHANGED at, ~AppliedEnough(m)
    PROVE  BudgetInv'
<1> DEFINE type == Rule(m).type
<1>1. /\ pc[m] = "gate" /\ held[m] \in Owners /\ type \in Types
      /\ pc' = [pc EXCEPT ![m] = "trig"]
      /\ UNCHANGED <<countsOf, counts, held, applied, uncounted, sent>>
  BY RuleProperties DEF Gate, At, Goto, IInv, Holding, Counted, robot, local
<1>2. /\ pc'[m] = "trig" /\ pc[m] \in Counted
      /\ \A n \in Messages : n # m => pc'[n] = pc[n]
  BY <1>1 DEF IInv, TypeOK, Counted
<1>3. MaxApply[type] # Infinite => Cardinality(CountedOf(m, type)) < MaxApply[type]
  <2>1. SUFFICES ASSUME MaxApply[type] # Infinite
                 PROVE  Cardinality(CountedOf(m, type)) < MaxApply[type]
    OBVIOUS
  <2>2. /\ counts[type][held[m]][m] \in Nat /\ MaxApply[type] \in Nat
        /\ Budget(m) /\ countsOf[type] # Nil
    BY <1>1, <1>2, <2>1, LimitTypes DEF IInv, TypeOK, BudgetInv, Mapless
  <2>3. counts[type][held[m]][m] < MaxApply[type]
    BY <2>1, <2>2 DEF AppliedEnough
  <2>4. CASE held[m] = countsOf[type]
    BY <1>1, <2>2, <2>3, <2>4 DEF Budget
  <2>5. CASE held[m] # countsOf[type]
    <3>1. CountedOf(m, type) = {}
      BY <1>1, <1>2, <2>2, <2>5 DEF Budget
    <3>2. QED
      BY <2>2, <2>3, <3>1, FS_EmptySet
  <2>6. QED
    BY <2>4, <2>5
<1>4. ASSUME NEW n \in Messages
      PROVE  Budget(n)'
  <2>1. Budget(n) /\ \A t \in Types : CountedOf(n, t)' = CountedOf(n, t)
    BY <1>1 DEF BudgetInv, CountedOf
  <2>2. CASE n # m
    BY <1>1, <1>2, <2>1, <2>2 DEF Budget, Rule
  <2>3. CASE n = m
    BY <1>1, <1>2, <1>3, <2>1, <2>3 DEF Budget, Rule
  <2>4. QED
    BY <2>2, <2>3
<1>5. /\ \A n \in Messages : pc'[n] \in Counted <=> pc[n] \in Counted
      /\ \A n \in Messages : pc'[n] = "makecounts" <=> pc[n] = "makecounts"
  BY <1>1, <1>2 DEF Counted
<1>6. QED
  BY <1>1, <1>4, <1>5 DEF BudgetInv, Mapless, Fresh, Rule

\* The reply is sent, and is then the one that is not yet counted.
LEMMA BudgetSend ==
    ASSUME IInv, BudgetInv, NEW m \in Messages, Send(m)
    PROVE  BudgetInv'
<1>1. /\ pc[m] = "send" /\ pc' = [pc EXCEPT ![m] = "finish"]
      /\ UNCHANGED <<at, countsOf, counts, held, applied, uncounted>>
      /\ sent' \subseteq sent \cup {<<m, at[m]>>}
  BY DEF Send, At, Goto, robot, local
<1>2. pc'[m] = "finish" /\ \A n \in Messages : n # m => pc'[n] = pc[n]
  BY <1>1 DEF IInv, TypeOK
<1>3. ASSUME NEW n \in Messages
      PROVE  Budget(n)'
  <2>1. Budget(n) /\ \A t \in Types : CountedOf(n, t)' = CountedOf(n, t)
    BY <1>1 DEF BudgetInv, CountedOf
  <2>2. CASE n # m
    <3>1. \A i \in Indices : <<n, i>> \in sent' => <<n, i>> \in sent
      BY <1>1, <2>2
    <3>2. QED
      BY <1>1, <1>2, <2>1, <2>2, <3>1 DEF Budget, Rule
  <2>3. CASE n = m
    <3>1. \A i \in Indices : <<n, i>> \in sent' => <<n, i>> \in sent \/ i = at[n]
      BY <1>1, <2>3
    <3>2. pc[n] \in Counted /\ pc[n] \in Passed /\ pc[n] # "finish"
      BY <1>1, <2>3 DEF Counted, Passed
    <3>3. QED
      BY <1>1, <1>2, <2>1, <2>3, <3>1, <3>2 DEF Budget, Rule
  <2>4. QED
    BY <2>2, <2>3
<1>4. /\ \A n \in Messages : pc'[n] \in Counted <=> pc[n] \in Counted
      /\ \A n \in Messages : pc'[n] = "makecounts" <=> pc[n] = "makecounts"
  BY <1>1, <1>2 DEF Counted
<1>5. QED
  BY <1>1, <1>3, <1>4 DEF BudgetInv, Mapless, Fresh, Rule

\* The rule was applied and the handler is past it: it is counted in the map
\* of the type, or was counted in one that had been replaced.
LEMMA BudgetFinish ==
    ASSUME IInv, BudgetInv, NEW m \in Messages, Finish(m)
    PROVE  BudgetInv'
<1> DEFINE type == Rule(m).type
           o == held[m]
<1>1. /\ pc[m] = "finish" /\ o \in Owners /\ type \in Types
      /\ at[m] \in Indices /\ at[m] \in Int
      /\ UNCHANGED <<countsOf, held, sent>>
      /\ applied' = applied \cup {<<m, at[m]>>}
      /\ uncounted' = IF o = countsOf[type] THEN uncounted
                      ELSE uncounted \cup {<<m, at[m]>>}
      /\ at' = [at EXCEPT ![m] = @ + 1]
      /\ counts' = [counts EXCEPT ![type][o][m] = @ + 1]
  <2>1. pc[m] = "finish" /\ held[m] \in Owners
    BY DEF Finish, At, IInv, Holding, Counted
  <2>2. type \in Types /\ at[m] \in Indices
    BY <2>1, RuleProperties DEF IInv
  <2>3. at[m] \in Int
    BY <2>2, RuleAssumption, LenProperties DEF Indices
  <2>4. QED
    BY <2>1, <2>2, <2>3 DEF Finish, Count, Leave, local
<1>2. /\ pc'[m] \in {"enter", "done"} /\ at'[m] = at[m] + 1
      /\ \A n \in Messages : n # m => pc'[n] = pc[n] /\ at'[n] = at[n]
      /\ pc[m] \in Counted /\ pc[m] \in Passed
      /\ \A n \in Messages : pc'[n] \in Counted => n # m /\ pc[n] \in Counted
      /\ \A n \in Messages : pc'[n] = "makecounts" => n # m /\ pc[n] = "makecounts"
  BY <1>1 DEF Finish, Leave, Goto, IInv, TypeOK, Counted, Passed
<1>3. \A t \in Types, p \in Owners, n \in Messages :
        counts'[t][p][n] = IF t = type /\ p = o /\ n = m THEN counts[t][p][n] + 1
                           ELSE counts[t][p][n]
  BY <1>1 DEF IInv, TypeOK
<1>n. countsOf[type] # Nil
  BY <1>1, <1>2 DEF BudgetInv, Mapless
<1>o. \A t \in Types : countsOf[t] # Nil => countsOf[t] \in Owners
  BY DEF IInv, TypeOK
<1> HIDE DEF type, o
<1>4. ASSUME NEW n \in Messages, n # m
      PROVE  Budget(n)'
  <2>1. Budget(n)
    BY DEF BudgetInv
  <2>2. \A i \in Indices : /\ <<n, i>> \in applied' <=> <<n, i>> \in applied
                           /\ <<n, i>> \in uncounted' <=> <<n, i>> \in uncounted
    BY <1>1, <1>4
  <2>3. \A t \in Types : CountedOf(n, t)' = CountedOf(n, t)
    BY <2>2 DEF CountedOf
  <2>4. \A t \in Types : countsOf[t] # Nil =>
          counts'[t][countsOf[t]][n] = counts[t][countsOf[t]][n]
    BY <1>3, <1>4, <1>o
  <2>5. QED
    BY <1>1, <1>2, <1>4, <2>1, <2>2, <2>3, <2>4 DEF Budget, Rule
<1>5. Budget(m)'
  <2>1. Budget(m)
    BY DEF BudgetInv
  <2>2. \A i \in Indices : <<m, i>> \in applied' <=> <<m, i>> \in applied \/ i = at[m]
    BY <1>1
  <2>3. /\ pc'[m] \notin Counted /\ pc'[m] \notin Passed
        /\ \A i \in Indices : i \in Int
    BY <1>2, RuleAssumption, LenProperties DEF Counted, Passed, Indices
  <2>4. \A i \in Indices : <<m, i>> \in applied' => i < at'[m]
    BY <1>1, <1>2, <2>1, <2>2, <2>3 DEF Budget
  <2>5. \A i \in Indices : <<m, i>> \in sent' => <<m, i>> \in applied'
    BY <1>1, <2>1, <2>2 DEF Budget
  <2>6. <<m, at[m]>> \notin applied /\ <<m, at[m]>> \notin uncounted
    BY <1>1, <2>1 DEF Budget, IInv, TypeOK
  <2>7. ASSUME NEW t \in Types
        PROVE  /\ countsOf[t] # Nil =>
                    counts'[t][countsOf[t]][m] = Cardinality(CountedOf(m, t)')
               /\ MaxApply[t] # Infinite =>
                    Cardinality(CountedOf(m, t)') <= MaxApply[t]
    <3>1. CASE t # type \/ o # countsOf[t]
      <4>1. CountedOf(m, t)' = CountedOf(m, t)
        <5>1. ASSUME NEW i \in Indices, Rules[i].type = t
              PROVE  /\ <<m, i>> \in applied' /\ <<m, i>> \notin uncounted'
                     <=> <<m, i>> \in applied /\ <<m, i>> \notin uncounted
          <6>1. CASE i # at[m]
            BY <1>1, <6>1
          <6>2. CASE i = at[m]
            <7>1. t = type /\ o # countsOf[type]
              BY <3>1, <5>1, <6>2 DEF type, Rule
            <7>2. QED
              BY <1>1, <2>6, <6>2, <7>1
          <6>3. QED
            BY <6>1, <6>2
        <5>2. QED
          BY <5>1 DEF CountedOf
      <4>2. countsOf[t] # Nil => counts'[t][countsOf[t]][m] = counts[t][countsOf[t]][m]
        BY <1>3, <1>o, <3>1
      <4>3. QED
        BY <2>1, <4>1, <4>2 DEF Budget
    <3>2. CASE t = type /\ o = countsOf[t]
      <4>1. CountedOf(m, t)' = CountedOf(m, t) \cup {at[m]}
        <5>1. uncounted' = uncounted
          BY <1>1, <3>2
        <5>2. QED
          BY <1>1, <2>2, <2>6, <3>2, <5>1 DEF CountedOf, type, Rule
      <4>2. at[m] \notin CountedOf(m, t)
        BY <2>6 DEF CountedOf
      <4>3. Cardinality(CountedOf(m, t)') = Cardinality(CountedOf(m, t)) + 1
        BY <4>1, <4>2, CountedFinite, FS_AddElement
      <4>4. MaxApply[t] # Infinite => Cardinality(CountedOf(m, t)) < MaxApply[t]
        BY <1>2, <2>1, <3>2 DEF Budget, type
      <4>5. counts'[t][countsOf[t]][m] = counts[t][countsOf[t]][m] + 1
        BY <1>1, <1>3, <3>2
      <4>6. counts[t][countsOf[t]][m] = Cardinality(CountedOf(m, t))
        BY <1>n, <2>1, <3>2 DEF Budget
      <4>7. MaxApply[t] # Infinite =>
              Cardinality(CountedOf(m, t)) + 1 <= MaxApply[t]
        BY <4>4, CountedFinite, LimitTypes
      <4>8. QED
        BY <4>3, <4>5, <4>6, <4>7
    <3>3. QED
      BY <3>1, <3>2
  <2>8. QED
    BY <1>1, <2>3, <2>4, <2>5, <2>7 DEF Budget
<1>6. Mapless'
  <2>1. ASSUME NEW t \in Types, countsOf[t] = Nil, NEW n \in Messages
        PROVE  /\ pc'[n] \in Counted => Rule(n)'.type # t
               /\ \A p \in Owners : counts'[t][p][n] = 0
    <3>1. t # type
      BY <1>n, <2>1
    <3>2. QED
      BY <1>2, <1>3, <2>1, <3>1 DEF BudgetInv, Mapless, Rule
  <2>2. QED
    BY <1>1, <2>1 DEF Mapless
<1>7. ASSUME NEW n \in Messages, pc'[n] = "makecounts"
      PROVE  Fresh(n)'
  <2>1. /\ n # m /\ pc[n] = "makecounts" /\ Fresh(n) /\ Rule(n)' = Rule(n)
        /\ n \in Owners
    BY <1>2, <1>7 DEF BudgetInv, Rule, Owners
  <2>2. Rule(n).type \in Types
    BY <2>1, RuleProperties DEF IInv
  <2>3. ~(Rule(n).type = type /\ n = o)
    BY <1>1, <1>2, <2>1 DEF Fresh, type, o
  <2>4. \A k \in Messages : counts'[Rule(n).type][n][k] = 0
    BY <1>3, <2>1, <2>2, <2>3 DEF Fresh
  <2>5. \A k \in Messages : pc'[k] \in Counted /\ held'[k] = n =>
                             Rule(k)'.type # Rule(n).type
    BY <1>1, <1>2, <2>1 DEF Fresh, Rule
  <2>6. QED
    BY <1>1, <2>1, <2>4, <2>5 DEF Fresh
<1>8. QED
  BY <1>4, <1>5, <1>6, <1>7 DEF BudgetInv, Fresh

\* Every other step is one of BudgetQuiet.
LEMMA BudgetInductive ==
    IInv /\ BudgetInv /\ [Next]_vars => BudgetInv'
<1> SUFFICES ASSUME IInv, BudgetInv, [Next]_vars
             PROVE  BudgetInv'
  OBVIOUS
<1>t. TypeOK
  BY DEF IInv
<1>1. ASSUME NEW m \in Messages, NEW l \in Labels, Goto(m, l),
             UNCHANGED <<at, countsOf, counts, held, applied, uncounted, sent>>,
             l # "makecounts", pc[m] # "finish",
             l \in Counted => pc[m] \in Counted,
             l \in Passed => pc[m] \in Passed
      PROVE  BudgetInv'
  <2>1. pc'[m] = l /\ \A n \in Messages : n # m => pc'[n] = pc[n]
    BY <1>1, <1>t DEF Goto, TypeOK
  <2>2. QED
    BY <1>1, <1>t, <2>1, BudgetQuiet
<1>2. ASSUME NEW m \in Messages, NEW stop \in BOOLEAN, Leave(m, stop),
             pc[m] # "finish",
             UNCHANGED <<countsOf, counts, held, applied, uncounted, sent>>
      PROVE  BudgetInv'
  <2>1. /\ pc'[m] \in {"enter", "done"} /\ at'[m] = at[m] + 1
        /\ \A n \in Messages : n # m => pc'[n] = pc[n] /\ at'[n] = at[n]
    BY <1>2, <1>t DEF Leave, Goto, TypeOK
  <2>2. QED
    BY <1>2, <1>t, <2>1, BudgetQuiet
<1>3. ASSUME NEW m \in Messages, Deliver(m) \/ Enter(m) \/ GetMemberInfo(m)
      PROVE  BudgetInv'
  <2>1. /\ pc[m] \in {"idle", "enter", "info"}
        /\ UNCHANGED <<at, countsOf, counts, held, applied, uncounted, sent>>
        /\ \E l \in {"enter", "info", "judge"} : Goto(m, l)
    BY <1>3 DEF Deliver, Enter, GetMemberInfo, At, robot, local, history
  <2>2. QED
    BY <1>1, <2>1 DEF Labels, Counted, Passed
<1>4. ASSUME NEW m \in Messages, Judge(m)
      PROVE  BudgetInv'
  <2>1. /\ pc[m] = "judge"
        /\ UNCHANGED <<countsOf, counts, held, applied, uncounted, sent>>
    BY <1>4 DEF Judge, At, robot, local, history
  <2>2. (Goto(m, "counts") /\ UNCHANGED at) \/ Leave(m, FALSE)
    BY <1>4 DEF Judge
  <2>3. QED
    BY <1>1, <1>2, <2>1, <2>2 DEF Labels, Counted, Passed
<1>7. ASSUME NEW m \in Messages, Gate(m)
      PROVE  BudgetInv'
  <2>1. pc[m] = "gate" /\ UNCHANGED <<countsOf, counts, held, applied, uncounted, sent>>
    BY <1>7 DEF Gate, At, robot, local
  <2>2. \/ Leave(m, FALSE)
        \/ ~AppliedEnough(m) /\ Goto(m, "trig") /\ UNCHANGED at
    BY <1>7, Zenon DEF Gate
  <2>3. QED
    BY <1>2, <1>7, <2>1, <2>2, BudgetGate
<1>8. ASSUME NEW m \in Messages, Account(m), ~LookupCounts(m), ~MakeCounts(m),
             ~Gate(m)
      PROVE  BudgetInv'
  <2>1. /\ pc[m] \in {"trig", "maketrig", "readtrig", "writetrig", "stamp",
                      "makestamp", "writestamp"}
        /\ UNCHANGED <<at, countsOf, counts, held, applied, uncounted, sent>>
        /\ \E l \in {"maketrig", "readtrig", "writetrig", "stamp", "makestamp",
                     "writestamp", "act"} : Goto(m, l)
    BY <1>8 DEF Account, LookupTriggers, MakeTriggers, ReadTriggers, WriteTriggers,
       LookupStamps, MakeStamps, WriteStamp, At, robot, local, history
  <2>2. QED
    BY <1>1, <2>1 DEF Labels, Counted, Passed
<1>9. ASSUME NEW m \in Messages, Compose(m) \/ Repeat(m) \/ AddWhiteList(m)
      PROVE  BudgetInv'
  <2>1. /\ pc[m] = "act" /\ Goto(m, "send")
        /\ UNCHANGED <<at, countsOf, counts, held, applied, uncounted, sent>>
    BY <1>9 DEF Compose, Repeat, AddWhiteList, Acting, At, robot, local, history
  <2>2. QED
    BY <1>1, <2>1 DEF Labels, Counted, Passed
<1>10. ASSUME NEW m \in Messages, GiveUp(m) \/ SendFails(m)
       PROVE  BudgetInv'
  <2>1. /\ pc[m] \in {"act", "send"}
        /\ UNCHANGED <<countsOf, counts, held, applied, uncounted, sent>>
        /\ \E stop \in BOOLEAN : Leave(m, stop)
    BY <1>10, <1>t DEF GiveUp, SendFails, At, robot, local, history, TypeOK
  <2>2. QED
    BY <1>2, <2>1
<1>11. ASSUME NEW m \in Messages, CreateFood(m)
       PROVE  BudgetInv'
  <2>1. /\ pc[m] = "act" /\ UNCHANGED <<countsOf, counts, held, applied, uncounted, sent>>
        /\ (Goto(m, "send") /\ UNCHANGED at) \/ Leave(m, TRUE)
    BY <1>11 DEF CreateFood, Acting, At, robot, local, history
  <2>2. QED
    BY <1>1, <1>2, <2>1 DEF Labels, Counted, Passed
<1>12. CASE Tick \/ FatalAccess \/ UNCHANGED vars
  <2>1. UNCHANGED <<pc, at, countsOf, counts, held, applied, uncounted, sent>>
    BY <1>12 DEF Tick, FatalAccess, vars, robot, local, history
  <2>2. \A n \in Messages : Budget(n)'
    BY <2>1 DEF BudgetInv, Budget, CountedOf, Rule
  <2>3. Mapless' /\ \A n \in Messages : Fresh(n)'
    BY <2>1 DEF BudgetInv, Mapless, Fresh, Rule
  <2>4. QED
    BY <2>2, <2>3 DEF BudgetInv
<1>13. ASSUME NEW m \in Messages, Account(m) \/ Answer(m)
       PROVE  BudgetInv'
  BY <1>7, <1>8, <1>9, <1>10, <1>11, <1>13, BudgetLookup, BudgetLoss, BudgetSend,
     BudgetFinish DEF Answer
<1>14. ASSUME NEW m \in Messages, Deliver(m) \/ Enter(m) \/ Apply(m)
       PROVE  BudgetInv'
  BY <1>3, <1>4, <1>13, <1>14 DEF Apply
<1>15. QED
  BY <1>12, <1>14 DEF Next

\* No message is answered by more rules of a type than type_max_apply_count
\* says, for any rules and limits, however handlers of other messages count in
\* the same maps: the count of a message is written by its own handler only,
\* which takes the rules one after the other.  From the empty maps of the start
\* on, an answer escapes the limit in one way only, counted in a map that
\* another handler replaced.
THEOREM ApplyBounded == Spec => []MaxApplyRespected
<1>1. Init => BudgetInv
  <2> SUFFICES ASSUME Init
               PROVE  BudgetInv
    OBVIOUS
  <2>1. /\ sent = {} /\ applied = {}
        /\ \A m \in Messages : pc[m] = "idle"
        /\ \A t \in Types, o \in Owners, m \in Messages : counts[t][o][m] = 0
        /\ \A t \in Types : countsOf[t] # Nil => countsOf[t] \in Owners
    BY DEF Init, Owners
  <2>2. \A t \in Types, m \in Messages : CountedOf(m, t) = {}
    BY <2>1 DEF CountedOf
  <2>3. \A t \in Types : MaxApply[t] # Infinite => 0 <= MaxApply[t]
    BY LimitTypes
  <2>4. \A m \in Messages : Budget(m)
    BY <2>1, <2>2, <2>3, FS_EmptySet DEF Budget, Counted, Passed
  <2>5. Mapless /\ \A m \in Messages : Fresh(m)
    BY <2>1 DEF Mapless, Fresh, Counted
  <2>6. QED
    BY <2>4, <2>5 DEF BudgetInv
<1>2. IInv /\ BudgetInv /\ [Next]_vars => BudgetInv'
  BY BudgetInductive
<1>3. IInv /\ BudgetInv => MaxApplyRespected
  <2> SUFFICES ASSUME IInv, BudgetInv, NEW m \in Messages, NEW t \in Types,
                      MaxApply[t] # Infinite
               PROVE  Cardinality(Answered(m, t)) <= MaxApply[t]
    BY DEF MaxApplyRespected
  <2> DEFINE S == CountedOf(m, t)
  <2>1. /\ Budget(m) /\ MaxApply[t] \in Nat /\ IsFiniteSet(S)
        /\ Cardinality(S) \in Nat /\ Cardinality(S) <= MaxApply[t]
    BY LimitTypes, CountedFinite DEF BudgetInv, Budget
  <2>2. CASE Answered(m, t) = S
    BY <2>1, <2>2
  <2>3. CASE Answered(m, t) # S
    <3>1. PICK i \in Indices : /\ <<m, i>> \in sent /\ <<m, i>> \notin applied
                              /\ Rules[i].type = t
      BY <2>3 DEF Answered, CountedOf
    <3>2. pc[m] = "finish" /\ at[m] = i
      BY <2>1, <3>1 DEF Budget
    <3>3. Cardinality(S) < MaxApply[t]
      BY <2>1, <3>1, <3>2 DEF Budget, Passed, Counted, Rule
    <3>4. Answered(m, t) \subseteq S \cup {i}
      BY <2>1, <3>2 DEF Answered, CountedOf, Budget
    <3> HIDE DEF S
    <3>5. /\ IsFiniteSet(S \cup {i})
          /\ Cardinality(S \cup {i}) = IF i \in S THEN Cardinality(S)
                                       ELSE Cardinality(S) + 1
      BY <2>1, FS_AddElement
    <3>6. /\ Cardinality(Answered(m, t)) <= Cardinality(S \cup {i})
          /\ Cardinality(Answered(m, t)) \in Nat
          /\ Cardinality(S \cup {i}) \in Nat
      BY <3>4, <3>5, FS_Subset, FS_CardinalityType
    <3>7. QED
      BY <2>1, <3>3, <3>5, <3>6
  <2>4. QED
    BY <2>2, <2>3
<1>4. QED
  BY <1>1, <1>2, <1>3, Invariance, PTL DEF Spec
=============================================================================
