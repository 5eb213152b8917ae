---------------------------- MODULE MCRuleEngine ----------------------------
(***************************************************************************)
(* Instances of RuleEngine: rules that limit each other (two of one type,  *)
(* one with a CD, one that watches for abuse) and messages of one group.   *)
(***************************************************************************)
EXTENDS RuleEngine, TLC

CONSTANTS m1, m2, m3

PlainRule ==
    [name |-> "plain", type |-> "help", cd |-> 0, inCd |-> FALSE,
     count |-> 0, duration |-> 0, action |-> "guide", excludeAdmin |-> FALSE,
     mutes |-> FALSE, parseMute |-> FALSE]

HelpRule == [PlainRule EXCEPT !.name = "help", !.cd = 2]
CdReplyRule == [HelpRule EXCEPT !.inCd = TRUE]
CommandRule ==
    [PlainRule EXCEPT !.name = "command", !.action = "whitelist",
                      !.excludeAdmin = TRUE, !.mutes = TRUE]
FoodRule == [PlainRule EXCEPT !.name = "food", !.type = "fun",
                              !.action = "food"]
AbuseRule ==
    [PlainRule EXCEPT !.name = "abuse", !.type = "fun", !.action = "silent",
                      !.count = 1, !.duration = 2, !.parseMute = TRUE]
RepeatRule == [PlainRule EXCEPT !.name = "repeat", !.action = "repeat",
                                !.type = "fun"]

Message(id, sender, admin, hits) ==
    [id |-> id, group |-> "g", sender |-> sender, admin |-> admin,
     hits |-> hits, editedHits |-> hits \ {3}, timeless |-> FALSE,
     target |-> "help", qq |-> "bob"]

CommandHelpAndAbuse == <<CommandRule, HelpRule, AbuseRule>>
FoodAndRepeat == <<CdReplyRule, RepeatRule, FoodRule>>
HelpAndFood == <<HelpRule, FoodRule>>
LimitedHelp == "help" :> 1 @@ "fun" :> -1

\* An admin sends a message that one rule could take and one that all could:
\* either may come late to a map that the other has made.
TwoOfOneSender ==
    m1 :> [Message(1, "bob", TRUE, {2}) EXCEPT !.target = "abuse"]
    @@ m2 :> [Message(2, "bob", TRUE, 1 .. 3) EXCEPT !.target = "abuse",
                                                     !.timeless = TRUE]

\* Two members; the second only talks about what rule 2 is for.
TwoSenders ==
    m1 :> Message(1, "bob", FALSE, 1 .. 3) @@ m2 :> Message(1, "eve", TRUE, 2 .. 3)

\* Three messages for two rules.
ThreeMessages ==
    m1 :> Message(1, "bob", FALSE, {1})
    @@ m2 :> Message(2, "eve", FALSE, {2})
    @@ m3 :> Message(3, "bob", FALSE, {1})
=============================================================================
