------------------------------ MODULE Splitting ------------------------------
(* Messages too long for one (coolq/util.go), and the robot's own version of *)
(* it for what it forwards (qqrobot/qq_robot.go, util.go).                   *)
EXTENDS CQCode, FiniteSetsExt

CONSTANTS
    MaxMessageSize, \* bytes a message may have: 5000 in the code
    Wide,           \* the characters of more than one byte, with their bytes
    ElementSize     \* external: what message.EstimateLength says of other elements

\* A character of UTF-8 has up to four bytes.
ASSUME WideAssumption == \A c \in DOMAIN Wide : Wide[c] \in 1..4
ASSUME MaxAssumption == MaxMessageSize \in Nat /\ MaxMessageSize >= 4
ASSUME ElementAssumption == ElementSize \in Nat

Width(c) == IF c \in DOMAIN Wide THEN Wide[c] ELSE 1

Bytes(s) ==
    LET sum[i \in 0..Len(s)] == IF i = 0 THEN 0 ELSE sum[i - 1] + Width(s[i])
    IN sum[Len(s)]

Size(e) == IF IsText(e) THEN Bytes(e.s) ELSE ElementSize

Estimate(es) ==
    LET sum[i \in 0..Len(es)] == IF i = 0 THEN 0 ELSE sum[i - 1] + Size(es[i])
    IN sum[Len(es)]

textNeedSplit(s) == Bytes(s) > MaxMessageSize

\* Texts that follow one another become one; an empty one that is left at the
\* end goes away.
Merged(r, e) ==
    IF IsText(e) /\ r # Nothing /\ IsText(r[Len(r)])
    THEN [r EXCEPT ![Len(r)] = Text(@.s \o e.s)] ELSE Append(r, e)

mergeContinuousTextMessages(es) ==
    LET merge[i \in 0..Len(es)] == IF i = 0 THEN Nothing ELSE Merged(merge[i - 1], es[i])
        merged == merge[Len(es)]
    IN IF Len(merged) < Len(es) /\ Last(merged) = Text(Nothing) THEN Front(merged) ELSE merged

\* Cut before the character that would make a part too long.
CutPlain(r, c) ==
    IF r # Nothing /\ Bytes(r[Len(r)].s) + Width(c) <= MaxMessageSize
    THEN Longer(r, c) ELSE Append(r, Text(<<c>>))

splitPlainMessage(s) ==
    LET cut[i \in 0..Len(s)] == IF i = 0 THEN Nothing ELSE CutPlain(cut[i - 1], s[i])
    IN IF textNeedSplit(s) THEN cut[Len(s)] ELSE <<Text(s)>>

splitElements(es) == Each(es, LAMBDA e : IF IsText(e) THEN splitPlainMessage(e.s) ELSE <<e>>)

\* A part is closed when the next element would not fit; one that fits in none
\* stands alone.
AddToPart(r, e) ==
    IF r # Nothing /\ Estimate(r[Len(r)]) + Estimate(<<e>>) <= MaxMessageSize
    THEN [r EXCEPT ![Len(r)] = Append(@, e)] ELSE Append(r, <<e>>)

\* A slip of splitMessages: the part that is open at the end is not added.
splitMessagesLosingLast(es) ==
    LET part[i \in 0..Len(es)] == IF i = 0 THEN Nothing ELSE AddToPart(part[i - 1], es[i])
        r == part[Len(es)]
    IN IF Len(r) > 1 THEN Front(r) ELSE r

splitMessages(es) ==
    LET part[i \in 0..Len(es)] == IF i = 0 THEN Nothing ELSE AddToPart(part[i - 1], es[i])
    IN part[Len(es)]

SplitLongMessage(es) == splitMessages(splitElements(mergeContinuousTextMessages(es)))

\* The robot's own: the longest beginning that fits, then the rest.
Fitting(s, i) == {j \in i..Len(s) : Bytes(SubSeq(s, i + 1, j)) <= MaxMessageSize}

robotParts(s) ==
    LET rest[i \in 0..Len(s)] ==
          IF i = Len(s) THEN Nothing
          ELSE LET j == Max(Fitting(s, i)) IN <<Text(SubSeq(s, i + 1, j))>> \o rest[j]
    IN rest[0]

robotPlain(s) == IF textNeedSplit(s) THEN robotParts(s) ELSE <<Text(s)>>

\* The robot forwards an image by its address and a mention as text; what it
\* does not know, an element taken out among them, becomes the JSON of it; so
\* does a JSON text of a service (with an id), which is not a light app's.
LightApp(e) == e.k = "json" /\ e.id = "0"
robotElements(es, up) ==
    Each(es, LAMBDA e : CASE e.k = "text" -> robotPlain(e.s)
                          [] e.k = "image" /\ e.of = "group" -> IF up THEN <<LocalImage>> ELSE Nothing
                          [] e.k = "at" -> <<Text(<<"@", e.to>>)>>
                          [] e.k = "face" \/ LightApp(e) -> <<e>>
                          [] OTHER -> robotPlain(<<"{}">>))

\* The robot's copies of merging and of closing parts do what the bot's do.
robotLongMessage(es, up) == splitMessages(robotElements(mergeContinuousTextMessages(es), up))

getForwardMessagesList(es, forRepeat, up) ==
    IF es = Nothing THEN Nothing
    ELSE LET m == IF forRepeat THEN es ELSE Append(es, Text(<<"-">>))
         IN robotLongMessage(m, up)

=============================================================================
