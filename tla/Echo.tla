--------------------------------- MODULE Echo ---------------------------------
(* A message from the server through the bot to an application, and what the *)
(* application sends for it back to the server: groupMessageEvent and        *)
(* privateMessageEvent (coolq/event.go), CQSendGroupMessage (coolq/api.go),  *)
(* SendGroupMessage with its uploads (coolq/bot.go), and the robot's         *)
(* forwarding of the same message (qqrobot/qq_robot.go).                     *)
EXTENDS Splitting

CONSTANTS
    Confs,      \* configurations of messages
    Received,   \* messages the server sends
    Composed    \* what applications write of their own: sequences of tokens

\* What the server sends: the elements the code has a case for (the others are
\* all one), with their texts, data and addresses.
WellFormed(e) ==
    /\ e.k \in {"text", "market", "redbag", "json", "xml", "image", "video", "record",
                "at", "face", "dice", "forward"} \cup Silent
    /\ e.k \in {"text", "market", "redbag", "json", "xml"} => IsSeq(e.s)
    /\ e.k \in {"image", "video", "record"} => IsSeq(e.url)
    /\ e.k = "at" => Bytes(<<"@", e.to>>) <= MaxMessageSize   \* a mention is far shorter

ASSUME ReceivedAssumption ==
    \A es \in Received :
        /\ IsSeq(es)
        /\ \A i \in DOMAIN es :
              /\ WellFormed(es[i])
              /\ es[i].k = "reply" => IsSeq(es[i].inner) /\ \A j \in DOMAIN es[i].inner : WellFormed(es[i].inner[j])
ASSUME ComposedAssumption == \A s \in Composed : IsSeq(s)

VARIABLES
    conf,       \* the configuration of messages
    at,         \* how far the message is
    elems,      \* the elements of the message, a slice that all handlers share
    world,      \* the server, the cached media, the recorded messages
    report,     \* what is reported: message and raw_message
    ask,        \* what the application sends
    read,       \* ... read back into elements
    whole,      \* what is to go to the server
    parts       \* what goes to it

vars == <<conf, at, elems, world, report, ask, read, whole, parts>>

----------------------------------------------------------------------------

Media(es) == {es[i].file : i \in {j \in DOMAIN es : es[j].k \in {"image", "video", "record"}}}
checkMedia(es) == [world EXCEPT !.cached = @ \cup Media(es)]

\* The message is written once for the log, which takes the mention out of it,
\* then recorded, then written for the report.
Receive ==
    /\ at = "new"
    /\ LET seen == IF conf.removeAt THEN WithoutReplyAt(elems) ELSE elems
           record == [seq |-> "2", qq |-> "u2", time |-> "t2", content |-> ToMessageContent(seen)]
       IN /\ elems' = seen
          /\ world' = [checkMedia(elems) EXCEPT !.records = ("own" :> record) @@ @]
          /\ report' = [message |-> ToFormattedMessage(seen, conf), raw |-> ToStringMessage(seen, conf, TRUE)]
    /\ at' = "reported"
    /\ UNCHANGED <<conf, ask, read, whole, parts>>

\* The application sends the message back as it got it, or raw_message, or a
\* quotation of it.
Application ==
    /\ at = "reported"
    /\ \/ ask' = [of |-> "message", array |-> conf.array, body |-> report.message]
       \/ ask' = [of |-> "raw", array |-> FALSE, body |-> report.raw]
       \/ ask' = [of |-> "quote", array |-> FALSE, body |-> Code("reply", <<Field("id", <<"own">>)>>) \o <<"a">>]
    /\ at' = "asked"
    /\ UNCHANGED <<conf, elems, world, report, read, whole, parts>>

Compose ==
    /\ at = "none"
    /\ \E s \in Composed : ask' = [of |-> "composed", array |-> FALSE, body |-> s]
    /\ at' = "asked"
    /\ UNCHANGED <<conf, elems, world, report, read, whole, parts>>

\* The server may be gone by now.
Read ==
    /\ at = "asked"
    /\ \E up \in BOOLEAN :
         LET now == [world EXCEPT !.up = up]
         IN /\ world' = now
            /\ read' = IF ask.array THEN ConvertObjectMessage(ask.body, conf, now)
                       ELSE ConvertStringMessage(ask.body, conf, now)
    /\ at' = "read"
    /\ UNCHANGED <<conf, elems, report, ask, whole, parts>>

\* Local media are uploaded, or left out.
uploadLocal(e, up) == IF up THEN <<[e EXCEPT !.of = "uploaded"]>> ELSE Nothing
uploadMedia(e, up) ==
    IF e.k = "record" \/ (e.k \in {"image", "video"} /\ e.of = "local") THEN uploadLocal(e, up) ELSE <<e>>

Uploaded(es, mayAtAll, up) ==
    Each(es, LAMBDA e : IF e.k = "at" /\ e.to = "all" /\ ~mayAtAll THEN <<Text(<<"@", "all">>)>>
                        ELSE uploadMedia(e, up))

\* A poke ends it, and a song is sent alone.
Send ==
    /\ at = "read"
    /\ LET alone == {i \in DOMAIN read : read[i].k \in {"poke", "music"}}
           first == IF alone = {} THEN 0 ELSE Min(alone)
       IN \E mayAtAll \in BOOLEAN :
            LET es == Uploaded(read, mayAtAll, world.up)
            IN /\ whole' = IF first = 0 THEN es ELSE IF read[first].k = "poke" THEN Nothing ELSE <<read[first]>>
               /\ parts' = IF whole' = Nothing THEN Nothing
                           ELSE IF first # 0 \/ Estimate(es) <= MaxMessageSize THEN <<whole'>>
                           ELSE SplitLongMessage(es)
    /\ at' = "sent"
    /\ UNCHANGED <<conf, elems, world, report, ask, read>>

\* The robot's handler has the same slice, after the bot's.
Forward(forRepeat) ==
    /\ at = "reported"
    /\ parts' = getForwardMessagesList(elems, forRepeat, world.up)
    /\ whole' = robotElements(IF forRepeat \/ elems = Nothing THEN elems ELSE Append(elems, Text(<<"-">>)), world.up)
    /\ at' = "forwarded"
    /\ UNCHANGED <<conf, elems, world, report, ask, read>>

Again ==
    /\ at \in {"sent", "forwarded"}
    /\ UNCHANGED vars

Init ==
    /\ conf \in Confs
    /\ \/ at = "new" /\ elems \in Received
       \/ at = "none" /\ elems = Nothing
    /\ world \in [up : {TRUE}, cached : {{}},
                  records : {Nothing, "old" :> [seq |-> "1", qq |-> "u1", time |-> "t1", content |-> <<Text(<<"b">>)>>]}]
    /\ report = Nothing /\ ask = Nothing /\ read = Nothing
    /\ whole = Nothing /\ parts = Nothing

Next == Receive \/ Application \/ Compose \/ Read \/ Send \/ (\E r \in BOOLEAN : Forward(r)) \/ Again

Spec == Init /\ [][Next]_vars

----------------------------------------------------------------------------

\* What a message says, however its texts are cut: a text for each token.
Tokens(s) == [i \in DOMAIN s |-> Text(<<s[i]>>)]
Say(es) == Each(es, LAMBDA e : IF IsText(e) THEN Tokens(e.s) ELSE <<e>>)

\* What sending a received element back is meant to give: a red bag cannot be
\* sent, and a string says so.
Meant(e) ==
    CASE e.k \in {"text", "market"} -> <<Text(e.s)>>
      [] e.k \in {"at", "face", "dice", "json", "forward"} -> <<e>>
      [] e.k = "redbag" -> IF ask.array \/ conf.ignore THEN Nothing ELSE <<Text(Plain(e, FALSE))>>
      [] e.k = "xml" -> <<[e EXCEPT !.s = CQCodeEscapeValue(e.s)]>>
      [] e.k \in {"image", "video", "record"} -> <<[k |-> e.k, of |-> e.file]>>
      [] OTHER -> Nothing

\* Without what only some images have.
Bare(e) == IF e.k = "image" THEN [k |-> "image", of |-> e.of]
           ELSE IF e.k = "json" THEN [e EXCEPT !.id = "any"] ELSE e

NotReply(e) == e.k # "reply"

(* An application that sends back what was reported to it sends the message  *)
(* it got: every text as it was written, whatever it looks like, every       *)
(* mention, face and picture, in order - as a string, an array or the raw    *)
(* message, with the links cut or not.                                       *)
EchoSays ==
    at \in {"read", "sent"} /\ ask.of \in {"message", "raw"} /\ world.up =>
        LET got == SelectSeq(read, NotReply)
        IN Say([i \in DOMAIN got |-> Bare(got[i])])
             = Say(Each(elems, LAMBDA e : [i \in DOMAIN Meant(e) |-> Bare(Meant(e)[i])]))

(* However replies and forwarded messages are mixed, a message has at most   *)
(* one reply, and nothing is before it.                                      *)
ReplyLeads == \A i \in DOMAIN read : read[i].k = "reply" => i = 1

(* A long message arrives in parts that are not too long, but for those that *)
(* are one element which is no text and cannot be cut, and that say together *)
(* all of it in order.                                                       *)
SplitIsExact ==
    at \in {"sent", "forwarded"} =>
        /\ Say(FlattenSeq(parts)) = Say(whole)
        /\ \A i \in DOMAIN parts :
              \/ Estimate(parts[i]) <= MaxMessageSize
              \/ Len(parts[i]) = 1 /\ ~IsText(parts[i][1])

=============================================================================
