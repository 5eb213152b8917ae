-------------------------------- MODULE CQCode --------------------------------
(* Messages between the server and an application (coolq/cqcode.go): the     *)
(* elements of a message are written as a string with CQ codes or as an      *)
(* array of segments, and what an application sends is read back into        *)
(* elements.                                                                  *)
(*                                                                           *)
(* A string is a sequence of tokens: characters, and the parts of it that    *)
(* the code looks for as a whole.  "&" followed by "#91;" is the entity of   *)
(* "["; a "[" followed by "CQ:" opens a code.  "ho", "st" is a host name,    *)
(* which fix-url cuts in two.                                                *)
EXTENDS Naturals, FiniteSets, Sequences, SequencesExt, TLC

Nothing == <<>>
Text(s) == [k |-> "text", s |-> s]
IsText(e) == e.k = "text"
IsSeq(s) == s \in Seq({s[i] : i \in DOMAIN s})

----------------------------------------------------------------------------
(* Escaping. *)

Each(s, F(_)) == FlattenSeq([i \in DOMAIN s |-> F(s[i])])

CQCodeEscapeText(s) ==
    Each(s, LAMBDA c : CASE c = "&" -> <<"&", "amp;">>
                         [] c = "[" -> <<"&", "#91;">>
                         [] c = "]" -> <<"&", "#93;">>
                         [] OTHER -> <<c>>)

CQCodeEscapeValue(s) ==
    Each(CQCodeEscapeText(s), LAMBDA c : IF c = "," THEN <<"&", "#44;">> ELSE <<c>>)

\* strings.ReplaceAll of the entity with this tail.
Replaced(s, tail, char) ==
    LET entity(i) == i \in 1..Len(s) - 1 /\ s[i] = "&" /\ s[i + 1] = tail
    IN FlattenSeq([i \in DOMAIN s |-> CASE entity(i) -> <<char>>
                                        [] entity(i - 1) -> Nothing
                                        [] OTHER -> <<s[i]>>])

\* A slip of CQCodeUnescapeText: &amp; is taken first.
CQCodeUnescapeTextAmpFirst(s) ==
    Replaced(Replaced(Replaced(s, "amp;", "&"), "#91;", "["), "#93;", "]")

CQCodeUnescapeText(s) ==
    Replaced(Replaced(Replaced(s, "#91;", "["), "#93;", "]"), "amp;", "&")

CQCodeUnescapeValue(s) == CQCodeUnescapeText(Replaced(s, "#44;", ","))

----------------------------------------------------------------------------
(* Writing. *)

Field(key, val) == <<key, val>>
OfGuild(e) == e.k = "image" /\ e.of = "guild"

\* What a code says of an element; raw leaves out addresses, but a guild's.
Fields(e, raw) ==
    LET url == IF raw /\ ~OfGuild(e) THEN Nothing ELSE <<Field("url", e.url)>>
        kind == CASE e.flash /\ ~OfGuild(e) -> <<Field("type", <<"flash">>)>>
                  [] ~e.flash /\ e.effect # "0" /\ e.of = "group" -> <<Field("type", <<"show">>), Field("id", <<e.effect>>)>>
                  [] OTHER -> Nothing
        sub == IF e.of = "group" THEN <<Field("subType", <<e.sub>>)>> ELSE Nothing
    IN CASE e.k = "at" -> <<Field("qq", <<e.to>>)>>
         [] e.k \in {"face", "forward"} -> <<Field("id", <<e.id>>)>>
         [] e.k = "dice" -> <<Field("value", <<e.value>>)>>
         [] e.k = "redbag" -> <<Field("title", e.s)>>
         [] e.k = "record" -> <<Field("file", <<e.file>>)>> \o url
         [] e.k = "video" -> <<Field("file", <<e.file>>)>> \o url
         [] e.k = "image" -> <<Field("file", <<e.file>>)>> \o url \o kind \o sub
         [] e.k = "json" -> <<Field("data", e.s)>> \o (IF e.id = "0" THEN Nothing ELSE <<Field("resid", <<e.id>>)>>)
         [] e.k = "xml" -> <<Field("data", e.s), Field("resid", <<e.id>>)>>

Silent == {"reply", "nil", "other"}   \* nothing is written for these

Code(type, fields) ==
    <<"[", "CQ:", type>>
    \o Each(fields, LAMBDA f : <<",", f[1], "=">> \o IF f[1] \in {"url", "data", "text"}
                                                     THEN CQCodeEscapeValue(f[2]) ELSE f[2])
    \o <<"]">>

\* The keys of a segment differ from one another.
Segment(type, fields) ==
    LET at(key) == CHOOSE i \in DOMAIN fields : <<fields[i][1]>> = key
    IN [type |-> <<type>>,
        data |-> [key \in {<<fields[i][1]>> : i \in DOMAIN fields} |-> fields[at(key)][2]]]

\* remove-reply-at: the slice of the message itself loses the mention.
RepliesSender(es, i) == i > 1 /\ es[i - 1].k = "reply" /\ es[i].k = "at" /\ es[i].to = es[i - 1].qq
WithoutReplyAt(es) == [i \in DOMAIN es |-> IF RepliesSender(es, i) THEN [k |-> "nil"] ELSE es[i]]

\* The first reply of a group message, whose message has the id gid.
Quotes(es, conf) == {i \in DOMAIN es : conf.group /\ es[i].k = "reply"}
ReplyFields(e, conf, inner) ==
    <<Field("id", <<e.gid>>)>>
    \o IF conf.extra THEN <<Field("seq", <<e.seq>>), Field("qq", <<e.qq>>), Field("time", <<e.time>>),
                            Field("text", inner)>>
       ELSE Nothing

\* A slip of Plain: what a user wrote is not escaped.
PlainUnescaped(e, raw) ==
    CASE e.k \in Silent -> Nothing
      [] e.k \in {"text", "market"} -> e.s
      [] OTHER -> Code(e.k, Fields(e, raw))

\* The name of a market face is not escaped; a red bag's title neither.
Plain(e, raw) ==
    CASE e.k \in Silent -> Nothing
      [] e.k = "text" -> CQCodeEscapeText(e.s)
      [] e.k = "market" -> e.s
      [] OTHER -> Code(e.k, Fields(e, raw))

Body(es, raw) == Each(es, LAMBDA e : Plain(e, raw))

ToStringMessage(es, conf, raw) ==
    LET q == es[Min(Quotes(es, conf))]
    IN (IF Quotes(es, conf) = {} THEN Nothing
        ELSE Code("reply", ReplyFields(q, conf, Body(q.inner, FALSE))))
       \o Body(es, raw)

ToArrayMessage(es, conf) ==
    LET q == es[Min(Quotes(es, conf))]
    IN (IF Quotes(es, conf) = {} THEN Nothing
        ELSE <<Segment("reply", ReplyFields(q, conf, Body(q.inner, FALSE)))>>)
       \o Each(es, LAMBDA e : CASE e.k \in Silent -> Nothing
                                [] e.k \in {"text", "market"} -> <<Segment("text", <<Field("text", e.s)>>)>>
                                [] OTHER -> <<Segment(e.k, Fields(e, FALSE))>>)

ToFormattedMessage(es, conf) ==
    IF conf.array THEN ToArrayMessage(es, conf) ELSE ToStringMessage(es, conf, FALSE)

\* What a database keeps of it, with values of their own types: no image of a
\* guild.
ToMessageContent(es) ==
    Each(es, LAMBDA e : CASE e.k \in Silent -> Nothing
                          [] e.k = "market" -> <<Text(e.s)>>
                          [] OfGuild(e) -> Nothing
                          [] OTHER -> <<e>>)

----------------------------------------------------------------------------
(* Reading.  world: what is there when a message is read - the server (up),  *)
(* the media that are cached, and the records of messages.                   *)

Has(d, key) == <<key>> \in DOMAIN d
Get(d, key) == IF Has(d, key) THEN d[<<key>>] ELSE Nothing
With(d, key, val) == [k \in DOMAIN d \cup {key} |-> IF k = key THEN val ELSE d[k]]
Made(e) == [ok |-> TRUE, es |-> <<e>>]
Err == [ok |-> FALSE, es |-> Nothing]

LocalImage == [k |-> "image", of |-> "local", flash |-> FALSE, effect |-> "0"]
IsURL(f) == f # Nothing /\ f[1] = "http"

\* What a cache says of an image is asked of the server, else of its address.
readImageCache(f, world) ==
    IF world.up THEN Made([k |-> "image", of |-> f, flash |-> FALSE, effect |-> "0"]) ELSE Err

readVideoCache(f) == [k |-> "video", of |-> f]

makeImageOrVideoElem(d, video, world) ==
    LET f == Get(d, "file")
        local == IF video THEN [k |-> "video", of |-> "local"] ELSE LocalImage
        fetched == IF world.up THEN Made(local) ELSE Err
        known == f # Nothing /\ f[1] \in world.cached
    IN IF IsURL(f) THEN fetched
       ELSE IF f = <<"file">> \/ (f = <<"base64">> /\ ~video) THEN Made(local)
       ELSE IF video THEN IF known THEN Made(readVideoCache(f[1])) ELSE Err
       ELSE IF known THEN readImageCache(f[1], world)
       ELSE IF IsURL(Get(d, "url")) THEN fetched
       ELSE Err

ShowEffects == {"40000", "40001", "40002", "40003", "40004", "40005"}
Effect(id) == IF id \in ShowEffects THEN id ELSE "40000"

WithKind(e, d) ==
    CASE Get(d, "type") = <<"flash">> -> [e EXCEPT !.flash = TRUE]
      [] Get(d, "type") = <<"show">> ->
            [e EXCEPT !.effect = Effect(IF Get(d, "id") = Nothing THEN "0" ELSE Get(d, "id")[1])]
      [] OTHER -> e

\* The last of some texts gets a token more.
Longer(r, c) == [r EXCEPT ![Len(r)] = Text(Append(@.s, c))]

\* fix-url: texts are cut within host names.
CutURL(r, s, i) ==
    IF i = 1 \/ (s[i - 1] = "ho" /\ s[i] = "st") THEN Append(r, Text(<<s[i]>>)) ELSE Longer(r, s[i])

SplitURL(s) ==
    LET cut[i \in 0..Len(s)] == IF i = 0 THEN Nothing ELSE CutURL(cut[i - 1], s, i)
    IN IF s = Nothing THEN <<Text(s)>> ELSE cut[Len(s)]

Texts(s, conf) == IF conf.fixURL THEN SplitURL(s) ELSE <<Text(s)>>

Asked(e, world) == IF world.up THEN Made(e) ELSE Err

\* A picture shown by a card goes up first.
makeShowPic(image, world) ==
    IF image.ok /\ world.up THEN [ok |-> TRUE, es |-> image.es \o <<[k |-> "xml", s |-> <<"card">>, id |-> "5"]>>]
    ELSE Err

ToElement(t, d, conf, world) ==
    LET one(key) == IF Get(d, key) = Nothing THEN "none" ELSE Get(d, key)[1]
        qq == IF conf.oneBot12 /\ ~Has(d, "qq") THEN one("user_id") ELSE one("qq")
        image == makeImageOrVideoElem(d, FALSE, world)
    IN CASE t = <<"text">> -> [ok |-> TRUE, es |-> Texts(Get(d, "text"), conf)]
         [] t = <<"image">> -> IF image.ok THEN Made(WithKind(image.es[1], d)) ELSE Err
         [] t = <<"video">> -> makeImageOrVideoElem(d, TRUE, world)
         [] t = <<"poke">> -> Made([k |-> "poke", to |-> one("qq")])
         [] t = <<"tts">> -> Asked([k |-> "record", of |-> "tts"], world)
         [] t = <<"record">> -> IF one("file") \in world.cached THEN Made([k |-> "record", of |-> one("file")])
                                ELSE IF IsURL(Get(d, "file")) THEN Asked([k |-> "record", of |-> "web"], world)
                                ELSE Err
         [] t = <<"face">> -> IF Has(d, "id") THEN Made([k |-> "face", id |-> one("id")]) ELSE Err
         [] t = <<"at">> \/ (t = <<"mention">> /\ conf.oneBot12) -> Made([k |-> "at", to |-> qq])
         [] t = <<"share">> -> Made([k |-> "share"])
         [] t = <<"music">> ->
               CASE one("type") \in {"qq", "163"} -> Asked([k |-> "music"], world)
                 [] one("type") = "custom" ->
                       Made(IF Has(d, "subtype") THEN [k |-> "music"] ELSE [k |-> "xml", s |-> <<"music">>, id |-> "60"])
                 [] OTHER -> Err
         [] t = <<"dice">> -> IF one("value") = "7" THEN Err ELSE Made([k |-> "dice", value |-> one("value")])
         [] t = <<"xml">> -> Made([k |-> "xml", s |-> CQCodeEscapeValue(Get(d, "data")), id |-> one("resid")])
         [] t = <<"json">> -> Made([k |-> "json", s |-> Get(d, "data"), id |-> one("resid")])
         [] t = <<"cardimage">> -> makeShowPic(image, world)
         [] OTHER -> Err

\* A record's content back into elements; what has no case here is lost.
ConvertContentMessage(content, world) ==
    Each(content, LAMBDA c :
        CASE c.k \in {"text", "at", "redbag", "forward", "face"} -> <<c>>
          [] c.k \in {"image", "video"} ->
                LET made == makeImageOrVideoElem(<<"file">> :> <<c.file>>, c.k = "video", world)
                    kind == IF c.k = "video" THEN Nothing
                            ELSE IF c.flash THEN <<"type">> :> <<"flash">>
                            ELSE IF c.effect # "0" THEN (<<"type">> :> <<"show">>) @@ (<<"id">> :> <<c.effect>>)
                            ELSE Nothing
                IN IF made.ok THEN <<IF c.k = "video" THEN made.es[1] ELSE WithKind(made.es[1], kind)>> ELSE Nothing
          [] OTHER -> Nothing)

\* The reply a code asks for: with a text of its own, or of a record.  With a
\* text, a record's values are replaced by the code's where the code has none.
Reply(d, world, inner) ==
    LET id == Get(d, "id")
        org == IF id # Nothing /\ id[1] \in DOMAIN world.records THEN world.records[id[1]] ELSE Nothing
        own(key, none) == IF Has(d, key) THEN Get(d, key)[1] ELSE none
        kept(key, val, none) == IF Has(d, key) THEN val ELSE none
    IN IF Get(d, "text") # Nothing
       THEN IF id = Nothing /\ ~Has(d, "qq") THEN Nothing
            ELSE IF org = Nothing
            THEN <<[k |-> "reply", seq |-> own("seq", "0"), qq |-> own("qq", "0"), time |-> own("time", "now"),
                    inner |-> inner]>>
            ELSE <<[k |-> "reply", seq |-> kept("seq", org.seq, "0"), qq |-> kept("qq", org.qq, "0"),
                    time |-> kept("time", org.time, "now"), inner |-> inner]>>
       ELSE IF org # Nothing
       THEN <<[k |-> "reply", seq |-> org.seq, qq |-> org.qq, time |-> org.time,
               inner |-> ConvertContentMessage(org.content, world)]>>
       ELSE Nothing

\* A slip of WithReply: a reply is put where its code stands.
WithReplyInPlace(r, d, world, inner) == r \o Reply(d, world, inner)

\* One reply, before everything that is there.
WithReply(r, d, world, inner) ==
    IF r # Nothing /\ r[1].k = "reply" THEN r ELSE Reply(d, world, inner) \o r

\* A forwarded message takes the place of all that came before.
WithForward(r, d, world) ==
    IF Has(d, "id") /\ world.up THEN <<[k |-> "forward", id |-> Get(d, "id")[1]]>> ELSE r

\* What a code that cannot be read leaves behind.
Literal(t, d) ==
    Text(<<"[", "CQ:">> \o t
         \o Each(SetToSeq(DOMAIN d), LAMBDA key : <<",">> \o key \o <<"=">> \o d[key]) \o <<"]">>)

Flushed(x, conf) == IF x.buf = Nothing THEN x.r ELSE x.r \o Texts(CQCodeUnescapeText(x.buf), conf)

\* inner: what the text of a reply is read as.
saveCQCode(r, t, d, conf, world, inner) ==
    LET made == ToElement(t, d, conf, world)
    IN CASE t = <<"reply">> -> WithReply(r, d, world, inner[Get(d, "text")])
         [] t = <<"forward">> -> WithForward(r, d, world)
         [] made.ok -> r \o made.es
         [] OTHER -> IF conf.ignore THEN r ELSE Append(r, Literal(t, d))

\* The scanner, a token at a time.  Anything may stand in a key until its "=",
\* and a code that does not end is dropped.
Scan(x, s, i, conf, world, inner) ==
    LET c == s[i]
        more == [x EXCEPT !.buf = Append(@, c)]
        saved(t, d) == [x EXCEPT !.in = "text", !.buf = Nothing, !.r = saveCQCode(@, t, d, conf, world, inner)]
        value == With(x.d, x.key, CQCodeUnescapeValue(x.buf))
    IN CASE x.in = "text" /\ c = "[" /\ i + 2 <= Len(s) /\ s[i + 1] = "CQ:" ->
               [x EXCEPT !.in = "open", !.buf = Nothing, !.r = Flushed(x, conf)]
         [] x.in = "open" -> [x EXCEPT !.in = "type", !.d = Nothing]
         [] x.in = "type" /\ c = "," -> [x EXCEPT !.in = "key", !.buf = Nothing, !.t = x.buf]
         [] x.in = "type" /\ c = "]" -> saved(x.buf, Nothing)
         [] x.in = "key" /\ c = "=" -> [x EXCEPT !.in = "value", !.buf = Nothing, !.key = x.buf]
         [] x.in = "value" /\ c = "," -> [x EXCEPT !.in = "key", !.buf = Nothing, !.d = value]
         [] x.in = "value" /\ c = "]" -> saved(x.t, value)
         [] OTHER -> more

Start == [in |-> "text", buf |-> Nothing, t |-> Nothing, key |-> Nothing, d |-> Nothing, r |-> Nothing]

Scanned(s, conf, world, inner) ==
    LET scan[i \in 0..Len(s)] == IF i = 0 THEN Start ELSE Scan(scan[i - 1], s, i, conf, world, inner)
        end == scan[Len(s)]
    IN IF end.in = "text" THEN Flushed(end, conf) ELSE end.r

ConvertStringMessage(s, conf, world) ==
    LET inner[t \in Seq(STRING)] == Scanned(t, conf, world, inner)
    IN Scanned(s, conf, world, inner)

\* The path that asks an array for a reply's sender gives a list, which is no
\* number.
WithoutSender(d) == [key \in DOMAIN d \ {<<"qq">>} |-> d[key]]

\* Of an array, what cannot be read is left out, and so is a reply outside a
\* group.
AddSegment(r, g, conf, world) ==
    CASE g.type = <<"reply">> /\ conf.group ->
           WithReply(r, WithoutSender(g.data), world, ConvertStringMessage(Get(g.data, "text"), conf, world))
      [] g.type = <<"forward">> -> WithForward(r, g.data, world)
      [] OTHER -> r \o ToElement(g.type, g.data, conf, world).es

ConvertObjectMessage(segments, conf, world) ==
    LET added[i \in 0..Len(segments)] ==
          IF i = 0 THEN Nothing ELSE AddSegment(added[i - 1], segments[i], conf, world)
    IN added[Len(segments)]

=============================================================================
