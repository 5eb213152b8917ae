-------------------------------- MODULE MCEcho --------------------------------
(* Every text of up to three tokens, messages of mixed elements, and codes   *)
(* an application may write, two at a time, replies and forwarded messages   *)
(* three at a time.                                                          *)
EXTENDS Echo

Conf(options) == [o \in {"group", "array", "removeAt", "extra", "ignore", "fixURL", "oneBot12"} |-> o \in options]
SomeConfs == {Conf({"group"}), Conf({"group", "array", "extra"}), Conf({"ignore", "fixURL"}),
              Conf({"group", "removeAt", "extra", "fixURL"}), Conf({"array", "oneBot12", "fixURL"})}

Letters == {"a", "[", "]", ",", "&", "amp;", "#91;", "#93;", "#44;", "CQ:", "=", "ho", "st", "han"}
UpTo(n, S) == UNION {[1..i -> S] : i \in 0..n}

OneText == {<<Text(s)>> : s \in UpTo(3, Letters \ {"=", "#93;", "ho", "st"})}

At(u) == [k |-> "at", to |-> u]
Face == [k |-> "face", id |-> "1"]
Dice == [k |-> "dice", value |-> "3"]
Quote(gid) == [k |-> "reply", gid |-> gid, seq |-> "1", qq |-> "u1", time |-> "t1", inner |-> <<Text(<<"b", ",">>)>>]
Image(f, of, flash, effect) ==
    [k |-> "image", file |-> f, of |-> of, url |-> <<"http", ",", "&">>, flash |-> flash, effect |-> effect, sub |-> "7"]
Media1(kind) == [k |-> kind, file |-> "f1", url |-> <<"http", "[">>, flash |-> FALSE, effect |-> "0", of |-> kind]
Data(kind, id) == [k |-> kind, s |-> <<"[", "&", ",">>, id |-> id]
Looks == Text(<<"[", "CQ:", "at", ",", "qq", "=", "all", "]">>)   \* a text like a code
Han == Text(<<"han", "han", "a", "han">>)

Mixed ==
    {<<At("all"), Looks, Face>>, <<Quote("old"), At("u1"), Text(<<"a">>)>>, <<Quote("gone"), At("u2"), Looks>>,
     <<Quote("old"), Text(<<"a">>), At("u1")>>, <<Text(<<"ho", "st", "a", "ho", "st">>), At("u1"), Text(<<"&">>), Text(<<"#91;">>)>>,
     <<Image("m1", "group", TRUE, "0"), Text(<<"]">>)>>, <<Text(<<"[">>), Image("m1", "group", FALSE, "40006")>>,
     <<Image("m2", "friend", FALSE, "0"), Image("m3", "guild", FALSE, "0"), Dice>>,
     <<Media1("record")>>, <<Media1("video"), Text(<<"CQ:", "]">>)>>, <<Data("json", "0")>>, <<Data("json", "1"), Face>>,
     <<Data("xml", "60")>>, <<[k |-> "redbag", s |-> <<"a">>]>>, <<[k |-> "market", s |-> <<"[", "a", "]">>], Looks>>,
     <<[k |-> "forward", id |-> "r1"]>>, <<[k |-> "other"], Text(<<"a">>)>>,
     <<Han, Han>>, <<Text(<<"a">>), Han, Face, Text(<<"han">>), Face, Text(Nothing)>>, <<Face, Face, Face, Text(<<"a">>)>>}

All == OneText \cup Mixed

----------------------------------------------------------------------------

F(key, val) == Field(key, <<val>>)
Codes ==
    {<<"a">>, <<"]", ",">>, Code("at", <<F("qq", "all")>>), Code("mention", <<F("user_id", "u1")>>),
     Code("face", <<F("id", "1")>>), Code("face", <<F("x", "1")>>), Code("face", Nothing),
     Code("text", <<Field("text", <<"[", "ho", "st">>)>>), Code("poke", <<F("qq", "u1")>>), Code("tts", <<F("text", "a")>>),
     Code("record", <<F("file", "http")>>), Code("record", <<F("file", "f9")>>), Code("share", Nothing),
     Code("music", <<F("type", "qq")>>), Code("music", <<F("type", "custom")>>),
     Code("music", <<F("type", "custom"), F("subtype", "163")>>), Code("music", <<F("type", "x")>>),
     Code("dice", <<F("value", "7")>>), Code("image", <<F("file", "base64")>>), Code("image", <<F("file", "file")>>),
     Code("image", <<F("file", "m9")>>), Code("image", <<F("file", "m9"), F("url", "http"), F("type", "show"), F("id", "9")>>),
     Code("video", <<F("file", "http")>>), Code("video", <<F("file", "m9")>>),
     Code("cardimage", <<F("file", "base64")>>), Code("xml", <<Field("data", <<"[">>)>>),
     <<"[", "CQ:", "at">>, <<"[", "CQ:", "at", ",", "qq">>, <<"[", "CQ:", "at", ",", "qq", "=", "u1">>, <<"[", "CQ:">>}

Replies ==
    {Code("reply", <<F("id", "old")>>), Code("reply", <<F("id", "gone")>>),
     Code("reply", <<F("text", "a"), F("qq", "u2")>>), Code("reply", <<F("text", "a"), F("id", "old")>>),
     Code("reply", <<F("text", "a")>>), Code("forward", <<F("id", "r1")>>), Code("forward", Nothing)}

Two == {s \o t : s, t \in Codes}
Three == {s \o t \o u : s, t, u \in Replies \cup {<<"a">>}}
Written == Replies \cup Two \cup Three \cup {s \o t : s \in Replies, t \in Codes}

WideOf == [c \in {"han"} |-> 3]

=============================================================================
