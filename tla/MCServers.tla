------------------------------ MODULE MCServers ------------------------------
(* A client for events and one that also calls actions, two events, and      *)
(* filter files from nothing to all operators, some of which are no rules.   *)
EXTENDS Servers, Filter, TLC

KindOfClient(c) == IF c = "c2" THEN "any" ELSE "event"

SomePayload(e) ==
    Payload([group_id |-> <<"1">>, raw |-> IF e = "e1" THEN <<"!", "a">> ELSE <<"b">>]
            @@ (IF e = "e1" THEN [anonymous |-> <<"x">>] ELSE [sub |-> <<"y">>]))

Op(name, arg) == [op |-> TRUE, name |-> name, arg |-> arg]
Key(name, arg) == [op |-> FALSE, name |-> name, arg |-> arg]

Rules ==
    {Obj(<<>>), Obj(<<Op("not", Obj(<<>>))>>),
     Obj(<<Key("raw", Obj(<<Op("regex", Str(<<"!">>))>>)), Key("group_id", Str(<<"1">>))>>),
     Obj(<<Key("anonymous", Obj(<<Op("eq", Null)>>)), Key("group_id", Obj(<<Op("neq", Str(<<"2">>))>>))>>),
     Obj(<<Op("or", Arr(<<Obj(<<Key("group_id", Obj(<<Op("in", Arr(<<Str(<<"2">>), Str(<<"3">>)>>))>>))>>),
                          Obj(<<Key("raw", Obj(<<Op("not", Obj(<<Op("contains", Str(<<"a">>))>>))>>))>>)>>))>>),
     Obj(<<Key("sub", Obj(<<Op("in", Str(<<"x", "y">>)), Op("and", Obj(<<Op("neq", Null)>>))>>))>>)}

NoRules ==
    {Str(<<>>), Obj(<<Op("or", Obj(<<>>))>>), Obj(<<Op("not", Arr(<<>>))>>), Obj(<<Op("foo", Null)>>),
     Obj(<<Key("raw", Obj(<<Op("in", Obj(<<>>))>>))>>)}

SomeFiles == Rules \cup NoRules
SomeReloads == {Str(<<>>), Obj(<<Op("not", Obj(<<>>))>>)}

\* The filter of module Filter, in the place of the parameters of Servers.
SomeReadable == {f \in SomeFiles : ~IsBroken(FilterOf(f))}
Verdicts == [f \in SomeReadable |-> {e \in Events : Eval(FilterOf(f), SomePayload(e))}]
FilterLets(f, e) == e \in Verdicts[f]

(* What the filter lets through is what its rules mean, item by item.        *)
FilterMeans ==
    rule # <<>> => \A e \in Events : Passes(e) = Meant("and", rule[1], SomePayload(e))

=============================================================================
