-------------------------------- MODULE Filter --------------------------------
(* The event filter (modules/filter/filter.go, middlewares.go).  A rule is   *)
(* JSON: an object is a sequence of entries [op, name, arg], where op tells  *)
(* whether the name began with a dot; a value is an object, an array or a    *)
(* string, and a string a sequence of characters.                            *)
EXTENDS Naturals, Sequences, SequencesExt

Str(s) == [t |-> "str", s |-> s]
Obj(entries) == [t |-> "obj", entries |-> entries]
Arr(s) == [t |-> "arr", s |-> s]
Null == Str(<<>>)           \* what gjson makes of null and of what is not there

Payload(fields) == [t |-> "payload", fields |-> fields]
PathOf(v, name) ==
    IF v.t = "payload" /\ name \in DOMAIN v.fields THEN Str(v.fields[name]) ELSE Null
StringOf(v) == IF v.t = "str" THEN v.s ELSE <<"json">>

Holds(s, part) == \E i \in 0..Len(s) - Len(part) : SubSeq(s, i + 1, i + Len(part)) = part

----------------------------------------------------------------------------
(* Reading a rule: a node that no case fits stops the reading. *)

Broken == [op |-> "broken"]
IsBroken(f) == f.op = "broken"

RECURSIVE Generate(_, _)

\* A plain name stands for "and" of an object, else for "eq".
newAndOp(arg) ==
    LET below(x) == IF x.op THEN Generate(x.name, x.arg)
                    ELSE Generate(IF x.arg.t = "obj" THEN "and" ELSE "eq", x.arg)
        all == [i \in DOMAIN arg.entries |->
                  [key |-> IF arg.entries[i].op THEN "" ELSE arg.entries[i].name, filter |-> below(arg.entries[i])]]
    IN IF \E i \in DOMAIN all : IsBroken(all[i].filter) THEN Broken ELSE [op |-> "and", operands |-> all]

newOrOp(arg) ==
    LET all == [i \in DOMAIN arg.s |-> Generate("and", arg.s[i])]
    IN IF \E i \in DOMAIN all : IsBroken(all[i]) THEN Broken ELSE [op |-> "or", operands |-> all]

newNotOp(arg) ==
    LET operand == Generate("and", arg)
    IN IF IsBroken(operand) THEN Broken ELSE [op |-> "not", operand |-> operand]

\* A string holds what is in it, an array what it lists.
newInOp(arg) ==
    IF arg.t = "arr" THEN [op |-> "in", array |-> TRUE, of |-> [i \in DOMAIN arg.s |-> StringOf(arg.s[i])]]
    ELSE [op |-> "in", array |-> FALSE, of |-> StringOf(arg)]

Generate(opName, arg) ==
    CASE opName = "not" /\ arg.t = "obj" -> newNotOp(arg)
      [] opName = "and" /\ arg.t = "obj" -> newAndOp(arg)
      [] opName = "or" /\ arg.t = "arr" -> newOrOp(arg)
      [] opName \in {"eq", "neq"} -> [op |-> opName, operand |-> StringOf(arg)]
      [] opName = "in" /\ arg.t # "obj" -> newInOp(arg)
      [] opName \in {"contains", "regex"} /\ arg.t = "str" -> [op |-> opName, operand |-> arg.s]
      [] OTHER -> Broken

\* Add: what is not an object stops the reading, too.
FilterOf(file) == IF file.t = "obj" THEN Generate("and", file) ELSE Broken

----------------------------------------------------------------------------
(* Judging an event: operands are tried in turn until one decides. *)

RECURSIVE Eval(_, _)

\* A slip of andEval: the operand that failed is forgotten if a later one holds.
andEvalLast(operands, v) ==
    FoldLeft(LAMBDA res, x : Eval(x.filter, IF x.key = "" THEN v ELSE PathOf(v, x.key)), TRUE, operands)

andEval(operands, v) ==
    FoldLeft(LAMBDA res, x : res /\ Eval(x.filter, IF x.key = "" THEN v ELSE PathOf(v, x.key)), TRUE, operands)

orEval(operands, v) == FoldLeft(LAMBDA res, f : res \/ Eval(f, v), FALSE, operands)

inEval(f, v) ==
    IF f.array THEN \E i \in DOMAIN f.of : f.of[i] = StringOf(v) ELSE Holds(f.of, StringOf(v))

\* external: a regular expression is taken to be a text to find
Matches(operand, s) == Holds(s, operand)

Eval(f, v) ==
    CASE f.op = "not" -> ~Eval(f.operand, v)
      [] f.op = "and" -> andEval(f.operands, v)
      [] f.op = "or" -> orEval(f.operands, v)
      [] f.op = "eq" -> StringOf(v) = f.operand
      [] f.op = "neq" -> StringOf(v) # f.operand
      [] f.op = "in" -> inEval(f, v)
      [] f.op = "contains" -> Holds(StringOf(v), f.operand)
      [] f.op = "regex" -> Matches(f.operand, StringOf(v))

----------------------------------------------------------------------------

\* What a rule is meant to let through, said of the rule itself.
RECURSIVE Meant(_, _, _)
Meant(opName, arg, v) ==
    CASE opName = "and" -> \A i \in DOMAIN arg.entries :
                              LET x == arg.entries[i]
                              IN IF x.op THEN Meant(x.name, x.arg, v)
                                 ELSE Meant(IF x.arg.t = "obj" THEN "and" ELSE "eq", x.arg, PathOf(v, x.name))
      [] opName = "or" -> \E i \in DOMAIN arg.s : Meant("and", arg.s[i], v)
      [] opName = "not" -> ~Meant("and", arg, v)
      [] opName = "eq" -> StringOf(arg) = StringOf(v)
      [] opName = "neq" -> ~Meant("eq", arg, v)
      [] opName = "in" -> IF arg.t = "arr" THEN \E i \in DOMAIN arg.s : Meant("eq", arg.s[i], v)
                          ELSE Holds(StringOf(arg), StringOf(v))
      [] OTHER -> Holds(StringOf(v), arg.s)

=============================================================================
