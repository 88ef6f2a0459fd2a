---------------------------- MODULE InkSemantics ----------------------------
(***************************************************************************)
(* What an ink program means: the operations it performs on the objects of *)
(* the machine, in their order, with their operands, and its result.  This *)
(* is the abstract specification of the compiler: InkMachine runs the code *)
(* that InkGen produces, and has to follow it.                             *)
(*                                                                         *)
(* An operation on objects is an event of the trace.  What it gives is up  *)
(* to the objects: a value of its own, an exception, a truth, a length.    *)
(* The meaning of a tree is computed against the trace of a run: it asks   *)
(* for its events one by one and takes the outcome that the run has met.   *)
(***************************************************************************)
EXTENDS Integers, Sequences, SequencesExt

VARIABLE trace         \* Seq of [ev, args, out, n]

Source == INSTANCE InkGen

(***************************************************************************)
(* Values: what event n gave or raised, element m of the list that event n *)
(* made, argument m of the call, a literal or name s, a function n.        *)
(***************************************************************************)
V(k, n, m, s) == [k |-> k, n |-> n, m |-> m, s |-> s]
Made(n)       == V("made", n, 0, "")
Exception(n)  == V("exception", n, 0, "")
Elem(n, m)    == V("elem", n, m, "")
Arg(m)        == V("arg", 0, m, "")
Name(s)       == V("name", 0, 0, s)
Str(s)        == V("str", 0, 0, s)
Num(s)        == V("num", 0, 0, s)
None          == V("none", 0, 0, "")
Nil           == V("nil", 0, 0, "")        \* IVM_NULL, the value of a deletion
AssertFailed  == V("assertion", 0, 0, "")
NotIterable   == V("not iterable", 0, 0, "")

(* The truth of a value that needs no object (ivm_object_toBool).          *)
KnownTruth(v) == v.k \in {"none", "num", "str", "fn"}
Truth(v)      == v.k # "none" /\ v # Num("0")
AsksTruth(v, e) == e.ev = "test" /\ e.args = <<v>>

(***************************************************************************)
(* Results: how an evaluation ends, its values (several for a list of      *)
(* expressions) and the next event.  "wait" is for an event that the run   *)
(* has not met yet, "wrong" for one that the run has not met although it   *)
(* has gone on.                                                            *)
(***************************************************************************)
Res(k, vs, i) == [k |-> k, vs |-> vs, i |-> i]
Val(v, i)     == Res("val", <<v>>, i)
Raised(v, i)  == Res("exc", <<v>>, i)
Then(r, F(_)) == IF r.k = "val" THEN F(r) ELSE r
Sure(r, i)    == [r EXCEPT !.i = i]

Ev(ev, args, i) ==
  CASE i > Len(trace)                                   -> Res("wait", <<>>, i)
    [] trace[i].ev # ev \/ trace[i].args # args         -> Res("wrong", <<>>, i)
    [] trace[i].out = "exception"                       -> Raised(Exception(i), i + 1)
    [] OTHER                                            -> Val(Made(i), i + 1)

(* The truth of an object is asked once and stays.                         *)
Test(v, i) ==
  LET known == {j \in 1 .. Min({i - 1, Len(trace)}) : AsksTruth(v, trace[j])}
      bool(t) == Val(Num(IF t THEN "1" ELSE "0"), i)
  IN  CASE KnownTruth(v) -> bool(Truth(v))
        [] known # {}    -> bool(\A j \in known : trace[j].out = "true")
        [] OTHER         -> Then(Ev("test", <<v>>, i),
                              LAMBDA r : Sure(bool(trace[i].out = "true"), i + 1))
IsTrue(r) == r.vs = <<Num("1")>>

(***************************************************************************)
(* A context: is it a statement, whose value nobody uses; the list of the  *)
(* comprehension it is in; the values of the missing arguments, first,     *)
(* second, ...; the trees of the functions of the program.                 *)
(***************************************************************************)
AsValue(C) == [C EXCEPT !.stmt = FALSE]
AsStmt(C)  == [C EXCEPT !.stmt = TRUE]

(* The parts of a meaning: what comes with the tree is in `with`.          *)
RECURSIVE Do(_, _, _, _)
Meaning(x, C, i)        == Do("tree", x, C, i)
Values(xs, C, i)        == Do("trees", xs, C, i)
Assign(x, v, C, i)      == Do("assign", <<x, v>>, C, i)
AssignAll(xs, l, C, i)  == Do("assign all", <<xs, l>>, C, i)
Fields(es, v, C, i)     == Do("fields", <<es, v>>, C, i)
Entries(es, o, C, i)    == Do("entries", <<es, o>>, C, i)
Branches(bs, else, C, i) == Do("branches", <<bs, else>>, C, i)
Loop(x, C, i)           == Do("loop", x, C, i)
Rounds(x, it, C, i)     == Do("rounds", <<x, it>>, C, i)

(* The values of expressions from left to right.                           *)
Values_(xs, C, i) ==
  IF xs = <<>> THEN Res("val", <<>>, i)
  ELSE Then(Values(Front(xs), C, i), LAMBDA r :
         Then(Meaning(Last(xs), C, r.i), LAMBDA q : [q EXCEPT !.vs = r.vs \o @]))

(* One expression, or a list of several, as the operand of [].             *)
Operand(args, C, i) ==
  CASE Len(args) = 0 -> Val(None, i)
    [] Len(args) = 1 -> Meaning(args[1], AsValue(C), i)
    [] OTHER         -> Then(Values(args, AsValue(C), i), LAMBDA r : Ev("new_list", r.vs, r.i))

(* Any iterable as a list, and the elements of the list.                   *)
ToList(v, i)  == IF v = Nil THEN Val(Nil, i) ELSE Ev("to_list", <<v>>, i)
Elements(l)   == [m \in 1 .. trace[l.n].n |-> Elem(l.n, m)]
Nth(es, m)    == IF m \in DOMAIN es THEN es[m] ELSE None

(***************************************************************************)
(* Places: names, slots, operators, elements, and patterns of them.        *)
(***************************************************************************)
SlotEvent(x, verb) == verb \o (IF x.val = "proto" THEN "_proto" ELSE "_slot")
SlotArgs(x)        == IF x.val = "proto" THEN <<>> ELSE <<Name(x.val)>>
Root(x)            == IF x.op = "id" /\ x.val \in {"loc", "top"} THEN x.val ELSE ""

Assign_(x, v, C, i) ==
  LET Base == Meaning(x.sub[1], AsValue(C), i) IN
  CASE x.op = "id" /\ Root(x) = "loc" -> Ev("set_local_context", <<v>>, i)
    [] x.op = "id" /\ Root(x) = "top" -> Ev("set_global_context", <<v>>, i)
    [] x.op = "id" /\ Root(x) = ""    -> Ev("set_context_slot", <<Name(x.val), v>>, i)
    [] x.op \in {"slot", "slot_np"} /\ Root(x.sub[1]) = "loc" -> Ev("set_local_slot", <<Name(x.val), v>>, i)
    [] x.op \in {"slot", "slot_np"} /\ Root(x.sub[1]) = "top" -> Ev("set_global_slot", <<Name(x.val), v>>, i)
    [] x.op \in {"slot", "slot_np"} /\ Root(x.sub[1]) = "" ->
         Then(Base, LAMBDA o : Ev(SlotEvent(x, "set"), SlotArgs(x) \o o.vs \o <<v>>, o.i))
    [] x.op = "oop_expr" ->
         Then(Base, LAMBDA o : Ev("set_oop", <<Name(x.sub[2].val)>> \o o.vs \o <<v>>, o.i))
    [] x.op = "index" ->
         Then(Base, LAMBDA o : Then(Operand(x.sub[2].sub, C, o.i), LAMBDA j :
           Ev("[=]", o.vs \o j.vs \o <<v>>, j.i)))
    [] x.op = "unary" -> Then(Base, LAMBDA f : Ev("call", f.vs \o <<v>>, f.i))        \* *ref = v
    [] x.op = "none"  -> Val(v, i)
    [] x.op = "table" -> Fields(x.sub[1].sub, v, C, i)
    [] x.op = "list_expr" -> Then(ToList(v, i), LAMBDA l : AssignAll(x.sub[1].sub, l.vs[1], C, l.i))

(* A pattern gets the elements in turn; one with a star gets a list of     *)
(* those that the patterns after it leave.  A deletion deletes them all.   *)
AssignAll_(xs, l, C, i) ==
  LET n    == Len(xs)
      star == {m \in 1 .. n : xs[m].op = "varg_expr"}
      es   == IF l = Nil THEN [m \in 1 .. n |-> Nil] ELSE Elements(l)
      more(m) == IF Len(es) - (n - 1) > 0 THEN Len(es) - (n - 1) ELSE 0
      From(m) == IF star # {} /\ m > Min(star) THEN m - 1 + more(m) ELSE m
      rest    == SubSeq(es, Min(star), Min(star) + more(Min(star)) - 1)
      One(m, j) == IF m \in star
                   THEN Then(Ev("new_list", rest, j), LAMBDA r : Assign(xs[m].sub[1], r.vs[1], C, r.i))
                   ELSE Assign(xs[m], Nth(es, From(m)), C, j)
      Upto[m \in 0 .. n] == IF m = 0 THEN Val(None, i) ELSE Then(Upto[m - 1], LAMBDA r : One(m, r.i))
  IN  Upto[n]

(* The entry of a table and its value.                                     *)
GetField(e, v, C, i) ==
  CASE e.op = "entry_oop"   -> Ev("get_oop", <<Name(e.sub[1].val), v>>, i)
    [] e.op = "entry_index" -> Then(Operand(e.sub[1].sub, C, i), LAMBDA j : Ev("[]", <<v>> \o j.vs, j.i))
    [] OTHER                -> Ev(SlotEvent(e, "get"), SlotArgs(e) \o <<v>>, i)
SetField(e, o, v, C, i) ==
  CASE e.op = "entry_oop"   -> Ev("set_oop", <<Name(e.sub[1].val), o, v>>, i)
    [] e.op = "entry_index" -> Then(Operand(e.sub[1].sub, C, i), LAMBDA j : Ev("[=]", <<o>> \o j.vs \o <<v>>, j.i))
    [] OTHER                -> Ev(SlotEvent(e, "set"), SlotArgs(e) \o <<o, v>>, i)
Fields_(es, v, C, i) ==
  IF es = <<>> THEN Val(None, i)
  ELSE Then(Fields(Front(es), v, C, i), LAMBDA r :
         Then(GetField(Last(es), v, C, r.i), LAMBDA f : Assign(Last(Last(es).sub), f.vs[1], C, f.i)))
Entries_(es, o, C, i) ==
  IF es = <<>> THEN Val(o, i)
  ELSE Then(Entries(Front(es), o, C, i), LAMBDA r :
         Then(Meaning(Last(Last(es).sub), AsValue(C), r.i), LAMBDA v :
           Then(SetField(Last(es), o, v.vs[1], C, v.i), LAMBDA s : Val(o, s.i))))

(***************************************************************************)
(* Calls.  A slot or an operator of an object is called with the object.   *)
(***************************************************************************)
Callee(x, C, i) ==
  IF x.op \in {"slot", "slot_np", "oop_expr"}
  THEN Then(Meaning(x.sub[1], AsValue(C), i), LAMBDA o :
         Then(IF x.op = "oop_expr" THEN Ev("get_oop", <<Name(x.sub[2].val)>> \o o.vs, o.i)
              ELSE Ev(SlotEvent(x, "get"), SlotArgs(x) \o o.vs, o.i),
              LAMBDA f : [f EXCEPT !.vs = o.vs \o f.vs]))
  ELSE Meaning(x, AsValue(C), i)
CallEvent(f) == IF Len(f.vs) = 2 THEN "call_base" ELSE "call"

(* The arguments, those that are missing from what the call gets.          *)
Arguments(args, C, i) ==
  LET ith(m) == Cardinality({j \in 1 .. m : args[j].op = "missing"})
      given  == [m \in DOMAIN args |-> IF args[m].op = "missing"
                                       THEN [args[m] EXCEPT !.val = ToString(ith(m))] ELSE args[m]]
  IN  Values(given, AsValue(C), i)
Apply(x, C, i) ==
  Then(Callee(x.sub[1], C, i), LAMBDA f :
    Then(Arguments(x.sub[2].sub, C, f.i), LAMBDA a : Ev(CallEvent(f), f.vs \o a.vs, a.i)))

(***************************************************************************)
(* Branches, loops, exceptions.                                            *)
(***************************************************************************)
Condition(x, i, C) == Then(Meaning(x, AsValue(C), i), LAMBDA r : Test(r.vs[1], r.i))
Branches_(bs, else, C, i) ==
  IF bs = <<>> THEN IF else.op = "null" THEN Val(None, i) ELSE Meaning(else, C, i)
  ELSE Then(Condition(Head(bs).sub[1], i, C), LAMBDA t :
         IF IsTrue(t) THEN Meaning(Head(bs).sub[2], C, t.i) ELSE Branches(Tail(bs), else, C, t.i))

(* After the body: another round, or the end of the loop.                  *)
Round(r, Again(_)) ==
  CASE r.k \in {"val", "cont"} -> Again(r.i)
    [] r.k = "brk"             -> Val(None, r.i)
    [] OTHER                   -> r
Loop_(x, C, i) ==
  Then(Condition(x.sub[1], i, C), LAMBDA t :
    IF IsTrue(t) THEN Round(Meaning(x.sub[2], AsStmt(C), t.i), LAMBDA j : Loop(x, C, j)) ELSE Val(None, t.i))
Rounds_(x, it, C, i) ==
  LET next == Ev("next", <<it>>, i) IN
  CASE next.k = "exc"                             -> Val(None, i + 1)     \* the end of the iterator
    [] next.k = "val" /\ trace[i].out = "no next" -> Raised(NotIterable, i + 1)
    [] next.k = "val" /\ trace[i].out # "no next" ->
         Round(Then(Assign(x.sub[1], next.vs[1], C, next.i), LAMBDA r :
                 Meaning(x.sub[3], AsStmt(C), r.i)), LAMBDA j : Rounds(x, it, C, j))
    [] OTHER -> next
For(x, C, i) ==
  Then(Meaning(x.sub[2], AsValue(C), i), LAMBDA o :
    Then(Ev("get_slot", <<Name("iter")>> \o o.vs, o.i), LAMBDA f :
      Then(Ev("call_base", o.vs \o f.vs, f.i), LAMBDA it : Rounds(x, it.vs[1], C, it.i))))

(* The catch branch gets the exception; the final branch comes last,       *)
(* whether the body or the catch branch has completed; without a catch     *)
(* branch the exception goes on after it.                                  *)
Try(x, C, i) ==
  LET arg == x.sub[2].sub[1]  handler == x.sub[2].sub[2]  final == x.sub[3]
      Final(r) == IF final.op = "null" THEN Val(None, r.i) ELSE Meaning(final, C, r.i)
      r       == Meaning(x.sub[1], AsStmt(C), i)
      caught  == IF arg.op = "null" THEN Val(None, r.i) ELSE Assign(arg, r.vs[1], C, r.i)
  IN CASE r.k = "exc" /\ handler.op # "null" ->
            Then(caught, LAMBDA a : Then(Meaning(handler, AsStmt(C), a.i), Final))
       [] r.k = "exc" /\ handler.op = "null" -> Then(Final(r), LAMBDA f : Raised(r.vs[1], f.i))
       [] OTHER -> Then(r, Final)

(***************************************************************************)
(* Strings with expressions in them are added from the right.              *)
(***************************************************************************)
Sum(vs, i) ==
  LET n == Len(vs)
      From[m \in 1 .. n] ==
        IF m = 1 THEN Val(vs[n], i)
        ELSE Then(From[m - 1], LAMBDA r : Ev("+", <<vs[n - m + 1], r.vs[1]>>, r.i))
  IN  From[n]

(* import a.b: the module is bound to the name in the local context.       *)
Bind(names, v, i) ==
  LET n == Len(names)
      Into[m \in 1 .. n - 1] ==
        IF m = 1 THEN Ev("assert_local_slot", <<Name(names[1])>>, i)
        ELSE Then(Into[m - 1], LAMBDA o : Ev("assert_slot", <<Name(names[m])>> \o o.vs, o.i))
  IN  IF n = 1 THEN Ev("set_local_slot", <<Name(names[1]), v>>, i)
      ELSE Then(Into[n - 1], LAMBDA o : Ev("set_slot", <<Name(names[n])>> \o o.vs \o <<v>>, o.i))
RECURSIVE Path(_)
Path(names) == IF Len(names) = 1 THEN names[1] ELSE names[1] \o "/" \o Path(Tail(names))
Import(x, C, i) ==
  LET names == [m \in DOMAIN x.sub[1].sub |-> x.sub[1].sub[m].val] IN
  Then(Ev("get_context_slot", <<Name("import")>>, i), LAMBDA f :
    Then(Ev("call", f.vs \o <<Str(Path(names))>>, f.i), LAMBDA m :
      IF C.stmt THEN Bind(names, m.vs[1], m.i) ELSE m))

(***************************************************************************)
(* Every kind of tree.                                                     *)
(***************************************************************************)
FnOf(x, C) == V("fn", Min({j \in DOMAIN C.fns : C.fns[j] = x}), 0, "")
OrNone(x, C, i) ==
  IF x.op = "null" THEN Val(None, i) ELSE Meaning(x, AsValue(C), i)

Block(xs, C, i) ==
  Then(Values(Front(xs), AsStmt(C), i), LAMBDA r : Meaning(Last(xs), C, r.i))

Pieces(ps, C, i) ==
  LET Tree(p) == IF p[1] = "lit"
                 THEN [op |-> "string piece", val |-> Source!parseStr(p[2]), sub |-> <<>>]
                 ELSE Source!Parser!parseExpr(Source!parseStr(p[2]))
  IN  Then(Values([m \in DOMAIN ps |-> Tree(ps[m])], AsValue(C), i), LAMBDA r : Sum(r.vs, r.i))

Variable(x, i) ==
  CASE Root(x) = "loc" -> Ev("get_local_context", <<>>, i)
    [] Root(x) = "top" -> Ev("get_global_context", <<>>, i)
    [] OTHER           -> Ev("get_context_slot", <<Name(x.val)>>, i)

Apply1(ev, xs, C, i) == Then(Values(xs, AsValue(C), i), LAMBDA r : Ev(ev, r.vs, r.i))

Logic(x, C, i) ==
  Then(Meaning(x.sub[1], AsValue(C), i), LAMBDA a : Then(Test(a.vs[1], a.i), LAMBDA t :
    IF IsTrue(t) = (x.val = "||") THEN Sure(a, t.i) ELSE Meaning(x.sub[2], AsValue(C), t.i)))

Unary(x, C, i) ==
  CASE x.val = "deref" -> Apply1("call", x.sub, C, i)
    [] x.val = "ref"   -> Val(FnOf(x, C), i)
    [] x.val = "del"   -> Then(Assign(x.sub[1], Nil, C, i), LAMBDA r : Val(None, r.i))
    [] OTHER           -> Apply1(x.val, x.sub, C, i)

Meaning_(x, C, i) ==
  CASE x.op = "none"          -> Val(None, i)
    [] x.op \in {"int", "float"} -> Val(Num(x.val), i)
    [] x.op = "string piece"  -> Val(Str(x.val), i)
    [] x.op = "string"        -> Pieces(Source!Pieces(x.val, 1, 1, ""), C, i)
    [] x.op = "id" /\ C.stmt  -> Val(None, i)
    [] x.op = "id" /\ ~C.stmt -> Variable(x, i)
    [] x.op = "missing"       -> Val(C.missing[x.val], i)
    [] x.op = "import"        -> Import(x, C, i)
    [] x.op = "expr_block"    -> IF x.sub[1].sub = <<>> THEN Val(None, i) ELSE Block(x.sub[1].sub, C, i)
    [] x.op = "table" /\ C.stmt /\ x.sub[1].sub = <<>> -> Val(None, i)
    [] x.op = "table" /\ ~(C.stmt /\ x.sub[1].sub = <<>>) -> Then(Ev("new_obj", <<>>, i), LAMBDA o : Entries(x.sub[1].sub, o.vs[1], C, o.i))
    [] x.op = "list_expr"     -> Apply1("new_list", x.sub[1].sub, C, i)
    [] x.op = "varg_expr"     -> Then(Meaning(x.sub[1], AsValue(C), i), LAMBDA v :
                                   Then(ToList(v.vs[1], v.i), LAMBDA l : Res("val", Elements(l.vs[1]), l.i)))
    [] x.op = "list_comp"     -> Then(Ev("new_list", <<>>, i), LAMBDA l :
                                   Then(Meaning(x.sub[1], [AsStmt(C) EXCEPT !.list = l.vs[1]], l.i), LAMBDA r :
                                     Val(l.vs[1], r.i)))
    [] x.op = "list_comp_core" -> Then(Meaning(x.sub[1], AsValue(C), i), LAMBDA v :
                                   Then(Ev("push_list", v.vs \o <<C.list>>, v.i), LAMBDA p : Val(None, p.i)))
    [] x.op = "call"          -> IF \E m \in DOMAIN x.sub[2].sub : x.sub[2].sub[m].op = "missing"
                                 THEN Val(FnOf(x, C), i) ELSE Apply(x, C, i)
    [] x.op = "fn"            -> Val(FnOf(x, C), i)
    [] x.op \in {"slot", "slot_np"} -> Then(Meaning(x.sub[1], AsValue(C), i), LAMBDA o :
                                   Ev(SlotEvent(x, "get"), SlotArgs(x) \o o.vs, o.i))
    [] x.op = "oop_expr"      -> Then(Meaning(x.sub[1], AsValue(C), i), LAMBDA o :
                                   Ev("get_oop", <<Name(x.sub[2].val)>> \o o.vs, o.i))
    [] x.op = "index"         -> Then(Meaning(x.sub[1], AsValue(C), i), LAMBDA o :
                                   Then(Operand(x.sub[2].sub, C, o.i), LAMBDA j : Ev("[]", o.vs \o j.vs, j.i)))
    [] x.op \in {"binary", "cmp"} -> Apply1(x.val, x.sub, C, i)
    [] x.op = "unary"         -> Unary(x, C, i)
    [] x.op = "logic"         -> Logic(x, C, i)
    [] x.op = "cop"           -> Then(Meaning(x.sub[1], AsValue(C), i), LAMBDA o :
                                   Then(Ev("get_slot", <<Name(x.val)>> \o o.vs, o.i), LAMBDA f :
                                     Then(Values(SelectSeq(Tail(x.sub), LAMBDA y : y.op # "null"), AsValue(C), f.i),
                                       LAMBDA a : Ev("call_base", o.vs \o f.vs \o a.vs, a.i))))
    [] x.op = "if"            -> Branches(<<[sub |-> <<x.sub[1], x.sub[4]>>]>> \o x.sub[2].sub, x.sub[3], C, i)
    [] x.op = "while"         -> Loop(x, C, i)
    [] x.op = "for"           -> For(x, C, i)
    [] x.op = "try"           -> Try(x, C, i)
    [] x.op = "assign"        -> Then(IF x.val = "=" THEN Meaning(x.sub[2], AsValue(C), i)
                                      ELSE Apply1(x.val, x.sub, C, i),
                                   LAMBDA v : Then(Assign(x.sub[1], v.vs[1], C, v.i), LAMBDA r : Sure(v, r.i)))
    [] x.op = "ret"           -> Then(OrNone(x.sub[1], C, i), LAMBDA v : [v EXCEPT !.k = "ret"])
    [] x.op = "cont"          -> Res("cont", <<>>, i)
    [] x.op = "break"         -> Res("brk", <<>>, i)
    [] x.op = "raise"         -> Then(Meaning(x.sub[1], AsValue(C), i), LAMBDA v : [v EXCEPT !.k = "exc"])
    [] x.op = "yield"         -> Then(OrNone(x.sub[1], C, i), LAMBDA v : Ev("yield", v.vs, v.i))
    [] x.op = "resume"        -> Then(Meaning(x.sub[1], AsValue(C), i), LAMBDA c :
                                   Then(OrNone(x.sub[2], C, c.i), LAMBDA v : Ev("resume", c.vs \o v.vs, v.i)))
    [] x.op = "fork"          -> Apply1("fork", x.sub, C, i)
    [] x.op = "assert"        -> Then(Meaning(x.sub[1], AsValue(C), i), LAMBDA v : Then(Test(v.vs[1], v.i),
                                   LAMBDA t : IF IsTrue(t) THEN Sure(v, t.i) ELSE Raised(AssertFailed, t.i)))

Do(part, with, C, i) ==
  CASE part = "tree"       -> Meaning_(with, C, i)
    [] part = "trees"      -> Values_(with, C, i)
    [] part = "assign"     -> Assign_(with[1], with[2], C, i)
    [] part = "assign all" -> AssignAll_(with[1], with[2], C, i)
    [] part = "fields"     -> Fields_(with[1], with[2], C, i)
    [] part = "entries"    -> Entries_(with[1], with[2], C, i)
    [] part = "branches"   -> Branches_(with[1], with[2], C, i)
    [] part = "loop"       -> Loop_(with, C, i)
    [] part = "rounds"     -> Rounds_(with[1], with[2], C, i)

(***************************************************************************)
(* What a call of a function does.  A function that is written as one      *)
(* gives its parameters their defaults; a call with missing arguments      *)
(* takes them from the call, and a reference is read without an argument   *)
(* and set to the last one.                                                *)
(***************************************************************************)
Defaults(ps, C) ==
  LET One(p, i) ==
        IF p.sub[1].op = "null" THEN Val(None, i)
        ELSE Then(Ev("get_local_slot", <<Name(p.val)>>, i), LAMBDA v : Then(Ev("is_none", v.vs, v.i), LAMBDA t :
               IF trace[v.i].out # "true" THEN t
               ELSE Then(Meaning(p.sub[1], C, t.i), LAMBDA d : Ev("set_local_slot", <<Name(p.val)>> \o d.vs, d.i))))
      Upto[m \in 0 .. Len(ps)] ==
        IF m = 0 THEN Val(None, 1) ELSE Then(Upto[m - 1], LAMBDA r : One(ps[m], r.i))
  IN  Upto[Len(ps)]

Called(x, args, fns) ==
  LET src     == fns[x]
      missing == [s \in {"1", "2", "3"} |->
                     LET given == {m \in DOMAIN args : ToString(m) = s} IN IF given = {} THEN None ELSE args[Min(given)]]
      C       == [stmt |-> FALSE, list |-> None, missing |-> missing, fns |-> fns]
  IN CASE src.op = "fn"   -> Then(Defaults(src.sub[1].sub, C), LAMBDA r : Meaning(src.sub[2], C, r.i))
       [] src.op = "call" -> Apply(src, C, 1)
       [] src.op = "unary" /\ args = <<>> -> Meaning(src.sub[1], C, 1)
       [] src.op = "unary" /\ args # <<>> -> Then(Assign(src.sub[1], Last(args), C, 1), LAMBDA r : Val(Last(args), r.i))
       [] OTHER           -> Meaning(src, C, 1)
=============================================================================
