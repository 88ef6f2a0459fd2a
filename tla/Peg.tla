-------------------------------- MODULE Peg --------------------------------
(***************************************************************************)
(* The recursive descent parser that the macros of util/parser.h expand    *)
(* to, shared by the ink and the ias front end.  A grammar is a record     *)
(* from rule names to sequences of alternatives; an alternative is a       *)
(* sequence of symbols and the action that builds its value.               *)
(*                                                                         *)
(* Alternatives are tried in order and the first that matches is final.    *)
(* One that fails gives back the tokens it has taken (RESTORE_RULE).       *)
(* R_LIST takes as many elements as it can.  A rule deeper than `limit`    *)
(* calls ends the whole parse (longjmp in SUB_RULE_SET).                   *)
(***************************************************************************)
EXTENDS Integers, Sequences, TLC

(***************************************************************************)
(* Syntax trees: an operator, a token text or "", the operands.  IVM_NULL  *)
(* and the zeroed value of an empty alternative are Null.                  *)
(***************************************************************************)
Tree(op, val, sub) == [op |-> op, val |-> val, sub |-> sub]
Null    == Tree("null", "", <<>>)
List(s) == Tree("list", "", s)
NotNull(s) == SelectSeq(s, LAMBDA x : x.op # "null")

(* Symbols of an alternative.  OPT with "matched" is                       *)
(* T_OPT(tok, GOTO_MATCHED()): without the token, the alternative ends.    *)
T(id)          == <<"T", id, 0>>
T_ORD(id, ord) == <<"ORD", id, ord>>
T_OPT(id)      == <<"OPT", id, 0>>
T_OPTM(id)     == <<"OPTM", id, 0>>
R(name)        == <<"R", name, 0>>
R_LIST(name)   == <<"LIST", name, 0>>

(* Actions, over TOKEN_AT(i) and RULE_RET_AT(i).                           *)
Ret(i)             == <<"ret", i>>
Build(op, sub)     == <<"build", op, sub>>
BuildV(op, i, sub) == <<"buildv", op, i, sub>>
Cons(h, l)         == <<"cons", h, l>>
Snoc(l, x)         == <<"snoc", l, x>>       \* unless x is Null
NoNull(l)          == <<"nonull", l>>
Comma(x, l)        == <<"comma", x, l>>      \* a block if there is a list
Plug(chain, x)     == <<"plug", chain, x>>
SetBody(x, body)   == <<"body", x, body>>
Comp(x, chain)     == <<"comp", x, chain>>
Const(x)           == <<"const", x>>
Alt(syms, act)     == [syms |-> syms, act |-> act]

(* The innermost first operand of a chain of operators is still open.      *)
RECURSIVE PlugInto(_, _)
PlugInto(chain, x) ==
  IF chain.op = "null" THEN x
  ELSE [chain EXCEPT !.sub[1] = PlugInto(@, x)]

(* The innermost body of a chain of for and if clauses is still open.      *)
RECURSIVE FillBody(_, _)
FillBody(chain, x) ==
  IF chain.op = "null" THEN x
  ELSE [chain EXCEPT !.sub[Len(chain.sub)] = FillBody(@, x)]

RECURSIVE CountFor(_)
CountFor(chain) ==
  IF chain.op = "null" THEN 0
  ELSE (IF chain.op = "for" THEN 1 ELSE 0) + CountFor(chain.sub[Len(chain.sub)])

RECURSIVE Value(_, _, _)
Value(act, toks, rets) ==
  LET V(a) == Value(a, toks, rets) IN
  CASE act[1] = "const"  -> act[2]
    [] act[1] = "ret"    -> rets[act[2] + 1]
    [] act[1] = "build"  -> Tree(act[2], "", [i \in DOMAIN act[3] |-> V(act[3][i])])
    [] act[1] = "buildv" -> Tree(act[2], toks[act[3] + 1].val,
                                 [i \in DOMAIN act[4] |-> V(act[4][i])])
    [] act[1] = "cons"   -> List(<<V(act[2])>> \o V(act[3]).sub)
    [] act[1] = "snoc"   -> List(V(act[2]).sub \o NotNull(<<V(act[3])>>))
    [] act[1] = "nonull" -> List(NotNull(V(act[2]).sub))
    [] act[1] = "comma"  -> IF V(act[3]) = Null THEN V(act[2])
                            ELSE Tree("expr_block", "", <<List(<<V(act[2])>> \o V(act[3]).sub)>>)
    [] act[1] = "plug"   -> PlugInto(V(act[2]), V(act[3]))
    [] act[1] = "body"   -> LET x == V(act[2]) IN [x EXCEPT !.sub[Len(x.sub)] = V(act[3])]
    [] act[1] = "comp"   ->
         LET chain == V(act[3])
             core  == Tree("list_comp_core", ToString(CountFor(chain)), <<V(act[2])>>)
         IN  Tree("list_comp", "", <<FillBody(chain, core)>>)

(***************************************************************************)
(* Parsing.  The C stack is explicit: a frame is a call of a rule, at      *)
(* symbol j of its alternative k with the tokens and values it has so far, *)
(* or an R_LIST with its elements.  `i` is the position of the next token, *)
(* `ret` what the call that has just ended gives.                          *)
(***************************************************************************)
Frame(name, i, depth, list) ==
  [name |-> name, list |-> list, k |-> 1, j |-> 1, from |-> i, i |-> i, depth |-> depth,
   toks |-> <<>>, rets |-> <<>>]
Running        == [st |-> "running", val |-> Null, i |-> 0]
Matched(val, i) == [st |-> "matched", val |-> val, i |-> i]
Failed         == [Running EXCEPT !.st = "failed"]
Escape         == [Running EXCEPT !.st = "escape"]     \* longjmp out of every rule

Back(s, ret)   == [s EXCEPT !.stack = Tail(@), !.ret = ret]
Put(s, f)      == [s EXCEPT !.stack[1] = f, !.ret = Running]
Call(s, f, name, i, list) ==
  IF f.depth + 1 >= s.limit THEN [s EXCEPT !.stack = <<>>, !.ret = Escape]
  ELSE [s EXCEPT !.stack = <<Frame(name, i, IF list THEN f.depth ELSE f.depth + 1, list)>> \o @, !.ret = Running]
NextAlternative(f) == [f EXCEPT !.k = @ + 1, !.j = 1, !.i = f.from, !.toks = <<>>, !.rets = <<>>]
TakeToken(f, t)    == [f EXCEPT !.j = @ + 1, !.i = @ + 1, !.toks = Append(@, t)]

(* A list: as many elements as match, at least one.                        *)
ListTurn(s, f) ==
  CASE s.ret.st = "running" -> Call(s, f, f.name, f.i, FALSE)
    [] s.ret.st = "matched" -> Put(s, [f EXCEPT !.i = s.ret.i, !.rets = Append(@, s.ret.val)])
    [] s.ret.st = "failed"  -> Back(s, IF f.rets = <<>> THEN Failed ELSE Matched(List(f.rets), f.i))

TokenTurn(s, f, sym) ==
  LET more == f.i <= Len(s.ts)
      is   == more /\ s.ts[f.i].id = sym[2]
      skip == [f EXCEPT !.j = @ + 1]
  IN CASE is /\ (sym[1] = "ORD" => s.ts[f.i].order = sym[3]) -> Put(s, TakeToken(f, s.ts[f.i]))
       \* an optional token that is not there still takes its place in __toks__
       [] ~is /\ sym[1] = "OPT"  -> Put(s, IF more THEN [skip EXCEPT !.toks = Append(@, s.ts[f.i])] ELSE skip)
       [] ~is /\ sym[1] = "OPTM" -> Back(s, Matched(f.rets[1], f.i))
       [] OTHER                  -> Put(s, NextAlternative(f))

RuleTurn(s, f) ==
  LET alts == s.g[f.name]  alt == alts[f.k]  sym == alt.syms[f.j] IN
  CASE s.ret.st = "matched" -> Put(s, [f EXCEPT !.j = @ + 1, !.i = s.ret.i, !.rets = Append(@, s.ret.val)])
    [] s.ret.st = "failed"  -> Put(s, NextAlternative(f))
    [] f.k > Len(alts)      -> Back(s, Failed)
    [] f.j > Len(alt.syms)  -> Back(s, Matched(Value(alt.act, f.toks, f.rets), f.i))
    [] OTHER -> CASE sym[1] = "R"    -> Call(s, f, sym[2], f.i, FALSE)
                  [] sym[1] = "LIST" -> Call(s, f, sym[2], f.i, TRUE)
                  [] OTHER           -> TokenTurn(s, f, sym)

(* Up to 2^n turns.                                                        *)
RECURSIVE Turns(_, _)
Turns(s, n) ==
  IF s.stack = <<>> THEN s
  ELSE IF n = 0 THEN IF s.stack[1].list THEN ListTurn(s, s.stack[1]) ELSE RuleTurn(s, s.stack[1])
  ELSE LET half == Turns(s, n - 1) IN Turns(half, n - 1)

(* RULE_START: the rule must match and leave no token.                     *)
Parse(g, name, ts, limit) ==
  LET r == Turns([g |-> g, ts |-> ts, limit |-> limit, stack |-> <<Frame(name, 1, 0, FALSE)>>,
                  ret |-> Running], 24).ret
  IN  IF r.st = "matched" /\ r.i = Len(ts) + 1 THEN r.val ELSE Tree("error", "", <<>>)
=============================================================================
