------------------------------- MODULE InkGen -------------------------------
(***************************************************************************)
(* The code generator of ink, front/ink/gen: the eval function of each     *)
(* kind of node is a template, the sequence of what it does: instructions  *)
(* to add, children to generate, jumps to patch.  Generate carries out a   *)
(* template on the environment (ilang_gen_env_t).                          *)
(*                                                                         *)
(* Line numbers are left out.  A function carries the tree it comes from   *)
(* (src), which only the properties use.                                   *)
(***************************************************************************)
EXTENDS InkLexer, Optimizer, SequencesExt

Parser == INSTANCE InkParser

(***************************************************************************)
(* ilang_gen_flag_t: the flags that are set, and the two numbers.          *)
(***************************************************************************)
Flag(s)           == [s |-> s, argno |-> 0, vofs |-> 0]
VargFlag(s, vofs) == [s |-> s \cup {"varg"}, argno |-> 0, vofs |-> vofs]
TopIf(F)          == Flag(F.s \cap {"top"})

(***************************************************************************)
(* Steps of a template.  Labels are the jump lists of one evaluation.      *)
(***************************************************************************)
I(op)           == <<"emit", op, 0, "">>
IA(op, n)       == <<"emit", op, n, "">>
IS(op, s)       == <<"emit", op, 0, s>>
Gen(x, F)       == <<"gen", x, F>>         \* x->eval(x, F, env)
GenR(x, F)      == <<"genR", x, F>>        \* the same, and keep the flags it returns
IfR(flag, a, b) == <<"if", flag, a, b>>    \* on the flags that were kept
Jump(op, l)     == <<"jump", op, l>>       \* to a label that comes later
JumpRef(op, f)  == <<"jumpref", op, f>>    \* to the label in a field of env->addr
Here(l)         == <<"here", l>>           \* patch the jumps to the label
JumpBack        == <<"jumpback">>          \* to where SetCont was
SetRef(f, l)    == <<"setref", f, l>>      \* env->addr.f = a new list, the label
RestoreRef(f)   == <<"restoreref", f>>     \* ... what it was at the start
Restore         == <<"restore">>           \* env->addr as it was at the start
SetCont         == <<"setcont">>           \* env->addr.continue_addr = here
NLBlock         == <<"nl">>                \* nl_block + 1, at both ends of a block
NL0             == <<"nl0">>
NewBreak        == <<"newbreak">>          \* a new env->addr.break_ref
ContJump        == <<"cont">>
BreakJump       == <<"break">>
BreaksHere      == <<"breakshere">>
NewExec(n, src, params) == <<"newexec", n, src, params>>
EndExec         == <<"endexec">>
NewFunc         == <<"newfunc">>
Return(flags)   == <<"return", flags>>
Error           == <<"error">>

When(c, steps)  == IF c THEN steps ELSE <<>>
PopIfTop(F)     == When("top" \in F.s, <<I("POP")>>)
NoneUnlessTop(F) == When("top" \notin F.s, <<I("NEW_NONE")>>)
NotLeft(F)      == When("left" \in F.s, <<Error>>)
Each(s, f(_))   == [i \in DOMAIN s |-> f(s[i])]
RECURSIVE Concat(_)
Concat(ss) == IF ss = <<>> THEN <<>> ELSE Head(ss) \o Concat(Tail(ss))

(***************************************************************************)
(* String and name tokens: escapes become their characters.  A numeric     *)
(* escape is left as it is, once its first digit is there.                 *)
(***************************************************************************)
Escapes == <<<<"n", "\n">>, <<"r", "\r">>, <<"t", "\t">>, <<"f", "\f">>, <<"\\", "\\">>, <<"\"", "\"">>,
             <<"'", "'">>>>
NumEscapes == <<<<"x", Chars("0123456789abcdefABCDEF")>>, <<"X", Chars("0123456789abcdefABCDEF")>>,
                <<"d", Digits>>, <<"D", Digits>>, <<"o", Chars("01234567")>>, <<"O", Chars("01234567")>>,
                <<"u", Chars("0123456789abcdefABCDEF")>>, <<"U", Chars("0123456789abcdefABCDEF")>> >>
BadString == "bad escape"
RECURSIVE parseStr(_)
parseStr(s) ==
  IF s = "" THEN ""
  ELSE LET Rest(k) == SubSeq(s, k, Len(s))
           c2    == IF Len(s) > 1 THEN Ch(s, 2) ELSE ""
           digit == Lookup(NumEscapes, c2, {})
           bad   == digit # {} /\ ~(Len(s) > 2 /\ Ch(s, 3) \in digit)
           one   == Ch(s, 1) # "\\" \/ Len(s) = 1
           head  == IF one THEN Ch(s, 1) ELSE IF digit # {} THEN SubSeq(s, 1, 2) ELSE Lookup(Escapes, c2, c2)
           tail  == parseStr(Rest(IF one THEN 2 ELSE 3))
       IN  IF (~one /\ bad) \/ tail = BadString THEN BadString ELSE head \o tail
Text(s, Steps(_)) == LET t == parseStr(s) IN IF t = BadString THEN <<Error>> ELSE Steps(t)

(***************************************************************************)
(* An interpolated string "a#{b}c": the pieces, literal and expression in  *)
(* turn.  `last` is the last character that was # or \, if it still counts *)
(***************************************************************************)
Unclosed == <<<<"error", "">>>>
NoEsc(last, c) == IF last = "\\" THEN "" ELSE c

(* The position of the brace that closes the one before i.                 *)
RECURSIVE ClosingBrace(_, _, _, _)
ClosingBrace(s, i, last, depth) ==
  IF i > Len(s) THEN 0
  ELSE LET c == Ch(s, i)  esc == last = "\\" IN
       CASE c = "{" /\ ~esc -> ClosingBrace(s, i + 1, c, depth + 1)
         [] c = "}" /\ ~esc -> IF depth = 1 THEN i ELSE ClosingBrace(s, i + 1, c, depth - 1)
         [] OTHER           -> ClosingBrace(s, i + 1, IF c = "\\" THEN NoEsc(last, c) ELSE "", depth)

RECURSIVE Pieces(_, _, _, _)
Pieces(s, lit, i, last) ==
  IF i > Len(s)
  THEN IF lit <= Len(s) \/ lit = 1 THEN <<<<"lit", SubSeq(s, lit, Len(s))>>>> ELSE <<>>
  ELSE LET c == Ch(s, i)  close == ClosingBrace(s, i + 1, "", 1) IN
       CASE c \in {"#", "\\"}       -> Pieces(s, lit, i + 1, NoEsc(last, c))
         [] c = "{" /\ last = "#"   ->
              IF close \in {0, i + 1} THEN Unclosed
              ELSE <<<<"lit", SubSeq(s, lit, i - 2)>>, <<"expr", SubSeq(s, i + 1, close - 1)>>>>
                   \o Pieces(s, close + 1, close + 1, "")
         [] OTHER                   -> Pieces(s, lit, i + 1, "")

string_expr(x, F) ==
  LET ps == Pieces(x.val, 1, 1, "")
      Piece(p) == CASE p[1] = "lit"   -> Text(p[2], LAMBDA t : <<IS("NEW_STR", t)>>)
                    [] p[1] = "error" -> <<Error>>
                    [] OTHER          -> Text(p[2], LAMBDA t : <<Gen(Parser!parseExpr(t), Flag({}))>>)
  IN  NotLeft(F) \o Concat(Each(ps, Piece)) \o [i \in 1 .. Len(ps) - 1 |-> I("ADD")] \o PopIfTop(F)

(***************************************************************************)
(* Literals, names, imports.                                               *)
(***************************************************************************)
none_expr(F) == IF "left" \in F.s THEN <<I("POP")>> ELSE NoneUnlessTop(F)

(* parseDouble: an integer of more than 15 digits is taken as not exact.   *)
Overflows(digits) == Len(digits) > 15
int_expr(x, F) ==
  NotLeft(F) \o When("top" \notin F.s, <<IS(IF Overflows(x.val) THEN "NEW_NUM_F" ELSE "NEW_NUM_I", x.val)>>)
float_expr(x, F) == NotLeft(F) \o When("top" \notin F.s, <<IS("NEW_NUM_F", x.val)>>)

Access(F, what, s) ==
  IF "left" \in F.s THEN <<IS("SET_" \o what, s)>> ELSE When("top" \notin F.s, <<IS("GET_" \o what, s)>>)
id_expr(x, F) ==
  Text(x.val, LAMBDA t :
    CASE t = "loc" -> <<Return({"loc"})>> \o When("slot" \notin F.s, Access(F, "LOCAL_CONTEXT", ""))
      [] t = "top" -> <<Return({"top"})>> \o When("slot" \notin F.s, Access(F, "GLOBAL_CONTEXT", ""))
      [] OTHER     -> Access(F, "CONTEXT_SLOT", t))

RECURSIVE Join(_)
Join(names) == IF Len(names) = 1 THEN names[1] ELSE names[1] \o "/" \o Join(Tail(names))
import_expr(x, F) ==
  LET names == [i \in DOMAIN x.sub[1].sub |-> parseStr(x.sub[1].sub[i].val)]
      n     == Len(names)
      Def(i) == CASE i = 1 -> <<IS(IF n > 1 THEN "ASSERT_LOCAL_SLOT" ELSE "SET_LOCAL_SLOT", names[1])>>
                  [] i < n -> <<IS("ASSERT_SLOT", names[i])>>
                  [] OTHER -> <<IS("SET_SLOT", names[n]), I("POP")>>
  IN NotLeft(F)
     \o <<IS("GET_CONTEXT_SLOT", "import"), IS("NEW_STR", Join(names)), IA("INVOKE", 1)>>
     \o When("top" \in F.s, Concat([i \in 1 .. n |-> Def(i)]))

(***************************************************************************)
(* Tables and lists, as values and as patterns.                            *)
(***************************************************************************)
genArg(args) ==
  CASE Len(args) = 0 -> <<I("NEW_NONE")>>
    [] Len(args) = 1 -> <<Gen(args[1], Flag({}))>>
    [] OTHER -> Each(args, LAMBDA a : Gen(a, Flag({}))) \o <<IA("NEW_LIST", Len(args))>>

SlotName(x, np, Steps(_)) == IF x.op = np THEN Steps(x.val) ELSE Text(x.val, Steps)

EntryIn(e) ==    \* the value of an entry of the table on the stack
  CASE e.op = "entry_oop"   -> <<I("DUP"), IS("GET_OOP", e.sub[1].val)>>
    [] e.op = "entry_index" -> <<I("DUP")>> \o genArg(e.sub[1].sub) \o <<I("IDX")>>
    [] OTHER -> SlotName(e, "entry_np", LAMBDA t :
                  IF t = "proto" THEN <<I("DUP"), I("GET_PROTO")>> ELSE <<IS("GET_SLOT_N", t)>>)
EntryOut(e) ==   \* set an entry to the value on the stack
  CASE e.op = "entry_oop"   -> <<IS("SET_OOP_B", e.sub[1].val)>>
    [] e.op = "entry_index" -> <<IA("DUP_N", 1)>> \o genArg(e.sub[1].sub) \o <<I("IDXA"), I("POP")>>
    [] OTHER -> SlotName(e, "entry_np", LAMBDA t :
                  IF t = "proto" THEN <<IA("DUP_N", 1), I("SET_PROTO"), I("POP")>>
                  ELSE <<IS("SET_SLOT_B", t)>>)
table_expr(x, F) ==
  LET entries == x.sub[1].sub
      Expr(e) == e.sub[Len(e.sub)]
  IN When("del" \in F.s, <<Error>>) \o
     IF "left" \in F.s
     THEN Concat(Each(entries, LAMBDA e : EntryIn(e) \o <<Gen(Expr(e), Flag({"left"}))>>)) \o <<I("POP")>>
     ELSE <<IF entries = <<>> THEN I("NEW_OBJ") ELSE IA("NEW_OBJ_T", Len(entries))>>
          \o Concat(Each(entries, LAMBDA e : <<Gen(Expr(e), Flag({}))>> \o EntryOut(e))) \o PopIfTop(F)

IsVarg(x) == x.op = "varg_expr"
list_expr(x, F) ==
  LET elems == x.sub[1].sub
      n     == Len(elems)
      vargs == SelectSeq(elems, IsVarg)
      varg  == vargs # <<>>
      Pattern(i) == When(varg, <<I("ENSURE_NONE")>>) \o <<Gen(elems[i], VargFlag({"left"}, n - i + 1))>>
  IN IF "left" \in F.s
     THEN When(Len(vargs) > 1, <<Error>>) \o <<I("TO_LIST")>>
          \o (IF varg THEN <<I("PUSH_BLOCK_S1"), NLBlock, I("UNPACK_LIST_ALL_R")>> ELSE <<IA("UNPACK_LIST", n)>>)
          \o Concat([i \in 1 .. n |-> Pattern(i)])
          \o When(varg, <<I("POP_BLOCK"), NLBlock>>)
     ELSE (IF varg THEN <<I("PUSH_BLOCK"), NLBlock>> \o Each(elems, LAMBDA a : Gen(a, Flag({"varg"})))
                        \o <<I("NEW_LIST_ALL"), I("POP_BLOCK_S1"), NLBlock>>
           ELSE Each(elems, LAMBDA a : Gen(a, Flag({}))) \o <<IA("NEW_LIST", n)>>) \o PopIfTop(F)

list_comp_core(x) == <<Gen(x.sub[1], Flag({})), IS("DUP_PREV_BLOCK", x.val), I("PUSH_LIST")>>
list_comp(x, F) ==
  NotLeft(F) \o <<IA("NEW_LIST", 0), Gen(x.sub[1], Flag({"top"}))>> \o PopIfTop(F)

varg_expr(x, F) ==
  When("varg" \notin F.s, <<Error>>) \o
  IF "left" \in F.s THEN <<IA("NEW_LIST_ALL_R", F.vofs - 1), Gen(x.sub[1], Flag({"left"}))>>
  ELSE <<Gen(x.sub[1], Flag({})), I("TO_LIST"), I("UNPACK_LIST_ALL")>>

(***************************************************************************)
(* Blocks and calls.  A call with missing arguments is a function.         *)
(***************************************************************************)
expr_block(x, F) ==
  LET list == x.sub[1].sub  n == Len(list)  top == "top" \in F.s IN
  NotLeft(F) \o [i \in 1 .. n |-> Gen(list[i], Flag(IF i = n /\ ~top THEN {} ELSE {"top"}))]
  \o When(n = 0 /\ ~top, <<I("NEW_NONE")>>)

pa_expr(F) == IF "arg" \in F.s THEN <<IA("DUP_ABS", F.argno)>> ELSE <<Error>>

call(x, F) ==
  LET args    == x.sub[2].sub
      missing == {i \in DOMAIN args : args[i].op = "missing"}
      npa     == Cardinality(missing)
      varg    == \E i \in DOMAIN args : IsVarg(args[i])
      ArgFlag(i) == IF i \in missing
                    THEN [Flag({"arg"}) EXCEPT !.argno = Cardinality({j \in missing : j < i})]
                    ELSE Flag({"arg", "varg"})
      Invoke(op) == IF varg THEN <<I(op \o "_VAR")>> ELSE <<IA(op, Len(args))>>
  IN NotLeft(F)
     \o (IF npa > 0 THEN <<NewExec(-1, x, <<>>), IA("SET_PA_ARG", npa)>>
         ELSE When(varg, <<I("PUSH_BLOCK"), NLBlock>>))
     \o <<GenR(x.sub[1], Flag({"callee"}))>>
     \o [i \in DOMAIN args |-> Gen(args[i], ArgFlag(i))]
     \o When(varg /\ npa > 0, <<IA("PUSH_BLOCK_AT", npa)>>)
     \o <<IfR("base", Invoke("INVOKE_BASE"), Invoke("INVOKE"))>>
     \o When(varg, <<I("POP_BLOCK_S1"), NLBlock>>)
     \o When(npa > 0, <<EndExec, NewFunc>>)
     \o PopIfTop(F)

(***************************************************************************)
(* Slots.  As a callee the object stays below the slot.                    *)
(***************************************************************************)
slot_expr(x, F) ==
  LET ByRoot(loc, top, other) == <<IfR("loc", loc, <<IfR("top", top, other)>>)>>
      Put1(t) == ByRoot(<<IS("SET_LOCAL_SLOT", t)>>, <<IS("SET_GLOBAL_SLOT", t)>>,
                        <<IF t = "proto" THEN I("SET_PROTO") ELSE IS("SET_SLOT", t), I("POP")>>)
      callee  == "callee" \in F.s
      get     == IF callee THEN "GET_SLOT_N" ELSE "GET_SLOT"
      Get1(t) == ByRoot(<<I("GET_LOCAL_CONTEXT"), IS(get, t)>>, <<I("GET_GLOBAL_CONTEXT"), IS(get, t)>>,
                        IF t = "proto" THEN When(callee, <<I("DUP")>>) \o <<I("GET_PROTO")>>
                        ELSE <<IS(get, t)>>)
  IN SlotName(x, "slot_np", LAMBDA t :
       <<GenR(x.sub[1], Flag({"slot"}))>>
       \o IF "left" \in F.s THEN Put1(t)
          ELSE Get1(t) \o When(callee, <<Return({"base"})>>) \o PopIfTop(F))

oop_expr(x, F) ==
  LET oop == x.sub[2].val IN
  <<Gen(x.sub[1], Flag({}))>> \o
  IF "left" \in F.s THEN <<IS("SET_OOP", oop), I("POP")>>
  ELSE When("callee" \in F.s, <<I("DUP"), Return({"base"})>>) \o <<IS("GET_OOP", oop)>> \o PopIfTop(F)

index_expr(x, F) ==
  <<Gen(x.sub[1], Flag({}))>> \o genArg(x.sub[2].sub)
  \o IF "left" \in F.s THEN <<I("IDXA"), I("POP")>> ELSE <<I("IDX")>> \o PopIfTop(F)

(***************************************************************************)
(* Operators.                                                              *)
(***************************************************************************)
OpNames == <<
  <<"+", "ADD">>, <<"-", "SUB">>, <<"*", "MUL">>, <<"/", "DIV">>, <<"%", "MOD">>, <<"&", "AND">>,
  <<"|", "IOR">>, <<"^", "EOR">>, <<"<<", "SHL">>, <<">>", "SHAR">>, <<">>>", "SHLR">>,
  <<"<", "LT">>, <<"<=", "LE">>, <<"==", "EQ">>, <<">=", "GE">>, <<">", "GT">>, <<"!=", "NE">>,
  <<"is", "CHECK_PROTO">>, <<"+=", "INADD">>, <<"-=", "INSUB">>, <<"*=", "INMUL">>,
  <<"/=", "INDIV">>, <<"%=", "INMOD">>, <<"&=", "INAND">>, <<"|=", "INIOR">>, <<"^=", "INEOR">>,
  <<"<<=", "INSHL">>, <<">>=", "INSHAR">>, <<">>>=", "INSHLR">> >>
UnaryNames == << <<"!", "NOT">>, <<"-", "NEG">>, <<"+", "POS">>, <<"~", "BNOT">> >>
Opcode(names, text) == I(Lookup(names, text, "unsupported"))

binary_expr(x, F) ==    \* cmp_expr too
  NotLeft(F) \o <<Gen(x.sub[1], Flag({})), Gen(x.sub[2], Flag({})), Opcode(OpNames, x.val)>> \o PopIfTop(F)

cop_expr(x, F) ==
  LET two == x.sub[2].op # "null" IN
  NotLeft(F) \o <<Gen(x.sub[1], Flag({})), IS("GET_SLOT_N", x.val)>>
  \o When(two, <<Gen(x.sub[2], Flag({}))>>) \o <<IA("INVOKE_BASE", IF two THEN 1 ELSE 0)>> \o PopIfTop(F)

(* A reference is a function that sets the operand to its argument, or     *)
(* without one gives it.                                                   *)
ref_expr(x, F) ==
  <<NewExec(-1, x, <<>>), I("REMOVE_LOC"), Jump("CHECK", "set"), Gen(x.sub[1], Flag({})), I("RETURN"),
    Here("set"), I("DUP"), Gen(x.sub[1], Flag({"left"})), I("RETURN"), EndExec>>
  \o When("top" \notin F.s, <<NewFunc>>)

unary_expr(x, F) ==
  LET opr == x.sub[1] IN
  IF x.val = "deref"
  THEN <<Gen(opr, Flag({}))>> \o
       IF "left" \in F.s THEN <<I("SWITCH2"), IA("INVOKE", 1), I("POP")>>
       ELSE <<IA("INVOKE", 0)>> \o PopIfTop(F)
  ELSE NotLeft(F) \o
       CASE x.val = "del" -> <<I("NEW_NIL"), Gen(opr, Flag({"left", "del"}))>> \o NoneUnlessTop(F)
         [] x.val = "ref" -> ref_expr(x, F)
         [] OTHER         -> <<Gen(opr, Flag({})), Opcode(UnaryNames, x.val)>> \o PopIfTop(F)

(***************************************************************************)
(* && and ||.  As the condition of a branch, and leaves through the end of *)
(* the branch when its left side fails, or through the beginning when it   *)
(* holds; the other jump continues at the right side.                      *)
(***************************************************************************)
logic_expr(x, F) ==
  LET and   == x.val = "&&"
      jump  == IF and THEN "JUMP_FALSE" ELSE "JUMP_TRUE"
      short == IF and THEN "end" ELSE "begin"
      next  == IF and THEN "begin" ELSE "end"
      Side(y) == <<GenR(y, Flag({"branch"})), IfR("branch", <<>>, <<JumpRef(jump, short)>>)>>
  IN NotLeft(F) \o
     (IF "branch" \in F.s
      THEN <<Return({"branch"}), SetRef(next, "rhe")>> \o Side(x.sub[1])
           \o <<Here("rhe"), RestoreRef(next)>> \o Side(x.sub[2]) \o <<JumpRef("JUMP", next)>>
      ELSE <<Gen(x.sub[1], Flag({})), Jump(jump \o "_N", "out"), I("POP"), Gen(x.sub[2], Flag({})), Here("out")>>
           \o PopIfTop(F))
     \o <<RestoreRef("end"), RestoreRef("begin")>>

(***************************************************************************)
(* Branches and loops.                                                     *)
(***************************************************************************)
Condition(c, out) ==    \* of an if or a while: ends at the label "body", or jumps out
  <<SetRef("end", out), SetRef("begin", "body"), GenR(c, Flag({"branch"})),
    IfR("branch", <<Here("body")>>, <<Jump("JUMP_FALSE", out)>>)>>

if_expr(x, F) ==
  LET elifs == x.sub[2].sub  n == Len(elifs)
      else  == x.sub[3].op # "null"
      Elif(i) == <<Gen(elifs[i].sub[1], Flag({})), Jump("JUMP_FALSE", "next"), Gen(elifs[i].sub[2], TopIf(F))>>
                 \o When(i < n \/ else, <<Jump("JUMP", "out")>>) \o <<Here("next")>>
  IN NotLeft(F) \o Condition(x.sub[1], "next") \o <<Gen(x.sub[4], TopIf(F))>>
     \o When(n > 0 \/ else, <<Jump("JUMP", "out")>>) \o <<Here("next")>>
     \o Concat([i \in 1 .. n |-> Elif(i)])
     \o (IF else THEN <<Gen(x.sub[3], TopIf(F))>> ELSE <<I("NEW_NONE")>>)
     \o <<Here("out"), Restore>>

(* Mutant: break and cont also leave the blocks that the loop is in.       *)
while_expr_KeepCount(x, F) ==
  NotLeft(F) \o <<I("PUSH_BLOCK"), SetCont, NewBreak, I("POP_ALL")>>
  \o Condition(x.sub[1], "out")
  \o <<Gen(x.sub[2], Flag({"top"})), JumpBack, Here("out"), BreaksHere, I("POP_BLOCK")>>
  \o NoneUnlessTop(F) \o <<Restore>>
while_expr(x, F) ==
  NotLeft(F) \o <<NL0, I("PUSH_BLOCK"), SetCont, NewBreak, I("POP_ALL")>>
  \o Condition(x.sub[1], "out")
  \o <<Gen(x.sub[2], Flag({"top"})), JumpBack, Here("out"), BreaksHere, I("POP_BLOCK")>>
  \o NoneUnlessTop(F) \o <<Restore>>

(* Mutant: the handler that ends the loop stays while the body runs.       *)
for_expr_KeepHandler(x, F) ==
  NotLeft(F) \o <<NewBreak, NL0, I("PUSH_BLOCK"), Gen(x.sub[2], Flag({})), IS("GET_SLOT_N", "iter"),
    IA("INVOKE_BASE", 0), SetCont, Jump("ITER_NEXT", "out"), IA("INVOKE_BASE", 0), I("NOP"),
    Gen(x.sub[1], Flag({"left"})), Gen(x.sub[3], Flag({"top"})), JumpBack, Here("out"), BreaksHere, I("POP_BLOCK")>>
  \o NoneUnlessTop(F) \o <<Restore>>
for_expr(x, F) ==
  NotLeft(F) \o <<NewBreak, NL0, I("PUSH_BLOCK"), Gen(x.sub[2], Flag({})), IS("GET_SLOT_N", "iter"),
    IA("INVOKE_BASE", 0), SetCont, Jump("ITER_NEXT", "out"), IA("INVOKE_BASE", 0), I("RPROT_CAC"),
    Gen(x.sub[1], Flag({"left"})), Gen(x.sub[3], Flag({"top"})), JumpBack, Here("out"), BreaksHere, I("POP_BLOCK")>>
  \o NoneUnlessTop(F) \o <<Restore>>

(***************************************************************************)
(* Exceptions.  Without a catch branch the exception is raised again after *)
(* the final branch.                                                       *)
(***************************************************************************)
try_expr(x, F) ==
  LET arg == x.sub[2].sub[1]  handler == x.sub[2].sub[2]  final == x.sub[3]
      catches == handler.op # "null"
  IN NotLeft(F)
     \o <<I("PUSH_BLOCK"), NLBlock, Jump("RPROT_SET", "catch"), Gen(x.sub[1], Flag({"top"})), I("RPROT_CAC"),
          I("POP_BLOCK"), Jump("JUMP", "final"), Here("catch")>>
     \o (IF catches THEN When(arg.op # "null", <<Gen(arg, Flag({"left"}))>>)
                         \o <<I("POP_BLOCK"), NLBlock, Gen(handler, Flag({"top"}))>>
         ELSE <<I("POP_BLOCK_S1"), NLBlock>>)
     \o <<Here("final")>>
     \o (IF final.op # "null" THEN <<Gen(final, TopIf(F))>> ELSE NoneUnlessTop(F))
     \o When(~catches, When("top" \notin F.s, <<I("POP")>>) \o <<I("POP_EXC")>>)

(***************************************************************************)
(* Functions: the defaults of missing arguments, then the body.            *)
(***************************************************************************)
fn_expr(x, F) ==
  LET params == x.sub[1].sub
      Param(p)   == [name |-> parseStr(p.val), varg |-> p.op = "varg"]
      dup == \E i, j \in DOMAIN params : i # j /\ params[i].val = params[j].val
      bad == \E i \in DOMAIN params : parseStr(params[i].val) = BadString
      Default(p) == When(p.sub[1].op # "null",
        <<IS("GET_LOCAL_SLOT", parseStr(p.val)), Jump("CHECK_NONE", "given"), Gen(p.sub[1], Flag({})),
          IS("SET_LOCAL_SLOT", parseStr(p.val)), Here("given")>>)
  IN NotLeft(F) \o When(dup \/ bad, <<Error>>)
     \o <<NewExec(Len(params), x, [i \in DOMAIN params |-> Param(params[i])])>>
     \o Concat([i \in DOMAIN params |-> Default(params[i])])
     \o <<Gen(x.sub[2], Flag({})), EndExec>> \o When("top" \notin F.s, <<NewFunc>>)

(***************************************************************************)
(* Statements.                                                             *)
(***************************************************************************)
ValueOrNone(y) == IF y.op = "null" THEN <<I("NEW_NONE")>> ELSE <<Gen(y, Flag({}))>>
intr_expr(x, F) ==
  NotLeft(F) \o
  CASE x.op = "ret"    -> ValueOrNone(x.sub[1]) \o <<I("RETURN")>>
    [] x.op = "cont"   -> <<ContJump>>
    [] x.op = "break"  -> <<BreakJump>>
    [] x.op = "raise"  -> <<Gen(x.sub[1], Flag({})), I("RAISE")>>
    [] x.op = "resume" -> <<Gen(x.sub[1], Flag({}))>> \o ValueOrNone(x.sub[2]) \o <<I("RESUME")>> \o PopIfTop(F)
    [] x.op = "yield"  -> ValueOrNone(x.sub[1]) \o <<I("YIELD")>> \o PopIfTop(F)

assert_expr(x, F) ==
  NotLeft(F) \o <<Gen(x.sub[1], Flag({})), I(IF "top" \in F.s THEN "ASSERT_TRUE" ELSE "ASSERT_TRUE_N")>>

assign_expr(x, F) ==
  LET value == IF x.val = "=" THEN <<Gen(x.sub[2], Flag({}))>>
               ELSE <<Gen(x.sub[1], Flag({})), Gen(x.sub[2], Flag({})), Opcode(OpNames, x.val)>>
  IN NotLeft(F) \o value \o When("top" \notin F.s, <<I("DUP")>>) \o <<Gen(x.sub[1], Flag({"left"}))>>

fork_expr(x, F) == NotLeft(F) \o <<Gen(x.sub[1], Flag({})), I("FORK")>> \o PopIfTop(F)

Template(x, F) ==
  CASE x.op = "expr_block" -> expr_block(x, F)   [] x.op = "none"   -> none_expr(F)
    [] x.op = "int"        -> int_expr(x, F)     [] x.op = "float"  -> float_expr(x, F)
    [] x.op = "string"     -> string_expr(x, F)  [] x.op = "id"     -> id_expr(x, F)
    [] x.op = "import"     -> import_expr(x, F)  [] x.op = "table"  -> table_expr(x, F)
    [] x.op = "list_expr"  -> list_expr(x, F)    [] x.op = "list_comp" -> list_comp(x, F)
    [] x.op = "list_comp_core" -> list_comp_core(x)
    [] x.op = "varg_expr"  -> varg_expr(x, F)    [] x.op = "missing" -> pa_expr(F)
    [] x.op = "call"       -> call(x, F)         [] x.op = "index"  -> index_expr(x, F)
    [] x.op \in {"slot", "slot_np"} -> slot_expr(x, F)
    [] x.op = "oop_expr"   -> oop_expr(x, F)     [] x.op = "unary"  -> unary_expr(x, F)
    [] x.op \in {"binary", "cmp"}   -> binary_expr(x, F)
    [] x.op = "cop"        -> cop_expr(x, F)     [] x.op = "logic"  -> logic_expr(x, F)
    [] x.op = "if"         -> if_expr(x, F)  [] x.op = "while"  -> while_expr(x, F)
    [] x.op = "for"        -> for_expr(x, F) [] x.op = "try"    -> try_expr(x, F)
    [] x.op = "fn"         -> fn_expr(x, F)  [] x.op = "assert" -> assert_expr(x, F)
    [] x.op = "assign"     -> assign_expr(x, F) [] x.op = "fork" -> fork_expr(x, F)
    [] x.op \in {"ret", "cont", "break", "raise", "resume", "yield"} -> intr_expr(x, F)
    [] x.op \in {"error", "null"} -> <<Error>>

(***************************************************************************)
(* The environment: the functions so far, the one instructions go to, the  *)
(* address set, the jumps that wait for their label, and the evaluation    *)
(* that is going on (id, what it found, the flags it got and returns).     *)
(***************************************************************************)
Addr0    == [cont |-> 0, brk |-> <<>>, begin |-> <<>>, end |-> <<>>, nl |-> 0]
Exec(arity, params, src) == [code |-> <<>>, arity |-> arity, params |-> params, src |-> src]
Eval(e, id) == [id |-> id, addr |-> e.addr, cur |-> e.cur, exec |-> 0, got |-> {}, out |-> {}]

Pos(e)        == Len(e.execs[e.cur].code) + 1     \* ivm_exec_cur
Emit(e, i)    == [e EXCEPT !.execs[e.cur].code = Append(@, i)]
EmitJump(e, op, label) ==
  Emit([e EXCEPT !.waiting = Append(@, [label |-> label, at |-> Pos(e)])], Instr(op, 0, ""))
PatchHere(e, label) ==    \* ivm_exec_setArgAt on each, and the list is emptied
  LET hits == {e.waiting[i].at : i \in {j \in DOMAIN e.waiting : e.waiting[j].label = label}}
      code == e.execs[e.cur].code
  IN [e EXCEPT !.waiting = SelectSeq(@, LAMBDA w : w.label # label),
               !.execs[e.cur].code =
                 [i \in DOMAIN code |-> IF i \in hits THEN [code[i] EXCEPT !.n = Pos(e) - i] ELSE code[i]]]
Label(e, l)   == <<e.fr.id, l>>
IntLoop(e)    == Emit(e, Instr("INT_LOOP", e.addr.nl, ""))
SetAddr(e, f, label) == [e EXCEPT !.addr = [@ EXCEPT ![f] = label]]

(* x->eval begins: its steps come first.  It ends: the evaluation that it  *)
(* was part of goes on, and may look at the flags it returned.             *)
Begin(e, steps, keep) ==
  [e EXCEPT !.count = @ + 1, !.outer = Append(@, e.fr), !.fr = Eval(e, e.count + 1),
            !.todo = steps \o <<<<"done", keep>>>> \o @]
End(e, outer, keep) ==
  [e EXCEPT !.outer = Front(@), !.fr = IF keep THEN [outer EXCEPT !.got = e.fr.out] ELSE outer]

Step(e, t) ==
  CASE t[1] = "emit"    -> Emit(e, Instr(t[2], t[3], t[4]))
    [] t[1] \in {"gen", "genR"} -> Begin(e, Template(t[2], t[3]), t[1] = "genR")
    [] t[1] = "done"    -> End(e, Last(e.outer), t[2])
    [] t[1] = "if"      -> [e EXCEPT !.todo = (IF t[2] \in e.fr.got THEN t[3] ELSE t[4]) \o @]
    [] t[1] = "jump"    -> EmitJump(e, t[2], Label(e, t[3]))
    [] t[1] = "jumpref" -> EmitJump(e, t[2], e.addr[t[3]])
    [] t[1] = "here"    -> PatchHere(e, Label(e, t[2]))
    [] t[1] = "setref"  -> SetAddr(e, t[2], Label(e, t[3]))
    [] t[1] = "restoreref" -> SetAddr(e, t[2], e.fr.addr[t[2]])
    [] t[1] = "restore" -> [e EXCEPT !.addr = e.fr.addr]
    [] t[1] = "nl"      -> [e EXCEPT !.addr.nl = @ + 1]
    [] t[1] = "nl0"     -> [e EXCEPT !.addr.nl = 0]
    [] t[1] = "setcont" -> [e EXCEPT !.addr.cont = Pos(e)]
    [] t[1] = "jumpback" -> Emit(e, Instr("JUMP", e.addr.cont - Pos(e), ""))
    [] t[1] = "newbreak" -> SetAddr(e, "brk", Label(e, "break"))
    [] t[1] = "breakshere" -> PatchHere(e, Label(e, "break"))
    [] t[1] = "cont"    -> IF e.addr.cont = 0 THEN [e EXCEPT !.err = TRUE]
                           ELSE Emit(IntLoop(e), Instr("JUMP", e.addr.cont - Pos(e) - 1, ""))
    [] t[1] = "break"   -> IF e.addr.brk = <<>> THEN [e EXCEPT !.err = TRUE]
                           ELSE EmitJump(IntLoop(e), "JUMP", e.addr.brk)
    [] t[1] = "newexec" -> [e EXCEPT !.execs = Append(@, Exec(t[2], t[4], t[3])), !.cur = Len(e.execs) + 1,
                                     !.fr.exec = Len(e.execs) + 1, !.addr = Addr0]
    [] t[1] = "endexec" -> [e EXCEPT !.cur = e.fr.cur, !.execs[e.fr.exec].code = optExec(@), !.addr = e.fr.addr]
    [] t[1] = "newfunc" -> Emit(e, Instr("NEW_FUNC", e.fr.exec, ""))
    [] t[1] = "return"  -> [e EXCEPT !.fr.out = @ \cup t[2]]
    [] t[1] = "error"   -> [e EXCEPT !.err = TRUE]

(* Up to 2^n steps; the first error ends them.                             *)
RECURSIVE Generate(_, _)
Generate(e, n) ==
  IF e.err \/ e.todo = <<>> THEN e
  ELSE IF n = 0 THEN Step([e EXCEPT !.todo = Tail(@)], Head(e.todo))
  ELSE Generate(Generate(e, n - 1), n - 1)

(***************************************************************************)
(* ilang_gen_generateExecUnit: the functions of the unit, the first is the *)
(* top level; <<>> if the text does not parse or has no code.              *)
(***************************************************************************)
generateExecUnit(tree) ==
  IF tree.op = "error" THEN <<>>
  ELSE LET block == Parser!Tree("expr_block", "", <<tree>>)
           env   == [execs |-> <<Exec(0, <<>>, block)>>, cur |-> 1, addr |-> Addr0, waiting |-> <<>>,
                     count |-> 0, err |-> FALSE, fr |-> <<>>, outer |-> <<>>, todo |-> <<Gen(block, Flag({}))>>]
           e     == Generate(env, 16)
       IN IF e.err THEN <<>> ELSE [e.execs EXCEPT ![1].code = optExec(@)]
=============================================================================
