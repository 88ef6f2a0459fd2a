----------------------------- MODULE InkParser -----------------------------
(***************************************************************************)
(* The grammar of ink, front/ink/parser.c: one definition for each RULE,   *)
(* with its alternatives in their order and the tree each one builds.      *)
(* TOKEN_AT and RULE_RET_AT count as in the source, newlines included.     *)
(* Lists are in the order of the text (the source keeps them reversed).    *)
(* Positions in the source text are left out.                              *)
(***************************************************************************)
EXTENDS Peg, InkLexer

NL == R("nllo")

Empty     == Alt(<<>>, Const(Null))
EmptyList == Alt(<<>>, Const(List(<<>>)))
None      == Tree("none", "", <<>>)

(* Separators.                                                             *)
sep              == << Alt(<<T("NEWL")>>, Const(Null)), Alt(<<T("SEMIC")>>, Const(Null)) >>
sep_list         == << Alt(<<R_LIST("sep")>>, Const(Null)) >>
sep_list_opt     == << Alt(<<R_LIST("sep")>>, Const(Null)), Empty >>
newl_list_single == << Alt(<<T("NEWL")>>, Const(Null)) >>
nllo             == << Alt(<<R_LIST("newl_list_single")>>, Const(Null)), Empty >>

(* Tables.                                                                 *)
slot == <<
  Alt(<<T("ID"), NL, T("COLON"), NL, R("prefix_expr")>>, BuildV("entry", 0, <<Ret(2)>>)),
  Alt(<<T("COP"), NL, T("COLON"), NL, R("prefix_expr")>>, BuildV("entry_np", 0, <<Ret(2)>>)),
  Alt(<<R("oop"), NL, T("COLON"), NL, R("prefix_expr")>>, Build("entry_oop", <<Ret(0), Ret(3)>>)),
  Alt(<<T("DOT"), NL, T("ID"), NL, T("COLON"), NL, R("prefix_expr")>>,
      BuildV("entry", 1, <<Ret(3)>>)),
  Alt(<<T("DOT"), NL, T("COP"), NL, T("COLON"), NL, R("prefix_expr")>>,
      BuildV("entry_np", 1, <<Ret(3)>>)),
  Alt(<<T("DOT"), NL, R("oop"), NL, T("COLON"), NL, R("prefix_expr")>>,
      Build("entry_oop", <<Ret(1), Ret(4)>>)),
  Alt(<<T("LBRAKT"), NL, R("arg_list_opt"), NL, T("RBRAKT"), NL, T("COLON"), NL, R("prefix_expr")>>,
      Build("entry_index", <<Ret(1), Ret(5)>>)) >>

slot_list_single == << Alt(<<T("COMMA"), NL, R("slot"), NL>>, Ret(1)) >>
slot_list_sub    == << Alt(<<R_LIST("slot_list_single")>>, Ret(0)), EmptyList >>
slot_list_opt    == << Alt(<<R("slot"), R("slot_list_sub")>>, Cons(Ret(0), Ret(1))), EmptyList >>

(* Module names.                                                           *)
mod_name_single == << Alt(<<T("DOT"), NL, T("ID")>>, BuildV("name", 1, <<>>)) >>
mod_name_sub    == << Alt(<<R_LIST("mod_name_single")>>, Ret(0)), EmptyList >>
mod_name        == << Alt(<<T("ID"), R("mod_name_sub")>>, Cons(BuildV("name", 0, <<>>), Ret(0))) >>

(* List comprehensions: each clause is the body of the one before.         *)
for_postfix == <<
  Alt(<<T("FOR"), NL, R("leftval"), NL, T("IN"), NL, R("logic_or_expr")>>,
      Build("for", <<Ret(1), Ret(4), Const(Null)>>)) >>
for_if_postfix == <<
  Alt(<<R("for_postfix")>>, Ret(0)),
  Alt(<<T("IF"), NL, R("logic_or_expr")>>,
      Build("if", <<Ret(1), Const(List(<<>>)), Const(Null), Const(Null)>>)) >>
list_comp_postfix_sub == <<
  Alt(<<NL, R("for_if_postfix"), R("list_comp_postfix_sub")>>, SetBody(Ret(1), Ret(2))),
  Empty >>
list_comp_postfix == <<
  Alt(<<NL, R("for_postfix"), R("list_comp_postfix_sub")>>, SetBody(Ret(1), Ret(2))) >>
list_comp == << Alt(<<R("logic_or_expr"), R("list_comp_postfix")>>, Comp(Ret(0), Ret(1))) >>

primary_expr == <<
  Alt(<<T("STR")>>, BuildV("string", 0, <<>>)),
  Alt(<<T("INT")>>, BuildV("int", 0, <<>>)),
  Alt(<<T("FLOAT")>>, BuildV("float", 0, <<>>)),
  Alt(<<T("ID")>>, BuildV("id", 0, <<>>)),
  Alt(<<T("MISSING")>>, Build("missing", <<>>)),
  Alt(<<T("IMPORT"), NL, R("mod_name")>>, Build("import", <<Ret(1)>>)),
  Alt(<<T("LPAREN"), NL, R("expr"), NL, T("RPAREN")>>, Ret(1)),
  Alt(<<T("LBRAC"), R("expr_list"), T("RBRAC")>>, Build("expr_block", <<Ret(0)>>)),
  Alt(<<T("LBRAC"), NL, R("slot_list_opt"), NL, T("RBRAC")>>, Build("table", <<Ret(1)>>)),
  Alt(<<T("LBRAKT"), NL, R("arg_list_opt"), NL, T("RBRAKT")>>, Build("list_expr", <<Ret(1)>>)),
  Alt(<<T("LBRAKT"), NL, R("list_comp"), NL, T("RBRAKT")>>, Ret(1)) >>

(* Arguments: an omitted one is none.                                      *)
arg == << Alt(<<R("prefix_expr")>>, Ret(0)) >>
arg_list_single == <<
  Alt(<<NL, T("COMMA"), NL, R("arg")>>, Ret(2)), Alt(<<NL, T("COMMA"), NL>>, Const(None)) >>
arg_list_sub == << Alt(<<R_LIST("arg_list_single")>>, Ret(0)), EmptyList >>
arg_list_opt == <<    \* the second alternative puts none before a list that is not empty
  Alt(<<R("arg"), R("arg_list_sub")>>, Cons(Ret(0), Ret(1))),
  Alt(<<R_LIST("arg_list_single")>>, Cons(Const(None), Ret(0))),
  EmptyList >>

(* Operators as slot names.                                                *)
OopToken == <<"NOT", "ADDAT", "SUBAT", "BNOT", "ADD", "SUB", "MUL", "DIV", "MOD", "BAND", "BIOR",
  "BEOR", "CNE", "CEQ", "CLT", "CLE", "CGT", "CGE", "SHL", "SHAR", "SHLR", "INADD", "INSUB",
  "INMUL", "INDIV", "INMOD", "INBAND", "INBIOR", "INBEOR", "INSHL", "INSHAR", "INSHLR">>
oop == [i \in DOMAIN OopToken |-> Alt(<<T(OopToken[i])>>, BuildV("oop", 0, <<>>))] \o <<
  Alt(<<T("LBRAKT"), NL, T("RBRAKT")>>, Const(Tree("oop", "[]", <<>>))),
  Alt(<<T("LBRAKT"), NL, T("ASSIGN"), NL, T("RBRAKT")>>, Const(Tree("oop", "[=]", <<>>))),
  Alt(<<T("LPAREN"), NL, T("RPAREN")>>, Const(Tree("oop", "()", <<>>))) >>

(* Blocks are functions.                                                   *)
block_param     == << Alt(<<R("param_list"), NL, T("ARROW")>>, Ret(0)) >>
block_param_opt == << Alt(<<R("block_param")>>, Ret(0)), EmptyList >>
block == <<
  Alt(<<T("LBRAC"), NL, R("block_param_opt"), NL, R("expr_list_opt"), NL, T("RBRAC")>>,
      Build("fn", <<Ret(1), Build("expr_block", <<Ret(3)>>)>>)) >>
block_opt == << Alt(<<R("block")>>, Ret(0)), Empty >>

(* Calls, indices and slots, as a chain that is open at its first operand. *)
Null1 == Const(Null)
postfix_expr_sub == <<
  Alt(<<T("LPAREN"), NL, R("arg_list_opt"), NL, T("RPAREN"), R("block_opt"), R("postfix_expr_sub")>>,
      Plug(Ret(4), Build("call", <<Null1, Snoc(Ret(1), Ret(3))>>))),
  Alt(<<R("block"), R("postfix_expr_sub")>>,
      Plug(Ret(1), Build("call", <<Null1, Build("list", <<Ret(0)>>)>>))),
  Alt(<<T("LBRAKT"), NL, R("arg_list_opt"), NL, T("RBRAKT"), R("postfix_expr_sub")>>,
      Plug(Ret(3), Build("index", <<Null1, Ret(1)>>))),
  Alt(<<NL, T("DOT"), NL, T("ID"), R("postfix_expr_sub")>>,
      Plug(Ret(2), BuildV("slot", 1, <<Null1>>))),
  Alt(<<NL, T("DOT"), NL, T("COP"), R("postfix_expr_sub")>>,
      Plug(Ret(2), BuildV("slot_np", 1, <<Null1>>))),
  Alt(<<NL, T("DOT"), NL, R("oop"), R("postfix_expr_sub")>>,
      Plug(Ret(3), Build("oop_expr", <<Null1, Ret(2)>>))),
  Alt(<<T("ID"), R("postfix_expr_sub")>>, Plug(Ret(0), BuildV("slot", 0, <<Null1>>))),
  Empty >>
postfix_expr == << Alt(<<R("primary_expr"), R("postfix_expr_sub")>>, Plug(Ret(1), Ret(0))) >>

(* Operators, by precedence.  An operator in the source with several signs *)
(* is one alternative for each; custom operators have an order.            *)
Unary(tok) == Alt(<<T(tok), NL, R("unary_expr")>>, BuildV("unary", 0, <<Ret(1)>>))
unary_expr == <<
  Unary("NOT"), Unary("SUB"), Unary("ADD"), Unary("BNOT"), Unary("DEL"), Unary("REF"), Unary("DEREF"),
  Alt(<<T("MUL"), NL, R("unary_expr")>>, Build("varg_expr", <<Ret(1)>>)),
  Alt(<<T("COP"), NL, R("unary_expr")>>, BuildV("cop", 0, <<Ret(1), Null1>>)),
  Alt(<<R("postfix_expr")>>, Ret(0)) >>

SUB1(op, sym, next, self) ==
  Alt(<<sym, NL, R(next), R(self)>>, Plug(Ret(2), BuildV(op, 0, <<Null1, Ret(1)>>)))
SUB2(first, rest) == << Alt(<<R(first), R(rest)>>, Plug(Ret(1), Ret(0))) >>
Chain(op, toks, order, next, self) ==
  [i \in DOMAIN toks |-> SUB1(op, T(toks[i]), next, self)]
  \o (IF order = 0 THEN <<>> ELSE <<SUB1("cop", T_ORD("COP", order), next, self)>>)
  \o <<Empty>>

mul_div_expr_sub   == Chain("binary", <<"MUL", "DIV", "MOD">>, 1, "unary_expr", "mul_div_expr_sub")
mul_div_expr       == SUB2("unary_expr", "mul_div_expr_sub")
add_sub_expr_sub   == Chain("binary", <<"ADD", "SUB">>, 2, "mul_div_expr", "add_sub_expr_sub")
add_sub_expr       == SUB2("mul_div_expr", "add_sub_expr_sub")
shift_expr_sub     == Chain("binary", <<"SHL", "SHAR", "SHLR">>, 0, "add_sub_expr", "shift_expr_sub")
shift_expr         == SUB2("add_sub_expr", "shift_expr_sub")
cmp_expr_sub       == Chain("cmp", <<"CGT", "CGE", "CLT", "CLE">>, 3, "shift_expr", "cmp_expr_sub")
cmp_expr           == SUB2("shift_expr", "cmp_expr_sub")
eq_expr_sub        == Chain("cmp", <<"CEQ", "CNE", "IS">>, 0, "cmp_expr", "eq_expr_sub")
eq_expr            == SUB2("cmp_expr", "eq_expr_sub")
and_expr_sub       == Chain("binary", <<"BAND">>, 4, "eq_expr", "and_expr_sub")
and_expr           == SUB2("eq_expr", "and_expr_sub")
eor_expr_sub       == Chain("binary", <<"BEOR">>, 5, "and_expr", "eor_expr_sub")
eor_expr           == SUB2("and_expr", "eor_expr_sub")
ior_expr_sub       == Chain("binary", <<"BIOR">>, 6, "eor_expr", "ior_expr_sub")
ior_expr           == SUB2("eor_expr", "ior_expr_sub")
logic_and_expr_sub == Chain("logic", <<"CAND">>, 0, "ior_expr", "logic_and_expr_sub")
logic_and_expr     == SUB2("ior_expr", "logic_and_expr_sub")
logic_or_expr_sub  == Chain("logic", <<"COR">>, 0, "logic_and_expr", "logic_or_expr_sub")
logic_or_expr      == SUB2("logic_and_expr", "logic_or_expr_sub")

(* Functions.                                                              *)
param == <<
  Alt(<<T("MUL"), T("ID")>>, BuildV("varg", 1, <<Null1>>)),
  Alt(<<T("MUL")>>, Build("varg", <<Null1>>)),
  Alt(<<T("ID"), T("ASSIGN"), NL, R("logic_or_expr")>>, BuildV("param", 0, <<Ret(1)>>)),
  Alt(<<T("ID")>>, BuildV("param", 0, <<Null1>>)) >>
param_list_sub == <<
  Alt(<<T("COMMA"), NL, R("param"), R("param_list_sub")>>, Cons(Ret(1), Ret(2))), EmptyList >>
param_list_opt == << Alt(<<R("param"), R("param_list_sub")>>, Cons(Ret(0), Ret(1))), EmptyList >>
param_list     == << Alt(<<R("param"), R("param_list_sub")>>, Cons(Ret(0), Ret(1))) >>
fn_expr == <<
  Alt(<<T("FN"), NL, R("param_list"), NL, T("COLON"), NL, R("prefix_expr")>>,
      Build("fn", <<Ret(1), Ret(4)>>)),
  Alt(<<T("FN"), NL, T_OPT("COLON"), NL, R("prefix_expr")>>,
      Build("fn", <<Const(List(<<>>)), Ret(2)>>)) >>

(* Statements that leave what they are in.                                 *)
Intr(tok, how) == <<
  Alt(<<T(tok), R("prefix_expr")>>, Build(how, <<Ret(0), Null1>>)),
  Alt(<<T(tok)>>, Build(how, <<Null1, Null1>>)) >>
ret_expr   == Intr("RET", "ret")
cont_expr  == Intr("CONT", "cont")
break_expr == Intr("BREAK", "break")
raise_expr == << Alt(<<T("RAISE"), R("prefix_expr")>>, Build("raise", <<Ret(0), Null1>>)) >>
yield_expr == <<
  Alt(<<T("RESUME"), R("expr"), T("COLON"), R("prefix_expr")>>, Build("resume", <<Ret(0), Ret(1)>>)),
  Alt(<<T("RESUME"), R("prefix_expr")>>, Build("resume", <<Ret(0), Null1>>)) >> \o Intr("YIELD", "yield")
intr_expr == [i \in 1 .. 5 |->
  Alt(<<R(<<"ret_expr", "cont_expr", "break_expr", "raise_expr", "yield_expr">>[i])>>, Ret(0))]

(* Assignments: an in-place operator is the text of the token.             *)
leftval == << Alt(<<R("logic_or_expr")>>, Ret(0)) >>
InplaceToken == <<"INADD", "INSUB", "INMUL", "INDIV", "INMOD", "INBAND", "INBIOR", "INBEOR",
                  "INSHL", "INSHAR", "INSHLR">>
Assign(sym, op) == Alt(<<sym, NL, R("prefix_expr")>>, BuildV(op, 0, <<Null1, Ret(1)>>))
assign_right_side ==
  <<Assign(T("ASSIGN"), "assign")>> \o [i \in DOMAIN InplaceToken |-> Assign(T(InplaceToken[i]), "assign")]
  \o <<Assign(T_ORD("COP", 7), "cop")>>
assign_expr == << Alt(<<R("leftval"), R("assign_right_side")>>, Plug(Ret(1), Ret(0))) >>

(* Branches.                                                               *)
elif_branch == <<
  Alt(<<NL, T("ELIF"), NL, R("expr"), NL, T("COLON"), NL, R("prefix_expr")>>,
      Build("branch", <<Ret(2), Ret(5)>>)) >>
elif_list_opt == << Alt(<<R("elif_branch"), R("elif_list_opt")>>, Cons(Ret(0), Ret(1))), EmptyList >>
else_branch_opt == <<
  Alt(<<NL, T("ELSE"), NL, T_OPT("COLON"), NL, R("prefix_expr")>>, Ret(3)), Empty >>
if_expr == <<
  Alt(<<T("IF"), NL, R("expr"), NL, T("COLON"), NL, R("prefix_expr"), R("elif_list_opt"),
        R("else_branch_opt")>>,
      Build("if", <<Ret(1), Ret(5), Ret(6), Ret(4)>>)) >>

(* Loops.                                                                  *)
while_expr == <<
  Alt(<<T("WHILE"), NL, R("expr"), NL, T("COLON"), NL, R("prefix_expr")>>,
      Build("while", <<Ret(1), Ret(4)>>)) >>
for_expr == <<
  Alt(<<T("FOR"), NL, R("leftval"), NL, T("IN"), NL, R("expr"), NL, T("COLON"), NL, R("prefix_expr")>>,
      Build("for", <<Ret(1), Ret(4), Ret(7)>>)) >>

(* Exceptions: body, catch argument, catch body, final body.               *)
final_branch_opt == <<
  Alt(<<NL, T("FINAL"), NL, T_OPT("COLON"), NL, R("prefix_expr")>>, Ret(3)), Empty >>
catch_branch_opt == <<
  Alt(<<NL, T("CATCH"), NL, R("leftval"), NL, T("COLON"), NL, R("prefix_expr")>>,
      Build("catch", <<Ret(2), Ret(5)>>)),
  Alt(<<NL, T("CATCH"), NL, T_OPT("COLON"), NL, R("prefix_expr")>>, Build("catch", <<Null1, Ret(3)>>)),
  Alt(<<>>, Build("catch", <<Null1, Null1>>)) >>
try_expr == <<
  Alt(<<T("TRY"), NL, T_OPT("COLON"), NL, R("prefix_expr"), R("catch_branch_opt"),
        R("final_branch_opt")>>,
      Build("try", <<Ret(2), Ret(3), Ret(4)>>)) >>

(* fork: expr forks a function without parameters.                         *)
fork_expr == <<
  Alt(<<T("FORK"), NL, T("COLON"), NL, R("prefix_expr")>>,
      Build("fork", <<Build("fn", <<Const(List(<<>>)), Ret(2)>>)>>)),
  Alt(<<T("FORK"), NL, R("prefix_expr")>>, Build("fork", <<Ret(1)>>)) >>
assert_expr == << Alt(<<T("ASSERT"), NL, R("prefix_expr")>>, Build("assert", <<Ret(1)>>)) >>

prefix_expr ==
  [i \in 1 .. 9 |-> Alt(<<R(<<"assign_expr", "intr_expr", "fn_expr", "try_expr", "if_expr",
     "while_expr", "for_expr", "fork_expr", "assert_expr">>[i])>>, Ret(0))]
  \o << Alt(<<R("logic_or_expr"), T_OPTM("QM"), NL, R("prefix_expr"), NL, T("COLON"), NL,
              R("prefix_expr")>>,
            Build("if", <<Ret(0), Null1, Ret(5), Ret(2)>>)) >>

(* Sequences.                                                              *)
comma_expr_single == << Alt(<<T("COMMA"), NL, R("prefix_expr")>>, Ret(1)) >>
comma_expr_sub    == << Alt(<<R_LIST("comma_expr_single")>>, Ret(0)), Empty >>
comma_expr == << Alt(<<R("prefix_expr"), R("comma_expr_sub")>>, Comma(Ret(0), Ret(1))) >>
expr == << Alt(<<R("comma_expr")>>, Ret(0)) >>
expr_list_single == << Alt(<<R("sep_list"), R("expr")>>, Ret(1)), Alt(<<R("sep_list")>>, Const(Null)) >>
expr_list_sub == << Alt(<<R_LIST("expr_list_single")>>, NoNull(Ret(0))), EmptyList >>
expr_list == <<
  Alt(<<R("sep_list_opt"), R("expr"), R("expr_list_sub")>>, Cons(Ret(1), Ret(2))) >>
expr_list_opt == expr_list \o << Alt(<<R("sep_list_opt")>>, Const(List(<<>>))) >>
eof_opt    == << Alt(<<T("EOF")>>, Const(Null)), Empty >>
trans_unit == << Alt(<<R("expr_list_opt"), R("eof_opt")>>, Ret(0)) >>
expr_unit  == << Alt(<<NL, R("expr"), NL, R("eof_opt")>>, Ret(1)) >>

InkGrammar == [
  sep |-> sep, sep_list |-> sep_list, sep_list_opt |-> sep_list_opt, newl_list_single |-> newl_list_single,
  nllo |-> nllo, slot |-> slot, slot_list_single |-> slot_list_single, slot_list_sub |-> slot_list_sub,
  slot_list_opt |-> slot_list_opt, mod_name_single |-> mod_name_single, mod_name_sub |-> mod_name_sub, mod_name |-> mod_name,
  for_postfix |-> for_postfix, for_if_postfix |-> for_if_postfix, list_comp_postfix_sub |-> list_comp_postfix_sub, list_comp_postfix |-> list_comp_postfix,
  list_comp |-> list_comp, primary_expr |-> primary_expr, arg |-> arg, arg_list_single |-> arg_list_single,
  arg_list_sub |-> arg_list_sub, arg_list_opt |-> arg_list_opt, oop |-> oop, block_param |-> block_param,
  block_param_opt |-> block_param_opt, block |-> block, block_opt |-> block_opt, postfix_expr_sub |-> postfix_expr_sub,
  postfix_expr |-> postfix_expr, unary_expr |-> unary_expr, mul_div_expr_sub |-> mul_div_expr_sub, mul_div_expr |-> mul_div_expr,
  add_sub_expr_sub |-> add_sub_expr_sub, add_sub_expr |-> add_sub_expr, shift_expr_sub |-> shift_expr_sub, shift_expr |-> shift_expr,
  cmp_expr_sub |-> cmp_expr_sub, cmp_expr |-> cmp_expr, eq_expr_sub |-> eq_expr_sub, eq_expr |-> eq_expr,
  and_expr_sub |-> and_expr_sub, and_expr |-> and_expr, eor_expr_sub |-> eor_expr_sub, eor_expr |-> eor_expr,
  ior_expr_sub |-> ior_expr_sub, ior_expr |-> ior_expr, logic_and_expr_sub |-> logic_and_expr_sub, logic_and_expr |-> logic_and_expr,
  logic_or_expr_sub |-> logic_or_expr_sub, logic_or_expr |-> logic_or_expr, param |-> param, param_list_sub |-> param_list_sub,
  param_list_opt |-> param_list_opt, param_list |-> param_list, fn_expr |-> fn_expr, ret_expr |-> ret_expr,
  cont_expr |-> cont_expr, break_expr |-> break_expr, raise_expr |-> raise_expr, yield_expr |-> yield_expr,
  intr_expr |-> intr_expr, leftval |-> leftval, assign_right_side |-> assign_right_side, assign_expr |-> assign_expr,
  elif_branch |-> elif_branch, elif_list_opt |-> elif_list_opt, else_branch_opt |-> else_branch_opt, if_expr |-> if_expr,
  while_expr |-> while_expr, for_expr |-> for_expr, final_branch_opt |-> final_branch_opt, catch_branch_opt |-> catch_branch_opt,
  try_expr |-> try_expr, fork_expr |-> fork_expr, assert_expr |-> assert_expr, prefix_expr |-> prefix_expr,
  comma_expr_single |-> comma_expr_single, comma_expr_sub |-> comma_expr_sub, comma_expr |-> comma_expr, expr |-> expr,
  expr_list_single |-> expr_list_single, expr_list_sub |-> expr_list_sub, expr_list |-> expr_list, expr_list_opt |-> expr_list_opt,
  eof_opt |-> eof_opt, trans_unit |-> trans_unit, expr_unit |-> expr_unit]

(* ilang_parser_parseSource and parseExpr.                                 *)
MaxRecursion == 1024    \* IVM_NATIVE_MAX_RECUR_COUNT, pub/const.h:18
parseSource(src) == Parse(InkGrammar, "trans_unit", getTokens(src), MaxRecursion)
parseExpr(src)   == Parse(InkGrammar, "expr_unit", getTokens(src), MaxRecursion)
=============================================================================
