------------------------------ MODULE InkLexer ------------------------------
(***************************************************************************)
(* The tokens of ink, front/ink/parser.c: the transition table, and the    *)
(* pass that tells keywords and operators from names.                      *)
(***************************************************************************)
EXTENDS Tokenizer

IdChars   == Letters \cup Digits \cup {"_", "$"}
CopChars  == Chars("+-*%&|^><!~@?=")
Bslash    == {"\\"}
Backquote == {"'"}     \* TLA+ strings have no backquote; ink has no use for this one

InkTable == [
  INIT |-> <<
    To(IdChars \ Digits, "IN_ID"), To(Digits, "IN_NUM_INT"), To({"."}, "TRY_DOT"),
    Save({","}, "INIT", "COMMA"), Save({";"}, "INIT", "SEMIC"), Save({":"}, "INIT", "COLON"),
    Save({"{"}, "INIT", "LBRAC"), Save({"}"}, "INIT", "RBRAC"), Save({"("}, "INIT", "LPAREN"),
    Save({")"}, "INIT", "RPAREN"), Save({"["}, "INIT", "LBRAKT"), Save({"]"}, "INIT", "RBRAKT"),
    To(Bslash, "TRY_CONTCH"), To(CopChars, "TRY_COP"),
    Save({"\n"}, "INIT", "NEWL"), To({"\r"}, "TRY_NEWL"),
    Ign({"\""}, "IN_STR"), Ign(Backquote, "IN_STR_ID"), Ign({" ", "\t"}, "INIT"),
    To({"/"}, "TRY_COMMENT12"), Save({EOS}, "INIT", "EOF") >>,
  UNEXP       |-> << Ign(AnyChar, "INIT") >>,
  TRY_NEWL    |-> << Entry({"\n"}, "INIT", "NEWL", {"ext", "exc"}), Save(AnyChar, "INIT", "NEWL") >>,
  TRY_CONTCH  |-> << Ign({"\n"}, "INIT"), To({"\r"}, "TRY_CONTCH2"),
                     To(CopChars \cup Bslash, "TRY_COP"), Save(AnyChar, "INIT", "COP") >>,
  TRY_CONTCH2 |-> << Ign({"\n"}, "INIT"), Entry(AnyChar, "INIT", "", {"exc", "ign"}) >>,
  TRY_DOT     |-> << To(Digits, "IN_NUM_FLOAT"), To({"."}, "TRY_ELLIP"), Save(AnyChar, "INIT", "DOT") >>,
  TRY_ELLIP   |-> << Entry({"."}, "INIT", "ELLIP", {"ext", "exc"}) >>,
  TRY_COMMENT12 |-> << To({"*"}, "IN_COMMENT1"), To({"/"}, "IN_COMMENT2"),
                       Entry({"="}, "INIT", "INDIV", {"ext", "exc"}), Save(AnyChar, "INIT", "DIV") >>,
  TRY_COP      |-> << To(CopChars \cup Bslash, "TRY_COP"), Save(AnyChar, "INIT", "COP") >>,
  IN_COMMENT1  |-> << To({"*"}, "OUT_COMMENT1"), To(AnyChar, "IN_COMMENT1") >>,
  OUT_COMMENT1 |-> << Ign({"/"}, "INIT"), To(AnyChar, "IN_COMMENT1") >>,
  IN_COMMENT2  |-> << Save({"\n"}, "INIT", "NEWL"), To({"\r"}, "TRY_NEWL"), To(AnyChar, "IN_COMMENT2") >>,
  IN_ID        |-> << To(IdChars, "IN_ID"), Save(AnyChar, "INIT", "ID") >>,
  IN_STR_ID    |-> << Entry(Backquote, "INIT", "STR_ID", {"exc"}), To(Bslash, "IN_STR_ID_ESC"),
                      To(AnyChar, "IN_STR_ID") >>,
  IN_STR_ID_ESC |-> << To(AnyChar, "IN_STR_ID") >>,
  IN_STR        |-> << Entry({"\""}, "INIT", "STR", {"exc"}), To(Bslash, "IN_STR_ESC"),
                       Entry({"\n", "\r"}, "INIT", "", {"msg"}), To(AnyChar, "IN_STR") >>,
  IN_STR_ESC    |-> << To({"\r"}, "IN_STR_ESC_NL"), To(AnyChar, "IN_STR") >>,
  IN_STR_ESC_NL |-> << To({"\n"}, "IN_STR"), Entry(AnyChar, "IN_STR", "", {"exc"}) >>,
  IN_NUM_INT    |-> << To(Digits, "IN_NUM_INT"), To({"x", "X"}, "IN_NUM_HEX"),
                       To({"o", "O"}, "IN_NUM_OCT"), To({"b", "B"}, "IN_NUM_BIN"),
                       To({"."}, "IN_NUM_FLOAT"), Save(AnyChar, "INIT", "INT") >>,
  IN_NUM_FLOAT  |-> << To(Digits, "IN_NUM_FLOAT"), Save(AnyChar, "INIT", "FLOAT") >>,
  IN_NUM_HEX    |-> << To(Digits \cup Chars("abcdefABCDEF"), "IN_NUM_HEX"), Save(AnyChar, "INIT", "INT") >>,
  IN_NUM_OCT    |-> << To(Chars("01234567"), "IN_NUM_OCT"), Entry(Chars("89"), "INIT", "", {"msg"}),
                       Save(AnyChar, "INIT", "INT") >>,
  IN_NUM_BIN    |-> << To(Chars("01"), "IN_NUM_BIN"), Entry(Chars("23456789"), "INIT", "", {"msg"}),
                       Save(AnyChar, "INIT", "INT") >> ]

(* Names that are keywords, and operators that are not custom ones.        *)
Keywords == <<
  <<"_", "MISSING">>, <<"fn", "FN">>, <<"if", "IF">>, <<"elif", "ELIF">>, <<"else", "ELSE">>,
  <<"while", "WHILE">>, <<"for", "FOR">>, <<"in", "IN">>, <<"try", "TRY">>, <<"catch", "CATCH">>,
  <<"final", "FINAL">>, <<"ret", "RET">>, <<"cont", "CONT">>, <<"break", "BREAK">>,
  <<"raise", "RAISE">>, <<"yield", "YIELD">>, <<"resume", "RESUME">>, <<"fork", "FORK">>,
  <<"del", "DEL">>, <<"ref", "REF">>, <<"deref", "DEREF">>, <<"is", "IS">>, <<"import", "IMPORT">>,
  <<"assert", "ASSERT">> >>

Ops == <<
  <<"+", "ADD">>, <<"-", "SUB">>, <<"*", "MUL">>, <<"%", "MOD">>, <<"&", "BAND">>, <<"|", "BIOR">>,
  <<"^", "BEOR">>, <<"~", "BNOT">>, <<">", "CGT">>, <<"<", "CLT">>, <<"!", "NOT">>, <<"<<", "SHL">>,
  <<">>", "SHAR">>, <<">>>", "SHLR">>, <<"->", "ARROW">>, <<"+=", "INADD">>, <<"-=", "INSUB">>,
  <<"*=", "INMUL">>, <<"%=", "INMOD">>, <<"&=", "INBAND">>, <<"|=", "INBIOR">>, <<"^=", "INBEOR">>,
  <<"<<=", "INSHL">>, <<">>=", "INSHAR">>, <<">>>=", "INSHLR">>, <<">=", "CGE">>, <<"<=", "CLE">>,
  <<"!=", "CNE">>, <<"&&", "CAND">>, <<"||", "COR">>, <<"?", "QM">>, <<"==", "CEQ">>,
  <<"=", "ASSIGN">>, <<"+@", "ADDAT">>, <<"-@", "SUBAT">> >>

(* The precedence of a custom operator, by its first character; the source *)
(* has no order for one that begins with @.                                *)
CopOrder(op) ==
  LET first == <<Chars("!~*%") \cup Bslash, Chars("+-"), Chars("<>"), {"&"}, {"^"}, {"|"}, Chars("=?")>>
  IN  CHOOSE k \in 1 .. 7 : Ch(op, 1) \in first[k]

(* A table of names: what it gives for `val`, or `default`.                *)
Lookup(table, val, default) ==
  LET k == {i \in DOMAIN table : table[i][1] = val} IN
  IF k = {} THEN default ELSE table[CHOOSE i \in k : TRUE][2]

Named(t) ==
  CASE t.id = "ID"     -> [t EXCEPT !.id = Lookup(Keywords, t.val, "ID")]
    [] t.id = "STR_ID" -> [t EXCEPT !.id = "ID"]
    [] t.id = "COP"    -> LET id == Lookup(Ops, t.val, "COP") IN
                          [t EXCEPT !.id = id, !.order = IF id = "COP" THEN CopOrder(t.val) ELSE 0]
    [] OTHER           -> t

getTokens(text) == LET ts == Tokenize(InkTable, text) IN [i \in DOMAIN ts |-> Named(ts[i])]
=============================================================================
