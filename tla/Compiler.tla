------------------------------ MODULE Compiler ------------------------------
(***************************************************************************)
(* From a source to a unit: ivm_ilang_generateExecUnit_c, which registers  *)
(* the strings of all functions in one pool.                               *)
(***************************************************************************)
EXTENDS Serial

Ink == INSTANCE InkGen

FromInk(fns) ==
  LET strings == SetToSeq(UNION {{fns[x].code[i].s : i \in {j \in DOMAIN fns[x].code : fns[x].code[j].op \in StringOps}}
                                 : x \in DOMAIN fns})
      Arg(c) == CASE c.op \in StringOps  -> IndexIn(strings, c.s)
                  [] c.op = "NEW_FUNC"   -> c.n - 1
                  [] c.op \notin StringOps /\ c.op # "NEW_FUNC" -> IF c.s = "" THEN c.n ELSE c.s
      Instrs(code) == [i \in DOMAIN code |-> [op |-> code[i].op, arg |-> Arg(code[i])]]
  IN IF fns = <<>> THEN NoUnit
     ELSE Unit(0, <<strings>>,
               [x \in DOMAIN fns |-> AddInstrs(NewExec(1, fns[x].arity, fns[x].params), Instrs(fns[x].code))])
Compile(text) == FromInk(Ink!generateExecUnit(Ink!Parser!parseSource(text)))
=============================================================================
