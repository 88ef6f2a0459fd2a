----------------------------- MODULE Optimizer -----------------------------
(***************************************************************************)
(* The peephole optimiser, util/opt.c, which every function goes through   *)
(* after its code is generated.  An instruction is an operation, a number  *)
(* and a text, of which the operation uses at most one; the number of a    *)
(* jump is relative to the jump.  Addresses count from 1 here.             *)
(***************************************************************************)
EXTENDS Integers, Sequences, FiniteSets

Instr(op, n, s) == [op |-> op, n |-> n, s |-> s]

(* The operations with an address for an argument (isJump).                *)
Jumps == {"JUMP", "JUMP_TRUE", "JUMP_FALSE", "JUMP_TRUE_N", "JUMP_FALSE_N", "CHECK",
          "CHECK_NONE", "ITER_NEXT", "RPROT_SET"}

(***************************************************************************)
(* The list the passes work on: an instruction, the address it jumps to    *)
(* (0: none) and the jumps recorded as its references, 0 for a removed one *)
(***************************************************************************)
convertFromExec(code) ==
  LET outRef == \E i \in DOMAIN code : code[i].op \in Jumps /\ code[i].n + i > Len(code)
      noRet  == code = <<>> \/ code[Len(code)].op # "RETURN"
      all    == IF outRef \/ noRet THEN Append(code, Instr("RETURN", 0, "")) ELSE code
      to(i)  == IF all[i].op \in Jumps THEN i + all[i].n ELSE 0
  IN [i \in DOMAIN all |->
        [op |-> all[i].op, n |-> all[i].n, s |-> all[i].s, jmpto |-> to(i),
         refs |-> SelectSeq([j \in DOMAIN all |-> j], LAMBDA j : to(j) = i)]]

SameCondJump(a, b) ==
  b.op = "JUMP" \/ (a.op = b.op /\ a.op \in {"JUMP_TRUE_N", "JUMP_FALSE_N"})
OppositeCondJump(a, b) ==
  <<a.op, b.op>> \in {<<"JUMP_TRUE_N", "JUMP_FALSE_N">>, <<"JUMP_FALSE_N", "JUMP_TRUE_N">>}

(* Where the chain of jumps from `t` ends for the jump `cur`.              *)
RECURSIVE Chase(_, _, _)
Chase(il, cur, t) ==
  IF il[t].jmpto # 0 /\ SameCondJump(il[cur], il[t]) /\ t # cur
  THEN Chase(il, cur, il[t].jmpto) ELSE t

RemoveRef(refs, cur) == [i \in DOMAIN refs |-> IF refs[i] = cur THEN 0 ELSE refs[i]]

(* A jump goes where the jump it leads to goes; the reference moves away   *)
(* from the old target and is not recorded at the new one.                 *)
Retarget(il, cur) ==
  LET old == il[cur].jmpto
      end == Chase(il, cur, old)
      new == IF OppositeCondJump(il[cur], il[end]) THEN end + 1 ELSE end
      il2 == IF end = old THEN il ELSE [il EXCEPT ![old].refs = RemoveRef(@, cur)]
  IN  IF old = 0 THEN il ELSE [il2 EXCEPT ![cur].jmpto = new]

(* jump_false over a jump is a jump_true.                                  *)
Inverted(op) == IF op = "JUMP_FALSE" THEN "JUMP_TRUE" ELSE "JUMP_FALSE"
Invert(il, cur) ==
  IF /\ il[cur].op \in {"JUMP_FALSE", "JUMP_TRUE"}
     /\ il[cur].jmpto = cur + 2 /\ il[cur + 1].op = "JUMP"
  THEN [il EXCEPT ![cur].jmpto = il[cur + 1].jmpto, ![cur].op = Inverted(@), ![cur + 1].op = "NOP"]
  ELSE il

(* A jump to the next instruction, or after another jump, is dropped.      *)
DropJump(s, cur) ==
  CASE s.il[cur].op # "JUMP"                  -> [s EXCEPT !.suc = FALSE]
    [] s.suc \/ s.il[cur].jmpto = cur + 1      -> [s EXCEPT !.il[cur].op = "NOP"]
    [] OTHER                                  -> [s EXCEPT !.suc = TRUE]

RECURSIVE Reduced(_, _)
Reduced(il, k) ==
  IF k = 0 THEN [il |-> il, suc |-> FALSE]
  ELSE LET s == Reduced(il, k - 1)
       IN  DropJump([s EXCEPT !.il = Invert(Retarget(@, k), k)], k)
jumpReduce(il) == Reduced(il, Len(il)).il

(* A new value that is popped at once is dropped.  cmpOpt, the pass that   *)
(* joins a comparison and its jump, never finds a pair: it asks of the     *)
(* jump that it has no target.                                             *)
NewNoSideEffect == {"NEW_NIL", "NEW_NONE", "NEW_OBJ", "NEW_OBJ_T", "NEW_NUM_I", "NEW_NUM_F",
                    "NEW_STR", "NEW_FUNC"}
IsIsolated(x) == x.refs = <<>> /\ x.jmpto = 0
RECURSIVE Eliminated(_, _)
Eliminated(il, k) ==
  IF k = 0 THEN il
  ELSE LET b == Eliminated(il, k - 1) IN
       IF /\ b[k].op \in NewNoSideEffect /\ b[k + 1].op = "POP"
          /\ IsIsolated(b[k]) /\ IsIsolated(b[k + 1])
       THEN [b EXCEPT ![k].op = "NOP", ![k + 1].op = "NOP"] ELSE b
elimDupPop(il) == Eliminated(il, Len(il))

(* The new code: without the nops that nothing refers to.  A jump whose    *)
(* target is dropped is the assertion of generateExec: it goes to Lost.    *)
Lost == 100000
generateExec(il) ==
  LET RealRefs(x) == {i \in DOMAIN x.refs : x.refs[i] # 0}
      kept    == {i \in DOMAIN il : il[i].op = "NOP" => RealRefs(il[i]) # {}}
      addr(i) == Cardinality({j \in kept : j <= i})
      arg(i)  == CASE il[i].op \notin Jumps -> il[i].n
                   [] il[i].jmpto \in kept  -> addr(il[i].jmpto) - addr(i)
                   [] OTHER                 -> Lost
      code    == [i \in DOMAIN il |-> Instr(il[i].op, arg(i), il[i].s)]
      order   == SelectSeq([i \in DOMAIN il |-> i], LAMBDA i : i \in kept)
  IN [k \in DOMAIN order |-> code[order[k]]]

optExec(code) == generateExec(elimDupPop(jumpReduce(convertFromExec(code))))
=============================================================================
