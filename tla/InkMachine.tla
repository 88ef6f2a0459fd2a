----------------------------- MODULE InkMachine -----------------------------
(***************************************************************************)
(* The interpreter loop on one function of a compiled ink program: the     *)
(* instruction pointer, the value stack, the blocks of the frame with      *)
(* their catches (vm/opcode.def.h).  Calls, slots and operators are up to  *)
(* the objects: an instruction that uses one records an event, and the     *)
(* object answers with a value, an exception, a truth or a length.         *)
(***************************************************************************)
EXTENDS InkSemantics

CONSTANTS Programs,    \* Seq of the texts
          MaxEvents,   \* a run stops after that many events
          MaxLen,      \* lists have at most that many elements
          MaxArgs      \* calls of functions without parameters have at most so many arguments

ASSUME BoundsAssumption == MaxEvents \in Nat /\ MaxLen \in Nat /\ MaxArgs \in Nat

(* The functions of each program: their trees and their code.  Functions   *)
(* with the same tree are the same value, the first of them.               *)
Units == [p \in DOMAIN Programs |-> Source!generateExecUnit(Source!Parser!parseSource(Programs[p]))]
Linked(code, unit) ==
  LET First(x) == Min({y \in DOMAIN unit : unit[y].src = unit[x].src}) IN
  [i \in DOMAIN code |-> IF code[i].op = "NEW_FUNC" THEN [code[i] EXCEPT !.n = First(@)] ELSE code[i]]

(***************************************************************************)
(* The code says at each instruction which blocks are open, whatever way   *)
(* led there: the paths through it, as pairs of an instruction and its     *)
(* number of blocks, computed from the code alone.                         *)
(***************************************************************************)
Steps(code, i, d) ==
  LET c == code[i]
      depth == CASE c.op \in {"PUSH_BLOCK", "PUSH_BLOCK_S1", "PUSH_BLOCK_AT"} -> d + 1
                 [] c.op \in {"POP_BLOCK", "POP_BLOCK_S1"}                   -> d - 1
                 [] c.op = "INT_LOOP"                                        -> d - c.n
                 [] OTHER                                                    -> d
      next == CASE c.op = "JUMP"                           -> {i + c.n}
                [] c.op \in {"RETURN", "RAISE", "POP_EXC"}  -> {}
                [] c.op = "ITER_NEXT"                       -> {i + 1, i + 3, i + c.n}
                [] c.op \in Source!Jumps \ {"JUMP", "ITER_NEXT"} -> {i + 1, i + c.n}
                [] OTHER                                    -> {i + 1}
  IN {<<j, depth>> : j \in next}

RECURSIVE Paths(_, _, _)
Paths(code, seen, new) ==
  IF new = {} THEN seen
  ELSE LET sound == {q \in new : q[1] \in DOMAIN code /\ q[2] \in 0 .. Len(code)}
           there == UNION {Steps(code, q[1], q[2]) : q \in sound}
       IN  Paths(code, seen \cup new, there \ (seen \cup new))
VARIABLES job,         \* the function: the trees of its program and its own, its arguments, code and paths
          ip,          \* the next instruction
          stack,       \* the value stack of the frame
          blocks,      \* Seq of [bp, catch], the first one is the frame itself
          st,          \* "running", "returned", "raised", or "fatal": insufficient stack
          result,      \* what has been returned or raised
          heard        \* has the last step recorded an event
vars == <<job, ip, stack, blocks, st, result, heard, trace>>

Code  == job.code
Instr == Code[ip]
Over  == st # "running" \/ Len(trace) >= MaxEvents
Op    == IF Over THEN "" ELSE Instr.op

Init ==
  /\ \E p \in DOMAIN Programs : \E unit \in {Units[p]} : \E x \in DOMAIN unit : \E n \in 0 .. MaxArgs :
       /\ unit[x].arity # -1 => n = 0
       /\ stack = [m \in 1 .. n |-> Arg(m)]
       /\ job = [fns |-> [y \in DOMAIN unit |-> unit[y].src], x |-> x, args |-> stack,
                 code |-> Linked(unit[x].code, unit), paths |-> Paths(unit[x].code, {}, {<<1, 0>>})]
  /\ ip = 1 /\ blocks = <<[bp |-> 0, catch |-> 0]>> /\ trace = <<>>
  /\ st = "running" /\ result = None /\ heard = FALSE

(***************************************************************************)
(* The stack of the current block, what RAISE and EXCEPTION do.            *)
(***************************************************************************)
Block0    == Last(blocks)
Avail     == Len(stack) - Block0.bp                   \* AVAIL_STACK
Top(n)    == SubSeq(stack, Len(stack) - n + 1, Len(stack))
Below(n)  == SubSeq(stack, 1, Len(stack) - n)

Stay       == UNCHANGED <<job, st, result>>
Silent     == UNCHANGED trace /\ heard' = FALSE
Record(ev, args, out, n) ==
  /\ trace' = Append(trace, [ev |-> ev, args |-> args, out |-> out, n |-> n])
  /\ heard' = TRUE
Continue(s) == stack' = s /\ ip' = ip + 1 /\ UNCHANGED blocks /\ Stay
Goto(s, n)  == stack' = s /\ ip' = ip + n /\ UNCHANGED blocks /\ Stay

(* The stack is short: IVM_FATAL.                                          *)
Fatal == st' = "fatal" /\ Silent /\ UNCHANGED <<job, ip, stack, blocks, result>>

(* The catch of the current block gets the exception on top of the stack;  *)
(* without one, blocks are left until one has a catch (popToCatch), and    *)
(* without any the frame is left.  A catch is used once.                   *)
Raise(v, s) ==
  LET caught == {k \in DOMAIN blocks : blocks[k].catch # 0}
      k      == Max(caught)
      cut    == IF k = Len(blocks) THEN s ELSE SubSeq(s, 1, blocks[k + 1].bp)
  IN IF caught = {}
     THEN st' = "raised" /\ result' = v /\ UNCHANGED <<job, ip, stack, blocks>>
     ELSE /\ blocks' = [SubSeq(blocks, 1, k) EXCEPT ![k].catch = 0]
          /\ stack' = Append(cut, v) /\ ip' = blocks[k].catch
          /\ Stay

(***************************************************************************)
(* Values from nowhere, and the order of the stack.                        *)
(***************************************************************************)
Literal ==
  LET i == Instr IN
  CASE Op = "NEW_NIL"  -> Nil
    [] Op = "NEW_NONE" -> None
    [] Op = "NEW_STR"  -> Str(i.s)
    [] Op = "NEW_FUNC" -> V("fn", i.n, 0, "")
    [] OTHER           -> Num(i.s)
New == /\ Op \in {"NEW_NIL", "NEW_NONE", "NEW_STR", "NEW_FUNC", "NEW_NUM_I", "NEW_NUM_F"}
       /\ Silent /\ Continue(Append(stack, Literal))

(* Each needs `n` elements and makes of the stack `s`.                     *)
Arranged(n, s) == IF Avail >= n THEN Silent /\ Continue(s) ELSE Fatal
Pop     == Op = "POP"     /\ Arranged(1, Below(1))
PopAll  == Op = "POP_ALL" /\ Arranged(0, Below(Avail))
Dup     == Op = "DUP"     /\ Arranged(1, Append(stack, Last(stack)))
DupN    == Op = "DUP_N"   /\ Arranged(Instr.n + 1, Append(stack, stack[Len(stack) - Instr.n]))
DupAbs  == Op = "DUP_ABS" /\ Arranged(0, Append(stack, stack[Block0.bp + Instr.n + 1]))
Switch2 == Op = "SWITCH2" /\ Arranged(2, Below(2) \o Reverse(Top(2)))
EnsureNone == Op = "ENSURE_NONE" /\ Arranged(0, IF Avail = 0 THEN Append(stack, None) ELSE stack)
SetPaArg   == Op = "SET_PA_ARG" /\ Arranged(0,
                IF Avail >= Instr.n THEN Below(Avail - Instr.n)
                ELSE stack \o [m \in 1 .. Instr.n - Avail |-> None])
(* The element under the n-th block from the top.                          *)
DupPrevBlock ==
  LET depth == CHOOSE n \in 1 .. Len(blocks) : ToString(n) = Instr.s
      under == blocks[Len(blocks) - depth + 1].bp
  IN Op = "DUP_PREV_BLOCK" /\ Arranged(0, Append(stack, stack[under]))
Nop == Op \in {"NOP", "REMOVE_LOC"} /\ Arranged(0, stack)

(***************************************************************************)
(* Operations on objects.  Of the n values that it takes, a[1] lowest, an  *)
(* operation hands some to the object, in an order of its own, and leaves  *)
(* some; `name` says if the text of the instruction comes first.           *)
(***************************************************************************)
Takes(ev, n, order, back, gives, fails) ==
  [ev |-> ev, n |-> n, order |-> order, back |-> back, gives |-> gives, fails |-> fails]
Unary1(ev)  == Takes(ev, 1, <<1>>, <<>>, TRUE, TRUE)
Binary2(ev) == Takes(ev, 2, <<1, 2>>, <<>>, TRUE, TRUE)
Read(ev)    == Takes(ev, 0, <<>>, <<>>, TRUE, FALSE)
Write(ev)   == Takes(ev, 1, <<1>>, <<>>, FALSE, FALSE)

Named == {"GET_SLOT", "GET_SLOT_N", "SET_SLOT", "SET_SLOT_B", "GET_CONTEXT_SLOT", "SET_CONTEXT_SLOT",
          "GET_LOCAL_SLOT", "SET_LOCAL_SLOT", "GET_GLOBAL_SLOT", "SET_GLOBAL_SLOT", "ASSERT_SLOT", "ASSERT_LOCAL_SLOT",
          "GET_OOP", "SET_OOP", "SET_OOP_B"}
SlotHandlers == [
  ASSERT_SLOT |-> Unary1("assert_slot"),
  GET_SLOT    |-> Unary1("get_slot"),
  GET_SLOT_N  |-> Takes("get_slot", 1, <<1>>, <<1>>, TRUE, TRUE),
  GET_PROTO   |-> Unary1("get_proto"),
  SET_SLOT    |-> Takes("set_slot", 2, <<2, 1>>, <<2>>, FALSE, TRUE),
  SET_SLOT_B  |-> Takes("set_slot", 2, <<1, 2>>, <<1>>, FALSE, TRUE),
  SET_PROTO   |-> Takes("set_proto", 2, <<2, 1>>, <<2>>, FALSE, TRUE) ]
ContextHandlers == [
  ASSERT_LOCAL_SLOT  |-> Read("assert_local_slot"),
  GET_CONTEXT_SLOT   |-> Read("get_context_slot"),  SET_CONTEXT_SLOT   |-> Write("set_context_slot"),
  GET_LOCAL_CONTEXT  |-> Read("get_local_context"), SET_LOCAL_CONTEXT  |-> Write("set_local_context"),
  GET_GLOBAL_CONTEXT |-> Read("get_global_context"), SET_GLOBAL_CONTEXT |-> Write("set_global_context"),
  GET_LOCAL_SLOT     |-> Read("get_local_slot"),    SET_LOCAL_SLOT     |-> Write("set_local_slot"),
  GET_GLOBAL_SLOT    |-> Read("get_global_slot"),   SET_GLOBAL_SLOT    |-> Write("set_global_slot") ]
OopHandlers == [
  GET_OOP   |-> Unary1("get_oop"),
  SET_OOP   |-> Takes("set_oop", 2, <<2, 1>>, <<2>>, FALSE, TRUE),
  SET_OOP_B |-> Takes("set_oop", 2, <<1, 2>>, <<1>>, FALSE, TRUE) ]
OperatorHandlers == [
  NOT |-> Unary1("!"),  NEG |-> Unary1("-"),  POS |-> Unary1("+"),  BNOT |-> Unary1("~"),
  ADD |-> Binary2("+"), SUB |-> Binary2("-"), MUL |-> Binary2("*"), DIV |-> Binary2("/"), MOD |-> Binary2("%"),
  AND |-> Binary2("&"), EOR |-> Binary2("^"), IOR |-> Binary2("|"), SHL |-> Binary2("<<"), SHAR |-> Binary2(">>"),
  SHLR |-> Binary2(">>>"), INADD |-> Binary2("+="), INSUB |-> Binary2("-="), INMUL |-> Binary2("*="),
  INDIV |-> Binary2("/="), INMOD |-> Binary2("%="), INAND |-> Binary2("&="), INEOR |-> Binary2("^="),
  INIOR |-> Binary2("|="), INSHL |-> Binary2("<<="), INSHAR |-> Binary2(">>="), INSHLR |-> Binary2(">>>="),
  NE |-> Binary2("!="), EQ |-> Binary2("=="), GT |-> Binary2(">"), GE |-> Binary2(">="), LT |-> Binary2("<"),
  LE |-> Binary2("<="), IDX |-> Binary2("[]"), IDXA |-> Takes("[=]", 3, <<2, 3, 1>>, <<>>, TRUE, TRUE) ]
ObjectHandlers == [NEW_OBJ |-> Read("new_obj"), NEW_OBJ_T |-> Read("new_obj")]
CoroHandlers == [FORK |-> Unary1("fork"), YIELD |-> Unary1("yield"), RESUME |-> Binary2("resume")]
CheckProto   == [CHECK_PROTO |-> [Binary2("is") EXCEPT !.fails = FALSE]]
PushList     == [PUSH_LIST |-> Takes("push_list", 2, <<1, 2>>, <<>>, FALSE, TRUE)]
Handlers == SlotHandlers @@ ContextHandlers @@ OopHandlers @@ OperatorHandlers @@ ObjectHandlers @@ CoroHandlers
            @@ CheckProto @@ PushList

(* What a handler does, with `name` in front of the values it hands over.  *)
Handle(h, name) ==
  LET a     == Top(h.n)
      args  == name \o [m \in DOMAIN h.order |-> a[h.order[m]]]
      back  == [m \in DOMAIN h.back |-> a[h.back[m]]]
      given == IF h.gives THEN <<Made(Len(trace) + 1)>> ELSE <<>>
  IN IF Avail < h.n THEN Fatal
     ELSE \/ Record(h.ev, args, "ok", 0) /\ Continue(Below(h.n) \o back \o given)
          \/ /\ h.fails
             /\ Record(h.ev, args, "exception", 0)
             /\ Raise(Exception(Len(trace) + 1), Below(h.n))
Operation == Op \in DOMAIN Handlers /\ Handle(Handlers[Op], IF Op \in Named THEN <<Name(Instr.s)>> ELSE <<>>)

(***************************************************************************)
(* Calls take the function and its arguments, below them the base.         *)
(***************************************************************************)
Args == [INVOKE |-> Instr.n, INVOKE_BASE |-> Instr.n, INVOKE_VAR |-> Avail - 1, INVOKE_BASE_VAR |-> Avail - 2]
Invoke ==
  LET n    == Args[Op]
      base == Op \in {"INVOKE_BASE", "INVOKE_BASE_VAR"}
      size == IF base THEN n + 2 ELSE n + 1
      next == base /\ Last(Below(n)).k = "next of"   \* pushed by IterNext
      ids  == [m \in 1 .. size |-> m]
  IN /\ Op \in DOMAIN Args
     /\ IF n < 0 \/ Avail < size THEN Fatal
        ELSE Handle(IF next THEN Takes("next", 2, <<1>>, <<>>, TRUE, TRUE)
                    ELSE Takes(IF base THEN "call_base" ELSE "call", size, ids, <<>>, TRUE, TRUE), <<>>)

(***************************************************************************)
(* Lists.                                                                  *)
(***************************************************************************)
NewList ==
  LET n == CASE Op = "NEW_LIST"       -> Instr.n
             [] Op = "NEW_LIST_ALL"   -> Avail
             [] Op = "NEW_LIST_ALL_R" -> IF Avail > Instr.n THEN Avail - Instr.n ELSE 0
      order == [m \in 1 .. n |-> IF Op = "NEW_LIST_ALL_R" THEN n + 1 - m ELSE m]
  IN /\ Op \in {"NEW_LIST", "NEW_LIST_ALL", "NEW_LIST_ALL_R"}
     /\ Handle(Takes("new_list", n, order, <<>>, TRUE, FALSE), <<>>)

(* The constructor of lists, which iterates over the value.                *)
ToListI ==
  /\ Op = "TO_LIST"
  /\ CASE Avail = 0         -> Fatal
       [] Avail > 0 /\ Last(stack) = Nil  -> Silent /\ Continue(stack)
       [] Avail > 0 /\ Last(stack) # Nil ->
            \/ \E n \in 0 .. MaxLen :
                 Record("to_list", Top(1), "ok", n) /\ Continue(Append(Below(1), Made(Len(trace) + 1)))
            \/ Record("to_list", Top(1), "exception", 0) /\ Raise(Exception(Len(trace) + 1), Below(1))

(* The first element ends on top, missing ones are none; with _ALL all of  *)
(* them and the last on top, with _ALL_R the first on top.                 *)
Unpack ==
  LET l  == Last(stack)
      es == CASE Op = "UNPACK_LIST" /\ l = Nil -> [m \in 1 .. Instr.n |-> Nil]
              [] Op = "UNPACK_LIST" /\ l # Nil -> [m \in 1 .. Instr.n |-> Nth(Elements(l), m)]
              [] OTHER -> Elements(l)
  IN /\ Op \in {"UNPACK_LIST", "UNPACK_LIST_ALL", "UNPACK_LIST_ALL_R"}
     /\ Arranged(1, Below(1) \o IF Op = "UNPACK_LIST_ALL" THEN es ELSE Reverse(es))

(***************************************************************************)
(* Jumps.  The truth of an object is asked once.                           *)
(***************************************************************************)
Asked(v) == {j \in DOMAIN trace : AsksTruth(v, trace[j])}
WithTruth(v, F(_)) ==
  CASE KnownTruth(v)     -> Silent /\ F(Truth(v))
    [] ~KnownTruth(v) /\ Asked(v) # {} -> Silent /\ F(\A j \in Asked(v) : trace[j].out = "true")
    [] ~KnownTruth(v) /\ Asked(v) = {} ->
         \E t \in BOOLEAN : Record("test", <<v>>, IF t THEN "true" ELSE "false", 0) /\ F(t)

Jump   == Op = "JUMP" /\ Silent /\ Goto(stack, Instr.n)
JumpIf ==
  LET keep == Op \in {"JUMP_TRUE_N", "JUMP_FALSE_N"}
      want == Op \in {"JUMP_TRUE", "JUMP_TRUE_N"}
  IN /\ Op \in {"JUMP_TRUE", "JUMP_FALSE", "JUMP_TRUE_N", "JUMP_FALSE_N"}
     /\ IF Avail = 0 THEN Fatal
        ELSE WithTruth(Last(stack), LAMBDA t : Goto(IF keep THEN stack ELSE Below(1), IF t = want THEN Instr.n ELSE 1))
Check     == Op = "CHECK" /\ Silent /\ Goto(stack, IF Avail > 0 THEN Instr.n ELSE 1)
CheckNone ==
  /\ Op = "CHECK_NONE"
  /\ IF Avail = 0 THEN Fatal
     ELSE \E t \in BOOLEAN : /\ Record("is_none", Top(1), IF t THEN "true" ELSE "false", 0)
                             /\ Goto(Below(1), IF t THEN 1 ELSE Instr.n)
AssertTrue ==
  /\ Op \in {"ASSERT_TRUE", "ASSERT_TRUE_N"}
  /\ IF Avail = 0 THEN Fatal
     ELSE LET rest == IF Op = "ASSERT_TRUE" THEN Below(1) ELSE stack
              Then1(t) == IF t THEN Continue(rest) ELSE Raise(AssertFailed, rest)
          IN  WithTruth(Last(stack), Then1)

(***************************************************************************)
(* Iteration.  An iterator of a list or a range is asked at once; the next *)
(* method of another one is called by the instruction that follows, and    *)
(* an exception of it leaves the loop.                                     *)
(***************************************************************************)
IterNext ==
  LET it  == stack[Block0.bp + 1]
      one == SubSeq(stack, 1, Block0.bp + 1)
  IN /\ Op = "ITER_NEXT"
     /\ IF Avail = 0 THEN Fatal
        ELSE \/ Record("next", <<it>>, "ok", 0) /\ Goto(Append(one, Made(Len(trace) + 1)), 3)
             \/ Record("next", <<it>>, "exception", 0) /\ Goto(one, Instr.n)
             \/ Record("next", <<it>>, "no next", 0) /\ Raise(NotIterable, one)
             \/ /\ Len(blocks) > 1                      \* a catch of the frame itself is fatal
                /\ Silent /\ blocks' = [blocks EXCEPT ![Len(blocks)].catch = ip + Instr.n]
                /\ stack' = one \o <<it, V("next of", 0, 0, "")>> /\ ip' = ip + 1 /\ Stay

(***************************************************************************)
(* Blocks and exceptions.                                                  *)
(***************************************************************************)
Enter(bp)  == /\ blocks' = Append(blocks, [bp |-> bp, catch |-> 0])
              /\ Silent /\ stack' = stack /\ ip' = ip + 1 /\ Stay
PushBlock  ==
  /\ Op \in {"PUSH_BLOCK", "PUSH_BLOCK_S1", "PUSH_BLOCK_AT"}
  /\ CASE Op = "PUSH_BLOCK"    -> Enter(Len(stack))
       [] Op = "PUSH_BLOCK_S1" -> IF Avail = 0 THEN Fatal ELSE Enter(Len(stack) - 1)
       [] Op = "PUSH_BLOCK_AT" -> Enter(Block0.bp + Instr.n)
(* The last block of the frame stays.                                      *)
Leave(n, top) ==
  LET m == Min({n, Len(blocks) - 1})
      b == blocks[Len(blocks) + 1 - m]
  IN /\ blocks' = SubSeq(blocks, 1, Len(blocks) - m)
     /\ stack' = IF m = 0 THEN stack ELSE SubSeq(stack, 1, b.bp) \o top
     /\ Silent /\ ip' = ip + 1 /\ Stay
PopBlock ==
  /\ Op \in {"POP_BLOCK", "POP_BLOCK_S1", "INT_LOOP"}
  /\ CASE Op = "POP_BLOCK"    -> Leave(1, <<>>)
       [] Op = "POP_BLOCK_S1" -> IF Avail = 0 THEN Fatal ELSE Leave(1, Top(1))
       [] Op = "INT_LOOP"     -> Leave(Instr.n, <<>>)
Protect ==
  /\ Op \in {"RPROT_SET", "RPROT_CAC"}
  /\ IF Len(blocks) = 1 THEN Fatal
     ELSE /\ blocks' = [blocks EXCEPT ![Len(blocks)].catch = IF Op = "RPROT_SET" THEN ip + Instr.n ELSE 0]
          /\ Silent /\ stack' = stack /\ ip' = ip + 1 /\ Stay
RaiseI ==
  /\ Op = "RAISE"
  /\ IF Avail = 0 THEN Fatal ELSE Silent /\ Raise(Last(stack), Below(1))
(* Without an exception the handler runs into the one of PUSH_BLOCK.       *)
PopExc ==
  /\ Op = "POP_EXC"
  /\ IF Avail > 0 THEN Silent /\ Raise(Last(stack), Below(1)) ELSE Enter(Len(stack))

Return ==
  /\ Op = "RETURN"
  /\ st' = "returned" /\ result' = (IF Avail > 0 THEN Last(stack) ELSE None)
  /\ Silent /\ UNCHANGED <<job, ip, stack, blocks>>

Stop == Over /\ UNCHANGED vars

Next ==
  \/ New \/ Pop \/ PopAll \/ Dup \/ DupN \/ DupAbs \/ Switch2 \/ EnsureNone \/ SetPaArg \/ DupPrevBlock \/ Nop
  \/ Operation \/ Invoke \/ NewList \/ ToListI \/ Unpack
  \/ Jump \/ JumpIf \/ Check \/ CheckNone \/ AssertTrue \/ IterNext
  \/ PushBlock \/ PopBlock \/ Protect \/ RaiseI \/ PopExc \/ Return \/ Stop

Spec == Init /\ [][Next]_vars

(***************************************************************************)
(* The code that the compiler produces does what the program means: the    *)
(* operations of its text in the order of the language, each with its      *)
(* operands, and then its result; every jump, block and catch that the     *)
(* code generator and the optimiser make is between the two.               *)
(***************************************************************************)
Faithful ==
  (heard \/ st # "running") =>
    \E r \in {Called(job.x, job.args, job.fns)} :
    /\ r.i = Len(trace) + 1
    /\ CASE st = "running"  -> r.k # "wrong"
         [] st = "returned" -> r.k \in {"val", "ret"} /\ r.vs = <<result>>
         [] st = "raised"   -> r.k = "exc" /\ r.vs = <<result>>
         [] st = "fatal"    -> FALSE

(* Every way to an instruction finds it with the same number of blocks,    *)
(* and a run has exactly these: no try, loop, call or pattern leaves a     *)
(* block open, or closes one that is not its own, whether it ends, is left *)
(* by break, cont or ret, or an exception goes through it.  Excluded are   *)
(* break and cont after a finished try (or starred argument) in the same   *)
(* loop body, which leave too many blocks: no program of the passing run   *)
(* has one, and the run ink_blocks shows what becomes of it.  Every jump   *)
(* of the optimised code goes to an instruction.                           *)
Balanced ==
  /\ \A q, r \in job.paths : q[1] \in DOMAIN Code /\ (q[1] = r[1] => q = r)
  /\ st = "running" => <<ip, Len(blocks) - 1>> \in job.paths

(* A loop goes round in a block of its own, break and cont leave those     *)
(* that are open in it and no other (nl_block, "non-loop block").          *)
OwnBlock == (Op \in {"ITER_NEXT", "POP_ALL"}) => Len(blocks) > 1
=============================================================================
