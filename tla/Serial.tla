------------------------------- MODULE Serial -------------------------------
(***************************************************************************)
(* Compiled code in memory and in a cache file (.ivc): vm/exec.c and       *)
(* util/serial.c.  A function (exec) has a string pool, its parameters and *)
(* its instructions, whose argument is a number, or an index of the pool.  *)
(* A file is the sequence of what ivm_stream_write is called with; a file  *)
(* that is not complete is a prefix of it.                                 *)
(***************************************************************************)
EXTENDS Integers, Sequences, SequencesExt

(* The operations whose argument is a string (opcode.def.h, S).            *)
StringOps == {"NEW_STR", "ASSERT_SLOT", "ASSERT_LOCAL_SLOT", "GET_SLOT", "GET_SLOT_N", "SET_SLOT", "SET_SLOT_B",
              "GET_CONTEXT_SLOT", "SET_CONTEXT_SLOT", "SET_LOCAL_SLOT", "GET_LOCAL_SLOT", "SET_GLOBAL_SLOT",
              "GET_GLOBAL_SLOT"}

(***************************************************************************)
(* String pools: the strings in the order in which they were registered,   *)
(* indexed from 0.                                                         *)
(***************************************************************************)
Register(pool, s)  == IF \E i \in DOMAIN pool : pool[i] = s THEN pool ELSE Append(pool, s)
IndexIn(pool, s)   == (CHOOSE i \in DOMAIN pool : pool[i] = s) - 1
HasIndex(pool, i)  == i < Len(pool)
StringAt(pool, i)  == pool[i + 1]

(***************************************************************************)
(* A unit: its pools, its functions, each with one of them, and which is   *)
(* the root.  A legacy function has no parameters: what it is called with  *)
(* stays on the stack.                                                     *)
(***************************************************************************)
Unit(root, pools, execs)           == [root |-> root, pools |-> pools, execs |-> execs]
Exec(pool, params, legacy, instrs) == [pool |-> pool, params |-> params, legacy |-> legacy, instrs |-> instrs]
NoUnit                             == Unit(0, <<>>, <<>>)

(* _ivm_exec_init: an argument count of -1 makes a legacy function.        *)
NewExec(pool, argc, params) == Exec(pool, params, argc = -1, <<>>)
AddInstrs(exec, instrs)     == [exec EXCEPT !.instrs = @ \o instrs]

(***************************************************************************)
(* Writing.  Parameters are registered in the pool of the function, pools  *)
(* are numbered in the order of their first use.                           *)
(***************************************************************************)
serializeParam(pool, params) ==
  LET all == FoldLeft(LAMBDA p, x : Register(p, x.name), pool, params) IN
  [pool |-> all, params |-> [i \in DOMAIN params |-> <<IndexIn(all, params[i].name), params[i].varg>>]]

serializeExecList(unit) ==
  LET One(s, x) ==
        LET used == Register(s.used, x.pool)
            p    == serializeParam(s.pools[x.pool], x.params)
        IN [s EXCEPT !.used = used, !.pools[x.pool] = p.pool,
                     !.execs = Append(@, [pool |-> IndexIn(used, x.pool), params |-> p.params, instrs |-> x.instrs])]
  IN FoldLeft(One, [used |-> <<>>, pools |-> unit.pools, execs |-> <<>>], unit.execs)

Written(s, ToFile(_)) == <<Len(s)>> \o FlattenSeq([i \in DOMAIN s |-> ToFile(s[i])])

stringToFile(s)        == <<Len(s), s>>                    \* the head with the length, the characters
stringPoolToFile(pool) == Written(pool, stringToFile)
execToFile(x) ==
  <<x.pool, Len(x.instrs)>> \o Written(x.params, LAMBDA p : p)
  \o FlattenSeq([i \in DOMAIN x.instrs |-> <<x.instrs[i].op, x.instrs[i].arg>>])

Header == <<"1", "1">>
encodeCache(unit) ==
  LET s     == serializeExecList(unit)
      pools == [i \in DOMAIN s.used |-> s.pools[s.used[i]]]
  IN Header \o <<unit.root>> \o Written(pools, stringPoolToFile) \o Written(s.execs, execToFile)

(***************************************************************************)
(* Reading.  A reader is at a position of the file, with the value it has  *)
(* read, or has failed: at the end of the file, ivm_stream_read gives 0.   *)
(***************************************************************************)
Start(f)     == [ok |-> TRUE, at |-> 1, v |-> <<>>, file |-> f]
Fail(r)      == [r EXCEPT !.ok = FALSE]
Read(r)      == IF r.ok /\ r.at <= Len(r.file) THEN [r EXCEPT !.at = @ + 1, !.v = r.file[r.at]] ELSE Fail(r)
Become(r, v) == [r EXCEPT !.v = v]

(* n of the same kind, the first that fails ends it.                       *)
ReadMany(r, n, One(_)) ==
  FoldLeft(LAMBDA s, k : IF s.ok THEN LET x == One(s) IN Become(x, Append(s.v, x.v)) ELSE s,
           Become(r, <<>>), [k \in 1 .. n |-> k])
ReadList(r, One(_)) == LET size == Read(r) IN IF size.ok THEN ReadMany(size, size.v, One) ELSE size

stringFromFile(r)     == Read(Read(r))
stringPoolFromFile(r) == ReadList(r, stringFromFile)

ReadPair(r) == LET a == Read(r)  b == Read(a) IN Become(b, <<a.v, b.v>>)
execFromFile_Unchecked(r) ==                 \* mutant: with the instructions that there are
  LET pool   == Read(r)
      size   == Read(pool)
      params == ReadList(size, ReadPair)
      instrs == ReadMany(params, size.v, ReadPair)
      whole  == IF instrs.ok THEN instrs.v ELSE Front(instrs.v)
  IN IF ~params.ok THEN params
     ELSE Become([instrs EXCEPT !.ok = TRUE], [pool |-> pool.v, params |-> params.v,
                          instrs |-> [i \in DOMAIN whole |-> [op |-> whole[i][1], arg |-> whole[i][2]]]])
execFromFile(r) ==
  LET pool   == Read(r)
      size   == Read(pool)
      params == ReadList(size, ReadPair)
      instrs == ReadMany(params, size.v, ReadPair)
  IN IF ~params.ok THEN params
     ELSE Become(instrs, [pool |-> pool.v, params |-> params.v,
                          instrs |-> [i \in DOMAIN instrs.v |-> [op |-> instrs.v[i][1], arg |-> instrs.v[i][2]]]])

(* The number of a pool is checked, that of a string in an instruction not. *)
execListFromFile(r) ==
  LET pools == ReadList(r, stringPoolFromFile)
      Checked(s) == LET x == execFromFile(s) IN
                    IF x.ok /\ ~HasIndex(pools.v, x.v.pool) THEN Fail(x) ELSE x
      execs == ReadList(pools, Checked)
  IN Become(execs, [pools |-> pools.v, execs |-> execs.v])

(* The number of parameters is the argument count, none of them is legacy. *)
LegalParams(x, pools)     == \A i \in DOMAIN x.params : HasIndex(pools[x.pool + 1], x.params[i][1])
unserializeExec(x, pools) ==
  LET Param(p) == [name |-> StringAt(pools[x.pool + 1], p[1]), varg |-> p[2]] IN
  AddInstrs(NewExec(x.pool + 1, Len(x.params), [i \in DOMAIN x.params |-> Param(x.params[i])]), x.instrs)

decodeCache(file) ==
  LET head == ReadMany(Start(file), 2, Read)
      root == Read(head)
      list == execListFromFile(root)
  IN IF ~head.ok \/ head.v # Header \/ ~list.ok THEN NoUnit
     ELSE IF \E i \in DOMAIN list.v.execs : ~LegalParams(list.v.execs[i], list.v.pools) THEN NoUnit
     ELSE Unit(root.v, list.v.pools, [i \in DOMAIN list.v.execs |-> unserializeExec(list.v.execs[i], list.v.pools)])

(***************************************************************************)
(* ivm_exec_preproc, before a function runs for the first time: a jump     *)
(* past the end finds a RETURN there, the last instruction is one, and     *)
(* indices become strings.                                                 *)
(***************************************************************************)
AddressOps == {"JUMP", "JUMP_TRUE", "JUMP_FALSE", "JUMP_TRUE_N", "JUMP_FALSE_N", "CHECK", "CHECK_NONE", "ITER_NEXT",
               "RPROT_SET"}
ReturnI == [op |-> "RETURN", arg |-> 0]
preproc(unit, x) ==
  LET Landing(code, i) == IF code[i].op \in AddressOps /\ i + code[i].arg > Len(code) THEN Append(code, ReturnI) ELSE code
      landed == FoldLeft(Landing, x.instrs, [i \in DOMAIN x.instrs |-> i])
      ended  == IF landed = <<>> \/ Last(landed).op # "RETURN" THEN Append(landed, ReturnI) ELSE landed
      Resolved(c) == IF c.op \in StringOps THEN [c EXCEPT !.arg = StringAt(unit.pools[x.pool], @)] ELSE c
  IN [i \in DOMAIN ended |-> Resolved(ended[i])]

(* What runs of a unit; of NoUnit, nothing.                                *)
Executable(unit) ==
  [root |-> unit.root,
   fns |-> [x \in DOMAIN unit.execs |-> [params |-> unit.execs[x].params, legacy |-> unit.execs[x].legacy,
                                         code |-> preproc(unit, unit.execs[x])]]]
=============================================================================
