------------------------------ MODULE Modules -------------------------------
(***************************************************************************)
(* The module loader, vm/mod/mod.c: import finds a file, runs it once and  *)
(* remembers what it left.  Threads take turns under the global lock, each *)
(* with a call stack of its own; the current path, which import searches   *)
(* first, is one for all of them (vm.h, vm.c).  Sources are compiled when  *)
(* they are loaded; cache files (.ivc) are written by a compiler process   *)
(* that may have stopped half way (Serial).                                *)
(*                                                                         *)
(* Of the instructions, those that call, raise and catch are carried out;  *)
(* the others only leave the right number of values on the stack.          *)
(***************************************************************************)
EXTENDS Integers, Sequences, FiniteSets, SequencesExt, FiniteSetsExt

CONSTANTS Files,       \* function from the paths of all files to [base, suffix, ...]
          Disk,        \* of each path, [whole, at]: what its source compiles to, and what is loaded
                       \* when there is so much of the file (Serial!Executable)
          MainFile,    \* the program
          ModPaths,    \* Seq of the module directories
          Thread, Main,
          Joiner,      \* threads that call mthread.join
          StartFn      \* [Thread -> the function of the program it runs]

(* A frame that loads no module (NULL in the code).                       *)
NoFile == ""
Caches == {id \in DOMAIN Files : Files[id].suffix = ".ivc"}

ASSUME FileAssumption ==
  /\ Main \in Thread /\ "free" \notin Thread /\ Joiner \subseteq Thread
  /\ MainFile \in DOMAIN Files \ Caches /\ NoFile \notin DOMAIN Files
  /\ ModPaths \in Seq(STRING)

(* Code ends with a RETURN, jumps and handlers are in it                   *)
(* (ivm_exec_preproc), and the functions that it makes are those of its    *)
(* own unit, by their place in the list.                                   *)
WellMade(unit) ==
  LET n == Len(unit.fns)
      InUnit(code) ==
        LET m == Len(code) IN
        /\ m \in Nat \ {0} /\ DOMAIN code = 1 .. m /\ code[m].op = "RETURN"
        /\ \A p \in 1 .. m : /\ code[p].op = "NEW_FUNC" => code[p].arg \in 0 .. n - 1
                             /\ code[p].op \in {"JUMP", "RPROT_SET"} => p + code[p].arg \in 1 .. m
  IN /\ n \in Nat /\ DOMAIN unit.fns = 1 .. n /\ (unit.fns # <<>> => unit.root \in 0 .. n - 1)
     /\ \A x \in 1 .. n : InUnit(unit.fns[x].code)

(* What there is of a cache file is a part of it, from nothing on; other   *)
(* files are complete.                                                     *)
Parts(id) == LET at == Disk[id].at IN
  IF id \in Caches THEN Max(DOMAIN at) \in Nat /\ DOMAIN at = 0 .. Max(DOMAIN at) ELSE at[0] = Disk[id].whole

ASSUME UnitAssumption ==
  /\ \A id \in DOMAIN Files : WellMade(Disk[id].whole) /\ Parts(id)
  /\ \A t \in Thread : StartFn[t] \in 1 .. Len(Disk[MainFile].whole.fns)

VARIABLES gil,       \* the thread that holds the global lock, or "free"
          cur,       \* the current path (vmstate.cur_path, and the directory of the process)
          disk,      \* the files as loaders see them; a file that is no cache file is complete
          loaded,    \* vmstate.loaded_mod: "absent", "none" or "object"
          had,       \* how much there was of each file when it was loaded last, or -1
          funcs,     \* vmstate.func_list: Seq of [file, x, offset], the x-th function of the file's code
          written,   \* how much of each cache file there is
          run        \* of each thread, [st, path, frames]
vars == <<disk, gil, cur, loaded, had, funcs, written, run>>

Size(id) == Max(DOMAIN disk[id].at)

(***************************************************************************)
(* Values, and the frames of a thread.  A frame runs the function `fn`; if *)
(* it is the root of a module that is being loaded, that module is `load`  *)
(* and `back` the path to go back to.  `of` is the file whose text made    *)
(* the function.  `home` is no state of the code, but what OwnPath tells   *)
(* of it: the directory of a load, or of a thread (its first frame), until *)
(* a join leaves it elsewhere.                                             *)
(***************************************************************************)
Other       == [k |-> "other", s |-> "", fn |-> 0]
Str(s)      == [Other EXCEPT !.k = "string", !.s = s]
Func(n)     == [Other EXCEPT !.k = "function", !.fn = n]
ImportFunc  == [Other EXCEPT !.k = "import"]
Frame(fn, of, load, back) ==
  [fn |-> fn, of |-> of, load |-> load, back |-> back, home |-> IF load = NoFile THEN back ELSE Files[load].base,
   ip |-> 1, vals |-> <<>>, blocks |-> <<[bp |-> 0, catch |-> 0]>>]
Block(bp)   == [bp |-> bp, catch |-> 0]

Code(fn)    == LET f == funcs[fn] IN disk[f.file].at[had[f.file]].fns[f.x].code
Offset(fn)  == funcs[fn].offset
Frames(t)   == run[t].frames
Top(t)      == Last(Frames(t))
Instr(t)    == Code(Top(t).fn)[Top(t).ip]
Runs(t)     == gil = t /\ run[t].st = "runs"

Replace(t, frames) == run' = [run EXCEPT ![t].frames = frames]
ToTop(t, f)        == Replace(t, Append(Front(Frames(t)), f))
Quiet              == UNCHANGED <<disk, gil, cur, loaded, had, funcs, written>>

(* The thread is over: the lock is released (ivm_vmstate_threadEnd).       *)
(* Mutant: it is not.                                                      *)
Over_KeepLock(t) == run' = [run EXCEPT ![t] = [st |-> "ended", path |-> cur, frames |-> <<>>]] /\ gil' = gil
Over(t) == run' = [run EXCEPT ![t] = [st |-> "ended", path |-> cur, frames |-> <<>>]] /\ gil' = "free"

(***************************************************************************)
(* ivm_exec_unit_mergeToVM: the functions of a unit go to the end of the   *)
(* list, its NEW_FUNC count from there.                                    *)
(* Mutant: they count from the start of the list.                          *)
(***************************************************************************)
Merged_NoOffset(id, unit) == funcs \o [x \in DOMAIN unit.fns |-> [file |-> id, x |-> x, offset |-> 0]]
Merged(id, unit) == funcs \o [x \in DOMAIN unit.fns |-> [file |-> id, x |-> x, offset |-> Len(funcs)]]
Root(unit)       == Len(funcs) + unit.root + 1

(***************************************************************************)
(* Where import finds a module: the current path first, then the module    *)
(* directories, the last one first; in each, "name" before "name/init",    *)
(* and the suffix that was registered last first.                          *)
(***************************************************************************)
Forms == <<".ivc", ".ink", ".so", "/init.ivc", "/init.ink", "/init.so">>
Candidates(name) ==
  LET dirs == <<cur>> \o Reverse(ModPaths)
  IN [n \in 1 .. 6 * Len(dirs) |-> dirs[((n - 1) \div 6) + 1] \o "/" \o name \o Forms[((n - 1) % 6) + 1]]
Found(name) == {n \in DOMAIN Candidates(name) : Candidates(name)[n] \in DOMAIN Files}

(***************************************************************************)
(* Exceptions.  Blocks and calls are left until a block has a catch.  The  *)
(* loader of a source that is left on the way reports the failure: the     *)
(* module is absent again, the path is restored, the import fails.  The    *)
(* one of a cache file does not look at the result of the coroutine: the   *)
(* module counts as loaded and the exception is lost.                      *)
(***************************************************************************)
Catching(f)  == {k \in DOMAIN f.blocks : f.blocks[k].catch # 0}
Deliver(fs)  == Append(Front(fs), [Last(fs) EXCEPT !.vals = Append(@, Other)])
Caught(fs) ==
  LET f == Last(fs)  k == Max(Catching(f))
      vals == IF k = Len(f.blocks) THEN f.vals ELSE SubSeq(f.vals, 1, f.blocks[k + 1].bp)
  IN Append(Front(fs), [f EXCEPT !.blocks = [SubSeq(@, 1, k) EXCEPT ![k].catch = 0], !.ip = f.blocks[k].catch,
                                 !.vals = Append(vals, Other)])
Left_KeepMark(loads, fs) == loaded           \* mutant: the mark of a failed module stays
Left(loads, fs) == [m \in DOMAIN loaded |-> IF \E j \in loads : fs[j].load = m THEN "absent" ELSE loaded[m]]
Raise(t, fs) ==
  LET Stops(j) == Catching(fs[j]) # {} \/ fs[j].load \in Caches
      k     == Max({j \in DOMAIN fs : Stops(j)} \cup {0})
      loads == {j \in k + 1 .. Len(fs) : fs[j].load # NoFile}
      left  == Left(loads, fs)
      path  == IF loads = {} THEN cur ELSE fs[Min(loads)].back
  IN /\ UNCHANGED <<disk, had, funcs, written>>
     /\ CASE k = 0 -> Over(t) /\ loaded' = left /\ cur' = path
          [] k > 0 /\ Catching(fs[k]) # {} ->
               Replace(t, Caught(SubSeq(fs, 1, k))) /\ loaded' = left /\ cur' = path /\ gil' = gil
          [] k > 0 /\ Catching(fs[k]) = {} ->
               /\ Replace(t, Deliver(SubSeq(fs, 1, k - 1)))
               /\ loaded' = [left EXCEPT ![fs[k].load] = "object"] /\ cur' = fs[k].back /\ gil' = gil

(***************************************************************************)
(* ivm_mod_load.  The module is none while it is being loaded, for this    *)
(* thread and all others.  A loader that has no code, and one without      *)
(* a file, raises.  `fs` are the frames after the call.  The directories   *)
(* stay while the program runs, so that chdir never fails.                 *)
(***************************************************************************)
Import(t, name, fs) ==
  LET hits == Found(name)
      id   == Candidates(name)[Min(hits)]
      unit == disk[id].at[written[id]]
  IN CASE hits = {}                                     -> Raise(t, fs)
       [] hits # {} /\ loaded[id] # "absent"          -> Replace(t, Deliver(fs)) /\ Quiet
       [] hits # {} /\ loaded[id] = "absent" /\ Files[id].suffix = ".so" ->
            /\ Replace(t, Deliver(fs)) /\ loaded' = [loaded EXCEPT ![id] = "object"]
            /\ UNCHANGED <<disk, gil, cur, had, funcs, written>>
       [] hits # {} /\ loaded[id] = "absent" /\ Files[id].suffix # ".so" ->
            IF unit.fns = <<>> THEN Raise(t, fs)
            ELSE /\ cur' = Files[id].base
                 /\ loaded' = [loaded EXCEPT ![id] = "none"]
                 /\ had' = [had EXCEPT ![id] = written[id]]
                 /\ funcs' = Merged(id, unit)
                 /\ Replace(t, Append(fs, Frame(Root(unit), id, id, cur)))
                 /\ UNCHANGED <<disk, gil, written>>

(***************************************************************************)
(* Instructions.  What the plain ones take from the stack and leave there. *)
(***************************************************************************)
Pushes == {"GET_LOCAL_SLOT", "GET_GLOBAL_SLOT", "ASSERT_LOCAL_SLOT", "GET_LOCAL_CONTEXT", "GET_GLOBAL_CONTEXT",
           "NEW_NUM_I", "NEW_NUM_F", "NEW_NONE", "NEW_NIL", "NEW_OBJ"}
Pops   == {"POP", "SET_LOCAL_SLOT", "SET_CONTEXT_SLOT", "SET_GLOBAL_SLOT", "SET_SLOT", "SET_SLOT_B"}
Plain  == Pushes \cup Pops \cup {"NEW_STR", "NEW_FUNC", "GET_CONTEXT_SLOT", "NOP", "GET_SLOT", "ASSERT_SLOT"}
Pushed(t) ==
  LET i == Instr(t) IN
  CASE i.op = "NEW_STR"          -> <<Str(i.arg)>>
    [] i.op = "NEW_FUNC"         -> <<Func(Offset(Top(t).fn) + i.arg + 1)>>
    [] i.op = "GET_CONTEXT_SLOT" -> <<IF i.arg = "import" THEN ImportFunc ELSE Other>>
    [] OTHER                     -> IF i.op \in Pushes THEN <<Other>> ELSE <<>>
Step(f, vals) == [f EXCEPT !.ip = @ + 1, !.vals = vals]
Without(f, n) == SubSeq(f.vals, 1, Len(f.vals) - n)

Simple(t) ==
  LET f == Top(t)  i == Instr(t) IN
  /\ Runs(t) /\ i.op \in Plain
  /\ ToTop(t, Step(f, Without(f, IF i.op \in Pops THEN 1 ELSE 0) \o Pushed(t)))
  /\ Quiet

(* The function is below its arguments; another one than import and those  *)
(* of the unit is called as a whole.                                       *)
Invoke(t) ==
  LET f == Top(t)  i == Instr(t)
      callee == f.vals[Len(f.vals) - i.arg]
      fs     == Append(Front(Frames(t)), Step(f, Without(f, i.arg + 1)))
  IN /\ Runs(t) /\ i.op = "INVOKE"
     /\ CASE callee.k = "import"   -> Import(t, Last(f.vals).s, fs)
          [] callee.k = "function" -> Replace(t, Append(fs, Frame(callee.fn, f.of, NoFile, NoFile))) /\ Quiet
          [] callee.k \notin {"import", "function"} -> Replace(t, Deliver(fs)) /\ Quiet

(* mthread.join (ivm_vmstate_joinAllThread): the lock is released until no *)
(* other thread is left.  It raises while someone else joins.              *)
Join(t) ==
  LET f == Top(t)  i == Instr(t)
      callee == f.vals[Len(f.vals) - i.arg]
      fs     == Append(Front(Frames(t)), Step(f, Without(f, i.arg + 1)))
  IN /\ Runs(t) /\ t \in Joiner /\ i.op = "INVOKE" /\ callee.k \notin {"import", "function"}
     /\ IF \E u \in Thread : run[u].st = "joins" THEN Raise(t, fs)
        ELSE /\ run' = [run EXCEPT ![t].st = "joins", ![t].frames = Deliver(fs)] /\ gil' = "free"
             /\ UNCHANGED <<disk, cur, loaded, had, funcs, written>>

(* The end of a function; that of a module is the end of its import.       *)
Return(t) ==
  LET f == Top(t) IN
  /\ Runs(t) /\ Instr(t).op = "RETURN"
  /\ UNCHANGED <<disk, had, funcs, written>>
  /\ IF Len(Frames(t)) = 1 THEN Over(t) /\ UNCHANGED <<cur, loaded>>
     ELSE /\ Replace(t, Deliver(Front(Frames(t)))) /\ UNCHANGED gil
          /\ loaded' = IF f.load = NoFile THEN loaded ELSE [loaded EXCEPT ![f.load] = "object"]
          /\ cur' = IF f.load = NoFile THEN cur ELSE f.back

Throw(t) == Runs(t) /\ Instr(t).op = "RAISE" /\ Raise(t, Frames(t))

Jump(t) == /\ Runs(t) /\ Instr(t).op = "JUMP" /\ ToTop(t, [Top(t) EXCEPT !.ip = @ + Instr(t).arg]) /\ Quiet

Blocks(t) ==
  LET f == Top(t)  i == Instr(t)  b == Last(f.blocks)  n == Len(f.blocks) IN
  /\ Runs(t) /\ i.op \in {"PUSH_BLOCK", "POP_BLOCK", "RPROT_SET", "RPROT_CAC"}
  /\ CASE i.op = "PUSH_BLOCK" -> ToTop(t, [Step(f, f.vals) EXCEPT !.blocks = Append(@, Block(Len(f.vals)))])
       [] i.op = "POP_BLOCK"  -> ToTop(t, IF n = 1 THEN Step(f, f.vals)
                                          ELSE [Step(f, SubSeq(f.vals, 1, b.bp)) EXCEPT !.blocks = Front(@)])
       [] i.op = "RPROT_SET"  -> ToTop(t, [Step(f, f.vals) EXCEPT !.blocks[n].catch = f.ip + i.arg])
       [] i.op = "RPROT_CAC"  -> ToTop(t, [Step(f, f.vals) EXCEPT !.blocks[n].catch = 0])
  /\ Quiet

(***************************************************************************)
(* Threads: each keeps the current path when it releases the lock and sets *)
(* it again when it has the lock back (ivm_vmstate_threadYield); a spawned *)
(* one starts with that of its creator.                                    *)
(***************************************************************************)
Yield(t) == /\ Runs(t) /\ gil' = "free"
            /\ run' = [run EXCEPT ![t].st = "waits", ![t].path = cur]
            /\ UNCHANGED <<disk, cur, loaded, had, funcs, written>>
Lock_KeepPath(t) ==                          \* mutant: in the directory that the other thread has left
            /\ gil = "free" /\ run[t].st = "waits"
            /\ gil' = t /\ cur' = cur
            /\ run' = [run EXCEPT ![t].st = "runs"]
            /\ UNCHANGED <<disk, loaded, had, funcs, written>>
Lock(t)  == /\ gil = "free" /\ run[t].st = "waits"
            /\ gil' = t /\ cur' = run[t].path
            /\ run' = [run EXCEPT ![t].st = "runs"]
            /\ UNCHANGED <<disk, loaded, had, funcs, written>>
(* A thread that has joined takes the lock as it is: the current path is   *)
(* that of the thread that has run last (vm.c:432).                        *)
Loading(t) == {j \in DOMAIN Frames(t) : Frames(t)[j].load # NoFile}
Level(t)   == IF Loading(t) = {} THEN 1 ELSE Max(Loading(t))
Rejoin(t) ==
  /\ gil = "free" /\ run[t].st = "joins" /\ \A u \in Thread \ {Main} : run[u].st \in {"new", "ended"}
  /\ gil' = t
  /\ run' = [run EXCEPT ![t].st = "runs", ![t].frames = [@ EXCEPT ![Level(t)].home = cur]]
  /\ UNCHANGED <<disk, cur, loaded, had, funcs, written>>
Spawn(t) == /\ Runs(Main) /\ run[t].st = "new"
            /\ run' = [run EXCEPT ![t] = [st |-> "waits", path |-> cur,
                                         frames |-> <<Frame(StartFn[t], MainFile, NoFile, cur)>>]]
            /\ Quiet

(* The compiler goes on writing; if it has stopped, it never does.         *)
Write(id) == /\ written[id] < Size(id)
             /\ written' = [written EXCEPT ![id] = Size(id)]
             /\ UNCHANGED <<disk, gil, cur, loaded, had, funcs, run>>

(***************************************************************************)
(* The program is compiled and runs in the directory of its file           *)
(* (ivm_exec_unit_generateVM).  Compilers may be anywhere.                 *)
(***************************************************************************)
Init ==
  /\ disk = Disk
  /\ gil = Main /\ cur = Files[MainFile].base
  /\ loaded = [id \in DOMAIN Files |-> "absent"]
  /\ had = [id \in DOMAIN Files |-> IF id = MainFile THEN 0 ELSE -1]
  /\ funcs = [x \in DOMAIN disk[MainFile].whole.fns |-> [file |-> MainFile, x |-> x, offset |-> 0]]
  /\ \E n \in [Caches -> UNION {DOMAIN disk[id].at : id \in Caches}] :
       /\ \A id \in Caches : n[id] \in DOMAIN disk[id].at
       /\ written = [id \in DOMAIN Files |-> IF id \in Caches THEN n[id] ELSE 0]
  /\ run = [t \in Thread |-> IF t = Main
                             THEN [st |-> "runs", path |-> NoFile, frames |-> <<Frame(StartFn[Main], MainFile, NoFile, cur)>>]
                             ELSE [st |-> "new", path |-> NoFile, frames |-> <<>>]]

Execute(t) == Simple(t) \/ Invoke(t) \/ Join(t) \/ Return(t) \/ Throw(t) \/ Jump(t) \/ Blocks(t)
Next ==
  \/ \E t \in Thread : Execute(t) \/ Yield(t) \/ Lock(t) \/ Rejoin(t) \/ Spawn(t)
  \/ \E id \in Caches : Write(id)
Spec == Init /\ [][Next]_vars

(* A thread that waits for the lock gets it (Scheduled, module Threads:    *)
(* the code here has no loop that never tests has_int), and has time for   *)
(* an instruction.  When all others have ended, nobody else wants it.      *)
FairSpec == /\ Spec
            /\ \A t \in Thread : SF_vars(Lock(t)) /\ SF_vars(Execute(t))
            /\ \A t \in Joiner : WF_vars(Rejoin(t))

(***************************************************************************)
(* Properties.                                                             *)
(***************************************************************************)

(* A thread that runs is in the directory of the module it loads, or in    *)
(* that it was started in, whatever other threads import, whoever yields   *)
(* in the middle of it, and when a load fails: a name means the same file  *)
(* each time.  Only a join loses it, up to the end of the import in which  *)
(* the thread joins; then the directory is that of the import around it.   *)
OwnPath == \A t \in Thread : Runs(t) => cur = Frames(t)[Level(t)].home

(* A module is marked with none exactly as long as someone loads it, and   *)
(* one thread does at a time: none is not what is left of a failed load,   *)
(* and no module runs twice at once, also when it imports itself.          *)
Marked ==
  \A id \in DOMAIN Files :
    LET loads == UNION {{<<t, j>> : j \in {i \in Loading(t) : Frames(t)[i].load = id}} : t \in Thread}
    IN Cardinality(loads) = IF loaded[id] = "none" THEN 1 ELSE 0

(* A function that a module makes is one of its own, although the lists of *)
(* all modules are one and threads add to it while they load.              *)
Linked == \A t \in Thread : \A j \in DOMAIN Frames(t) : funcs[Frames(t)[j].fn].file = Frames(t)[j].of

(* What is accepted of a cache file is all of it, and the code that was    *)
(* compiled; an unfinished file is rejected.                               *)
CacheWhole == \A id \in Caches : had[id] # -1 => had[id] = Size(id) /\ disk[id].at[had[id]] = disk[id].whole

(* Every import comes to its end, also when modules import each other.     *)
Ends == <>(\A t \in Thread : run[t].st \in {"new", "ended"})
=============================================================================
