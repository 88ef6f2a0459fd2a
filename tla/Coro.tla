-------------------------------- MODULE Coro --------------------------------
(***************************************************************************)
(* Coroutines and the interpreter loop ivm_coro_execute_c (vm/coro.c) with *)
(* the stacks it keeps: the value stack of a coroutine, one growing array  *)
(* that all of its calls share (vm/vmstack.c), the frame stack with the    *)
(* saved pointers into it (vm/call.h), the block stack (vm/block.h), and   *)
(* the C stack of each thread, on which the interpreter runs again for     *)
(* every "resume" and for every function that native code calls back.      *)
(*                                                                         *)
(* An address is a number; the value stack of a coroutine starts at        *)
(* "bottom" and mem holds the values below its sp.  What the words above   *)
(* sp hold is not modelled, Nil stands for it if they become visible.      *)
(* What a value is does not matter: any value may be called or resumed.    *)
(*                                                                         *)
(* Between two instructions the interpreter may hand the global lock over  *)
(* (module Threads), so threads take turns here in any order; an exception *)
(* on its way is not interrupted.                                          *)
(***************************************************************************)
EXTENDS Naturals, SequencesExt

CONSTANTS
  Coro, MainCoro,       \* coroutines, and vmstate.main_coro
  Thread, MainThread,   \* threads, and the one of main()
  Value, None, Exc,     \* values; none; an exception made by the machine
  Nil,                  \* NULL
  FirstSize,            \* IVM_DEFAULT_VMSTACK_BUFFER_SIZE
  MaxMem, MaxFrames, MaxBlocks, MaxDepth,   \* bounds: see Within
  Quirks                \* what programs do that meets a flaw: see where it is used

ASSUME CoroAssumption ==
  /\ MainCoro \in Coro /\ MainThread \in Thread
  /\ FirstSize \in Nat \ {0}
  /\ MaxMem \in Nat /\ MaxFrames \in Nat /\ MaxBlocks \in Nat /\ MaxDepth \in Nat
  /\ Nil \notin Value \cup {None, Exc} \cup Coro
  /\ Quirks \subseteq {"reenter", "fault", "callback", "spawn"}

VARIABLES
  co,       \* the coroutines: a record each, or Nil: not created
  cstack,   \* interpreter loops and native functions active in each thread
  start,    \* the coroutine a new thread is to run, or Nil
  except    \* vmstate.except

vars == <<co, cstack, start, except>>

Values == Value \cup {None, Exc}
Arg    == Value \cup {None}
Kind   == {"ink", "legacy", "native"}   \* with parameters, without, in C

(* A frame; "runtime" is the frame of the call that runs.  native: ip is   *)
(* NULL.  param: the function has parameters; args: the arguments bound to *)
(* them in the context.                                                    *)
FrameSet == [native : BOOLEAN, bp : Nat, rbp : Nat, bcur : Nat, dump : 0..2,
             param : BOOLEAN, args : Seq(Values)]
BlockSet == [sp : Nat, catch : BOOLEAN]
CoroSet  == [alive : BOOLEAN, active : BOOLEAN, hasNative : BOOLEAN,
             spawned : BOOLEAN, param : {"no", "bind", "drop"},
             bottom : Nat, size : Nat, mem : Seq(Values),
             runtime : FrameSet, frames : Seq(FrameSet), blocks : Seq(BlockSet)]

(* Calls as module CallModel has them.                                     *)
ShownBlock == [vals : Seq(Values), catch : BOOLEAN]
ShownCall  == [native : BOOLEAN, args : Seq(Values), blocks : Seq(ShownBlock)]

(* NULL is no coroutine, and no list of calls.                             *)
ASSUME NilAssumption == Nil \notin CoroSet \cup Seq(ShownCall)

(* native: a C function, else an interpreter loop.  saved: has_native when *)
(* the function was invoked.  byCall: called by ivm_coro_call.  trap: run  *)
(* by ivm_coro_resume, which prints an exception.  failing: an exception   *)
(* is on its way through it.                                               *)
Activation == [co : Coro, native : BOOLEAN, saved : BOOLEAN, byCall : BOOLEAN,
               trap : BOOLEAN, failing : BOOLEAN]
Loop(c, trap) == [co |-> c, native |-> FALSE, saved |-> FALSE, byCall |-> FALSE,
                  trap |-> trap, failing |-> FALSE]
CFunction(c, saved, byCall) ==
  [Loop(c, FALSE) EXCEPT !.native = TRUE, !.saved = saved, !.byCall = byCall]

----------------------------------------------------------------------------
(* The stacks of a coroutine r.                                            *)

Cut(s, n) == [i \in 1..n |-> IF i <= Len(s) THEN s[i] ELSE Nil]

Sp(r)       == r.bottom + Len(r.mem)
Avail(r)    == Sp(r) - r.runtime.bp
TopOf(r)    == Last(r.mem)
Taken(r, n) == SubSeq(r.mem, Len(r.mem) - n + 1, Len(r.mem))
Drop(r, n)  == [r EXCEPT !.mem = Cut(@, Len(@) - n)]

MoveFrame(f, by) == [f EXCEPT !.bp = @ + by, !.rbp = @ + by]

(* The pointers of the frame that runs stay where they were.               *)
MutEnlarge(r) ==
  LET by == r.size + 1
  IN  [r EXCEPT !.bottom = @ + by, !.size = 2 * @,
                !.frames = [i \in DOMAIN @ |-> MoveFrame(@[i], by)],
                !.runtime.rbp = @ + by]

(* The array is full: it moves to a larger one and takes every pointer     *)
(* into it along.                                                          *)
Enlarge(r) ==
  LET by == r.size + 1
  IN  [r EXCEPT !.bottom = @ + by, !.size = 2 * @,
                !.frames = [i \in DOMAIN @ |-> MoveFrame(@[i], by)],
                !.runtime = MoveFrame(@, by)]

Push(r, v) ==
  LET s == [r EXCEPT !.mem = Append(@, v)]
  IN  IF Len(s.mem) < s.size THEN s ELSE Enlarge(s)
PushAll(r, s) ==
  IF s = <<>> THEN r ELSE IF Len(s) = 1 THEN Push(r, s[1]) ELSE Push(Push(r, s[1]), s[2])

PushFrame(r) ==
  [r EXCEPT !.frames = Append(@, r.runtime), !.runtime.bcur = Len(r.blocks)]

PopFrame(r) ==
  LET s == [r EXCEPT !.blocks = SubSeq(@, 1, r.runtime.bcur)]
  IN  IF r.frames = <<>> THEN s
      ELSE [s EXCEPT !.mem = Cut(@, r.runtime.rbp - r.bottom),
                     !.runtime = Last(r.frames), !.frames = Front(@)]

(* The call of a function of the kind whose frame begins n values below sp.*)
Enter(r, kind, n, dump, args) ==
  LET s == PushFrame(r)
  IN  [s EXCEPT !.runtime = [native |-> kind = "native", bp |-> Sp(r) - n, rbp |-> Sp(r) - n,
                             bcur |-> @.bcur, dump |-> dump, param |-> kind = "ink",
                             args |-> args]]

(* The frame is left; with a caller, its dump values go as well: the       *)
(* function and its base.                                                  *)
LeaveFrame(r) ==
  LET s == PopFrame(r)
  IN  IF r.frames = <<>> THEN s ELSE Drop(s, r.runtime.dump)

BlockOpen(r)  == Len(r.blocks) # r.runtime.bcur

(* A block of the caller catches.                                          *)
MutCaught(r) == Len(r.blocks) > 0 /\ Last(r.blocks).catch

Caught(r)     == BlockOpen(r) /\ Last(r.blocks).catch
SetCatchOf(r, on) == [r EXCEPT !.blocks = Append(Front(@), [Last(@) EXCEPT !.catch = on])]

(* The values of the block are dropped, the block is not.                  *)
MutLeaveBlock(r) ==
  IF ~ BlockOpen(r) THEN r ELSE [r EXCEPT !.mem = Cut(@, r.runtime.bp - r.bottom)]

(* The block ends, its values go, and those below it are the block again.  *)
LeaveBlock(r) ==
  IF ~ BlockOpen(r) THEN r
  ELSE [r EXCEPT !.mem = Cut(@, r.runtime.bp - r.bottom),
                 !.runtime.bp = @ - Last(r.blocks).sp, !.blocks = Front(@)]

(* A new coroutine: createRuntime sets sp, bp and bcur, invoke the rest.   *)
Root(param) ==
  [alive |-> TRUE, active |-> FALSE, hasNative |-> FALSE, spawned |-> FALSE,
   param |-> param, bottom |-> 0, size |-> FirstSize, mem |-> <<>>,
   runtime |-> [native |-> FALSE, bp |-> 0, rbp |-> 0, bcur |-> 0, dump |-> 0,
                param |-> param = "bind", args |-> <<>>],
   frames |-> <<>>, blocks |-> <<>>]

CanResume(r) == r # Nil /\ r.alive /\ ~ r.active /\ ~ r.spawned

Init ==
  /\ co = [c \in Coro |-> IF c = MainCoro THEN [Root("no") EXCEPT !.active = TRUE]
                          ELSE Nil]
  /\ cstack = [t \in Thread |-> IF t = MainThread THEN <<Loop(MainCoro, TRUE)>> ELSE <<>>]
  /\ start = [t \in Thread |-> Nil]
  /\ except = Nil

----------------------------------------------------------------------------
Active(t)    == Last(cstack[t])
Interp(t)    == cstack[t] # <<>> /\ ~ Active(t).native
Current(t)   == co[Active(t).co]
NoneFailing  == \A u \in Thread : cstack[u] # <<>> => ~ Active(u).failing
Ink(t)       == Interp(t) /\ NoneFailing
Native(t)    == cstack[t] # <<>> /\ Active(t).native /\ NoneFailing
OnStack(c)   == \E t \in Thread : \E i \in DOMAIN cstack[t] : cstack[t][i].co = c

SetCoro(t, r) == co' = [co EXCEPT ![Active(t).co] = r]
Local(t, r)   == SetCoro(t, r) /\ UNCHANGED <<cstack, start, except>>

(* It is printed and left set.                                             *)
MutPopped(trapped) == except

(* ivm_coro_resume takes the exception that it prints.                     *)
Popped(trapped) == IF trapped THEN Nil ELSE except

(* The loop at the top of the C stack of t ends with value v, NULL for an  *)
(* exception.  Below it is the loop of the coroutine that has resumed this *)
(* one, native code that has called back, or nothing: the thread ends.     *)
End(t, r, v) ==
  LET c       == Active(t).co
      below   == Front(cstack[t])
      stopped == [co EXCEPT ![c] = [r EXCEPT !.active = FALSE]]
      trapped == v = Nil /\ Active(t).trap
      result  == IF v = Nil THEN None ELSE v
  IN  /\ except' = Popped(trapped)
      /\ IF below = <<>>
         THEN /\ co' = [stopped EXCEPT ![c].spawned = FALSE]
              /\ cstack' = [cstack EXCEPT ![t] = below]
         ELSE IF Last(below).native
         THEN /\ co' = stopped
              /\ cstack' = [cstack EXCEPT ![t] =
                   Append(Front(below), [Last(below) EXCEPT !.failing = v = Nil /\ ~ trapped])]
         ELSE /\ co' = [stopped EXCEPT ![Last(below).co] = Push(Drop(@, 1), result)]
              /\ cstack' = [cstack EXCEPT ![t] = below]
      /\ UNCHANGED start

(* The parameters stay to be matched.                                      *)
MutDeliver(r, v) ==
  IF v = Nil THEN r
  ELSE IF r.param = "no" THEN Push(r, v)
  ELSE [r EXCEPT !.runtime.args = IF r.param = "bind" THEN <<v>> ELSE @]

(* NULL is taken for an argument.                                          *)
MutDeliverNull(r, v) == IF r.param = "no" THEN Push(r, v) ELSE r

(* How a loop takes the argument it is started with.                       *)
Deliver(r, v) ==
  IF v = Nil THEN r
  ELSE IF r.param = "no" THEN Push(r, v)
  ELSE [r EXCEPT !.param = "no",
                 !.runtime.args = IF r.param = "bind" THEN <<v>> ELSE @]

Execute(r, v) == Deliver([r EXCEPT !.active = TRUE], v)

----------------------------------------------------------------------------
(* Instructions.                                                           *)

PushValue(t) == Ink(t) /\ \E v \in Arg : Local(t, Push(Current(t), v))

PopValue(t) == Ink(t) /\ Avail(Current(t)) >= 1 /\ Local(t, Drop(Current(t), 1))

(* PUSH_BLOCK leaves all values of the block below, PUSH_BLOCK_S1 all but  *)
(* the top, PUSH_BLOCK_AT the number it is given.                          *)
PushBlock(t) ==
  /\ Ink(t)
  /\ \E k \in 0..Avail(Current(t)) :
       Local(t, [Current(t) EXCEPT !.blocks = Append(@, [sp |-> k, catch |-> FALSE]),
                                   !.runtime.bp = @ + k])

PopBlock(t) == Ink(t) /\ Local(t, LeaveBlock(Current(t)))

(* POP_BLOCK_S1 takes the top value out of the block.                      *)
PopBlockSave(t) ==
  LET r == Current(t)
  IN  /\ Ink(t) /\ Avail(r) >= 1
      /\ Local(t, Push(LeaveBlock(Drop(r, 1)), TopOf(r)))

(* RPROT_SET and RPROT_CAC.                                                *)
SetCatch(t) ==
  /\ Ink(t) /\ BlockOpen(Current(t))
  /\ \E on \in BOOLEAN : Local(t, SetCatchOf(Current(t), on))

(* The arguments that are bound to parameters stay on the stack too.       *)
MutCallee(r, kind, n, base) ==
  Enter(r, kind, n, 1 + base, IF kind = "ink" THEN Taken(r, n) ELSE <<>>)

(* The function with n arguments on top of r is entered.  One with         *)
(* parameters is taken off the stack with its arguments, the others return *)
(* to the words below it.                                                  *)
Callee(r, kind, n, base) ==
  IF kind = "ink" THEN Enter(Drop(r, n + base + 1), kind, 0, 0, Taken(r, n))
  ELSE Enter(r, kind, n, 1 + base, <<>>)

(* INVOKE and INVOKE_BASE on n arguments.                                  *)
Invoke(t) ==
  LET r == Current(t)
      c == Active(t).co
  IN  /\ Ink(t)
      /\ \E kind \in Kind, n \in 0..2, base \in 0..1 :
           /\ Avail(r) >= n + base + 1
           /\ SetCoro(t, [Callee(r, kind, n, base) EXCEPT !.hasNative = @ \/ kind = "native"])
           /\ cstack' = IF kind # "native" THEN cstack
                        ELSE [cstack EXCEPT ![t] = Append(@, CFunction(c, r.hasNative, FALSE))]
      /\ UNCHANGED <<start, except>>

(* The call that runs ends with value v.                                   *)
Returned(t, r, v) ==
  LET s == LeaveFrame(r)
  IN  IF r.frames = <<>> THEN End(t, [s EXCEPT !.alive = FALSE], v)
      ELSE IF s.runtime.native THEN End(t, s, v)
      ELSE Local(t, Push(s, v))

Return(t) ==
  LET r == Current(t)
  IN  Ink(t) /\ Returned(t, r, IF Avail(r) = 0 THEN None ELSE TopOf(r))

(* The value is taken before the check, and lost if it fails.              *)
YieldsFail(r) == r.hasNative

(* The word that leaves the exception in the block, or goes for a catch.   *)
Raised(t, r, v) ==
  IF Caught(r)
  THEN Local(t, Push(SetCatchOf(r, FALSE), v))
  ELSE /\ SetCoro(t, r) /\ except' = v
       /\ cstack' = [cstack EXCEPT ![t] = Append(Front(@), [Active(t) EXCEPT !.failing = TRUE])]
       /\ UNCHANGED start

(* Quirk "spawn": a coroutine yields that a thread has started without     *)
(* matching its parameters; the next value it is resumed with goes there.  *)
Yield(t) ==
  LET r == Current(t)
  IN  /\ Ink(t) /\ Avail(r) >= 1
      /\ IF YieldsFail(r) THEN Raised(t, Drop(r, 1), Exc)
         ELSE /\ r.spawned => r.param = "no" \/ "spawn" \in Quirks
              /\ End(t, Drop(r, 1), TopOf(r))

Raise(t) ==
  LET r == Current(t)
  IN  Ink(t) /\ Avail(r) >= 1 /\ Raised(t, Drop(r, 1), TopOf(r))

(* An operator fails (EXCEPTION).  When the block catches it, the          *)
(* exception stays in state->except: quirk "fault".                        *)
Fault(t) ==
  LET r == Drop(Current(t), 2)
  IN  /\ Ink(t) /\ Avail(Current(t)) >= 2
      /\ IF Caught(r)
         THEN /\ "fault" \in Quirks
              /\ SetCoro(t, Push(SetCatchOf(r, FALSE), Exc))
              /\ except' = Exc /\ UNCHANGED <<cstack, start>>
         ELSE Raised(t, r, Exc)

Fork(t) ==
  LET r == Current(t)
  IN  /\ Ink(t) /\ Avail(r) >= 1
      /\ \/ Raised(t, Drop(r, 1), Exc)      \* no function, or a native one
         \/ \E d \in Coro, param \in {"bind", "drop"} :
              /\ co[d] = Nil
              /\ co' = [co EXCEPT ![d] = Root(param),
                                  ![Active(t).co] = Push(Drop(@, 1), TopOf(r))]
              /\ UNCHANGED <<cstack, start, except>>

(* No check that the coroutine is not running.                             *)
MutResumable(r) == r # Nil /\ r.alive /\ ~ r.spawned
Resumable(r)    == CanResume(r)

(* Quirk "reenter": the coroutine to resume is on a C stack but not        *)
(* active any more, because native code in it has called back.             *)
Resume(t) ==
  LET r == Current(t)
      s == Drop(r, 1)
      c == Active(t).co
  IN  /\ Ink(t) /\ Avail(r) >= 2
      /\ \/ Raised(t, s, Exc)               \* it is no coroutine
         \/ \E d \in Coro :
              /\ co[d] # Nil
              /\ IF ~ Resumable(co[d]) THEN Raised(t, s, Exc)
                 ELSE /\ OnStack(d) /\ ~ co[d].active => "reenter" \in Quirks
                      /\ co' = [co EXCEPT ![c] = s, ![d] = Execute(IF d = c THEN s ELSE @, TopOf(r))]
                      /\ cstack' = [cstack EXCEPT ![t] = Append(@, Loop(d, TRUE))]
                      /\ UNCHANGED <<start, except>>

(* One step of an exception in the interpreter: a block catches it, or the *)
(* block is left, or the frame.                                            *)
Unwind(t) ==
  LET r       == Current(t)
      s       == LeaveFrame(r)
      settled == [cstack EXCEPT ![t] = Append(Front(@), [Active(t) EXCEPT !.failing = FALSE])]
  IN  /\ Interp(t) /\ Active(t).failing
      /\ IF Caught(r)
         THEN /\ SetCoro(t, Push(SetCatchOf(r, FALSE), except))
              /\ cstack' = settled /\ except' = Nil /\ UNCHANGED start
         ELSE IF BlockOpen(r) THEN Local(t, LeaveBlock(r))
         ELSE IF r.frames = <<>> THEN End(t, [s EXCEPT !.alive = FALSE], Nil)
         ELSE IF s.runtime.native THEN End(t, s, Nil)
         ELSE Local(t, s)

----------------------------------------------------------------------------
(* Native code.                                                            *)

(* It returns a value.                                                     *)
NativeReturn(t) ==
  LET a     == Active(t)
      r     == Current(t)
      below == Front(cstack[t])
  IN  /\ Native(t)
      /\ \E v \in Arg :
           co' = [co EXCEPT ![a.co] =
             IF a.byCall THEN PopFrame(r)
             ELSE Push([LeaveFrame(r) EXCEPT !.hasNative = a.saved], v)]
      /\ cstack' = [cstack EXCEPT ![t] = below]
      /\ UNCHANGED <<start, except>>

(* It sets an exception ...                                                *)
NativeFail(t) ==
  /\ Native(t)
  /\ except' = Exc
  /\ cstack' = [cstack EXCEPT ![t] = Append(Front(@), [Active(t) EXCEPT !.failing = TRUE])]
  /\ UNCHANGED <<co, start>>

(* has_native stays set when a native function fails.                      *)
MutRestore(r, a) == r
Restore(r, a)    == [r EXCEPT !.hasNative = a.saved]

(* ... and returns NULL, as it does when a function it has called fails.   *)
NativeUnwind(t) ==
  LET a     == Active(t)
      below == Front(cstack[t])
  IN  /\ cstack[t] # <<>> /\ a.native /\ a.failing
      /\ SetCoro(t, IF a.byCall THEN PopFrame(Current(t)) ELSE Restore(Current(t), a))
      /\ cstack' = [cstack EXCEPT ![t] =
           Append(Front(below), [Last(below) EXCEPT !.failing = TRUE])]
      /\ UNCHANGED <<start, except>>

(* It calls back with ivm_coro_call: the arguments are pushed for a native *)
(* function; one for any other is taken as the argument of the loop, two   *)
(* are matched or pushed.  eval and import run a root function in          *)
(* ivm_coro_resume, which traps.                                           *)
(* Quirk "callback": one argument for a function with parameters, which    *)
(* the loop pushes and does not bind (coro.c:592).  Quirk "spawn": one for *)
(* a coroutine that a thread has started without matching its own.         *)
NativeCall(t) ==
  LET r == Current(t)
      c == Active(t).co
      Begin(kind, args) ==
        LET s == Enter(r, kind, 0, 0, IF kind = "ink" /\ Len(args) = 2 THEN args ELSE <<>>)
        IN  CASE Len(args) = 0 -> Execute(s, Nil)
              [] Len(args) = 1 -> Execute(s, args[1])
              [] OTHER -> Execute(IF kind = "ink" THEN s ELSE PushAll(s, args), Nil)
  IN  /\ Native(t)
      /\ \E kind \in Kind, n \in 0..2 : \E args \in [1..n -> Arg] :
           IF kind = "native"
           THEN /\ SetCoro(t, PushAll(Enter(r, kind, 0, 0, <<>>), args))
                /\ cstack' = [cstack EXCEPT ![t] = Append(@, CFunction(c, FALSE, TRUE))]
           ELSE /\ n = 1 => /\ kind = "legacy" \/ "callback" \in Quirks
                            /\ r.spawned => r.param = "no" \/ "spawn" \in Quirks
                /\ \E trap \in {FALSE} \cup {kind = "ink" /\ n = 0} :
                     cstack' = [cstack EXCEPT ![t] = Append(@, Loop(c, trap))]
                /\ SetCoro(t, Begin(kind, args))
      /\ UNCHANGED <<start, except>>

(* mthread.spawn.  Quirk "spawn": an argument for a coroutine that has     *)
(* parameters to be matched; it is pushed and they stay as they are.       *)
Spawn(t) ==
  /\ Native(t)
  /\ \E d \in Coro, u \in Thread \ {MainThread}, arg \in Arg \cup {Nil} :
       /\ CanResume(co[d]) /\ cstack[u] = <<>> /\ start[u] = Nil
       /\ OnStack(d) /\ ~ co[d].active => "reenter" \in Quirks
       /\ arg # Nil => co[d].param = "no" \/ "spawn" \in Quirks
       /\ co' = [co EXCEPT ![d] = [IF arg = Nil THEN @ ELSE Push(@, arg) EXCEPT !.spawned = TRUE]]
       /\ start' = [start EXCEPT ![u] = d]
  /\ UNCHANGED <<cstack, except>>

(* _ivm_vmstate_spawnThread_c, once it has the lock.                       *)
ThreadStart(u) ==
  /\ start[u] # Nil /\ NoneFailing
  /\ co' = [co EXCEPT ![start[u]] = Execute(@, Nil)]
  /\ cstack' = [cstack EXCEPT ![u] = <<Loop(start[u], TRUE)>>]
  /\ start' = [start EXCEPT ![u] = Nil]
  /\ UNCHANGED except

----------------------------------------------------------------------------
(* The bounds: values, calls and blocks of all coroutines together, depth  *)
(* of a C stack.                                                           *)
Total(Size(_)) ==
  FoldSet(LAMBDA c, n : n + Size(co'[c]), 0, {c \in Coro : co'[c] # Nil})

Within ==
  /\ Total(LAMBDA r : Len(r.mem)) <= MaxMem
  /\ Total(LAMBDA r : Len(r.frames)) <= MaxFrames
  /\ Total(LAMBDA r : Len(r.blocks)) <= MaxBlocks
  /\ \A t \in Thread : Len(cstack'[t]) <= MaxDepth

Step(t) ==
  \/ PushValue(t) \/ PopValue(t) \/ PushBlock(t) \/ PopBlock(t) \/ PopBlockSave(t)
  \/ SetCatch(t) \/ Invoke(t) \/ Return(t) \/ Yield(t) \/ Raise(t) \/ Fault(t)
  \/ Fork(t) \/ Resume(t) \/ Unwind(t)
  \/ NativeReturn(t) \/ NativeFail(t) \/ NativeUnwind(t) \/ NativeCall(t) \/ Spawn(t)
  \/ ThreadStart(t)

Next == \E t \in Thread : Step(t) /\ Within

Spec == Init /\ [][Next]_vars

----------------------------------------------------------------------------
(* The state is well typed: no pointer falls below the bottom, no word     *)
(* above sp and no NULL becomes a value, dump fits into its two bits.      *)
TypeOK ==
  /\ co \in [Coro -> CoroSet \cup {Nil}]
  /\ cstack \in [Thread -> Seq(Activation)]
  /\ start \in [Thread -> Coro \cup {Nil}]
  /\ except \in Values \cup {Nil}

(* The calls of a coroutine from its root to the one that runs, and the    *)
(* address at which the values of call i end.                              *)
Calls(r)   == Append(r.frames, r.runtime)
EndOf(r, i)  == IF i = Len(Calls(r)) THEN Sp(r) ELSE Calls(r)[i + 1].rbp - Calls(r)[i + 1].dump
LastBlock(r, i) == IF i = Len(Calls(r)) THEN Len(r.blocks) ELSE Calls(r)[i + 1].bcur
NBlocks(r, i) == LastBlock(r, i) - Calls(r)[i].bcur

(* Where block j of call i starts, 0 being the frame itself.               *)
BlockStart(r, i) ==
  LET f == Calls(r)[i]
      at[j \in 0..NBlocks(r, i)] ==
        IF j = 0 THEN f.rbp ELSE at[j - 1] + r.blocks[f.bcur + j].sp
  IN  at

(* An exception is on its way through thread t.                            *)
Unwinding(t) == cstack[t] # <<>> /\ Active(t).failing

(* Every pointer into the value stack of a live coroutine, of its running  *)
(* call and of all callers, lies in the array as it is now, after any      *)
(* number of moves; calls and blocks are nested: the bp of each call is    *)
(* its rbp plus what its open blocks have left below them, and its values  *)
(* end before those of the next.                                           *)
Nested ==
  \A c \in Coro : co[c] # Nil /\ co[c].alive =>
    LET r == co[c]
    IN  /\ Len(r.mem) < r.size
        /\ \A i \in DOMAIN Calls(r) :
             /\ r.bottom <= Calls(r)[i].rbp /\ NBlocks(r, i) >= 0
             /\ Calls(r)[i].bp = BlockStart(r, i)[NBlocks(r, i)]
             /\ Calls(r)[i].bp <= EndOf(r, i)

(* has_native, which forbids a coroutine to yield, is set as long as it has*)
(* native code in progress and no longer, however that code ends.          *)
NativeFlagExact ==
  \A c \in Coro :
    /\ co[c] # Nil /\ co[c].alive
    /\ \A t \in Thread : Unwinding(t) => Active(t).co # c
    => (co[c].hasNative <=> \E i \in DOMAIN Calls(co[c]) : Calls(co[c])[i].native)

(* A function with parameters finds its arguments in them: it begins with  *)
(* no values of its own, called by an instruction, by an operator or by    *)
(* native code (comment in vm/obj.c on calling an operator by name).  Not  *)
(* so when native code passes one argument: quirk "callback".              *)
ArgumentsBound ==
  [][\A c \in Coro :
       /\ co[c] # Nil /\ Len(co'[c].frames) = Len(co[c].frames) + 1
       /\ co'[c].runtime.param
       => Avail(co'[c]) = 0]_vars

(* A coroutine that is being executed is not resumed: all that is active   *)
(* for it on a C stack is one resume and the callbacks of its own native   *)
(* code (IVM_ERROR_MSG_CORO_UNABLE_RESUME).                                *)
NotReentered ==
  \A t \in Thread : \A i, j \in DOMAIN cstack[t] :
    i < j /\ cstack[t][i].co = cstack[t][j].co
      => cstack[t][j].native \/ cstack[t][j - 1].native

(* An exception that has been caught or printed is forgotten: ivm_mod_load *)
(* takes one that is set for the reason why loading has failed.            *)
CaughtIsForgotten == except # Nil => \E t \in Thread : Unwinding(t)

(* An exception does not travel for ever: it meets a catch, native code    *)
(* that traps it, or the end of the coroutine.                             *)
ExceptionsEnd == \A t \in Thread : Unwinding(t) ~> ~ Unwinding(t)

(* The loop goes on with an exception: nothing can hold it up.             *)
FairSpec ==
  Spec /\ \A t \in Thread : WF_vars((Unwind(t) \/ NativeUnwind(t)) /\ Within)

(* The abstract state.                                                     *)
CallsOf(r) ==
  [i \in DOMAIN Calls(r) |->
    LET f  == Calls(r)[i]
        at == BlockStart(r, i)
        n  == NBlocks(r, i)
    IN  [native |-> f.native, args |-> f.args,
         blocks |-> [j \in 1..n + 1 |->
           [vals  |-> SubSeq(r.mem, at[j - 1] - r.bottom + 1,
                             (IF j = n + 1 THEN EndOf(r, i) ELSE at[j]) - r.bottom),
            catch |-> j > 1 /\ r.blocks[f.bcur + j - 1].catch]]]]

(* The coroutines that a C stack s has begun or gone on with, without the  *)
(* native functions.                                                       *)
LoopsOf(s) ==
  LET loops[n \in 0..Len(s)] ==
        IF n = 0 THEN <<>>
        ELSE IF s[n].native THEN loops[n - 1]
        ELSE Append(loops[n - 1], [co |-> s[n].co, trap |-> s[n].trap])
  IN  loops[Len(s)]

ShownCalls == [c \in Coro |-> IF co[c] = Nil THEN Nil
                             ELSE IF co[c].alive THEN CallsOf(co[c]) ELSE <<>>]
ShownFresh == [c \in Coro |-> IF co[c] = Nil \/ OnStack(c) THEN "no"
                             ELSE IF co[c].alive THEN co[c].param ELSE "no"]
ShownChain == [t \in Thread |-> LoopsOf(cstack[t])]
Somewhere     == \E t \in Thread : Unwinding(t)
ShownExcept   == IF Somewhere THEN except ELSE Nil
ShownFailing  == IF Somewhere THEN CHOOSE t \in Thread : Unwinding(t) ELSE Nil

Model == INSTANCE CallModel WITH
  call    <- ShownCalls,
  fresh   <- ShownFresh,
  chain   <- ShownChain,
  except  <- ShownExcept,
  failing <- ShownFailing

(* One flat stack with saved pointers, block counts and has_native flags   *)
(* implements nested calls and blocks: every instruction, callback, yield, *)
(* resume and exception does to the stacks what it does to the nest.       *)
Nests == Model!Spec
=============================================================================
