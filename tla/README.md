# A TLA+ model of ivm

ivm (`src/`) is a virtual machine for the prototype-based language *ink*: a
direct-threaded bytecode interpreter with coroutines, operating-system threads
under one global lock, a generational copying collector, inline caches, an
assembler, a parser and code generator for ink, and a set of native modules.
This directory holds the specifications kept beside that code, the TLC models
that check them, and the TLAPS proofs of what holds for every instance.

Contents: [the system](#1-the-system) ·
[modules](#2-modules-and-how-they-compose) ·
[threads](#3-threads) · [collector](#4-collector) ·
[coroutines](#5-coroutines-calls-and-exceptions) ·
[slots](#6-slots-and-instruction-caches) · [ink](#7-the-ink-front-end) ·
[modules](#8-the-module-loader-and-cache-files) ·
[runs](#9-runs-bounds-and-what-they-show) · [proofs](#10-proofs) ·
[disagreements](#11-where-code-and-comments-disagree) ·
[not modelled](#12-what-is-not-modelled) · [plan](#13-plan)

`PROJECT.json` is the index: `components`, `runs`, `map` (definition to source
lines), `mutants` (for each checked property a plausible bug in one definition
that breaks it), `hazards`, `findings` and `theorems`.

## 1. The system

| part | code | state | operations |
|---|---|---|---|
| threads and global lock | `vm/vm.c`, `vm/vm.h`, `std/thread.c`, `mod/mthread` | `thread_gil`, `int_lock`, `thread_csl`, `int_buf`/`int_next`/`int_head`, `has_int`, `gc_flag`, `thread_set`, `join_start`, `thread_enabled`, the clock thread | setInt, popInt, openGCFlag, enableThread, spawnThread, threadStart/Yield/End, joinAllThread, the loop of the clock |
| asynchronous io | `mod/aio` | a descriptor | `aio.read` polls and yields the lock between polls |
| collector and heaps | `vm/gc.c`, `vm/gc.h`, `std/heap.c` | three heaps, `gen`, `wb_obj`/`wb_slot`/`wb_ctx`, `des_log`, write barrier bits, forwarding pointers | collect (partial, full), the barriers, triggerDestructor, heap reset |
| objects, prototypes, slot tables | `vm/obj.c`, `vm/slot.*`, `vm/inline/slot.h`, `vm/proto.c` | prototype, slot table, `shared`/`no_cow` marks, operator slots | new, clone, merge, get/setSlot, setProto, copyOnWrite |
| contexts and functions | `vm/context.*`, `vm/func.*` | slots or tied object, parent, reference count; the scope of a function | append, free, loc, top, call, destructor, cloner |
| coroutines, calls, blocks, exceptions | `vm/coro.*`, `vm/vmstack.*`, `vm/call.*`, `vm/block.h`, `vm/runtime.h`, `vm/opcode.def.invoke.h` | value stack, frame stack, block stack, `has_native`, `active`, `spawned`, `param`, `state->except`; the C stack | invoke, return, fork, resume, yield, raise, catch, callbacks |
| data instructions | `vm/opcode.def.h`, `vm/oprt.*` | none of their own | arithmetic, comparison, slot and stack instructions |
| inline caches | `vm/instr.*`, `vm/inline/slot.h`, `vm/vm.c` | per instruction a table uid and a slot; `st_uid_gen` | lookup, fill, reset of uids |
| module loader | `vm/mod/mod.c`, `mod/mod` | `loaded_mod`, search paths, `cur_path`, `func_list` | import, path search, suffix handlers |
| built-in types | `vm/listobj.c`, `vm/strobj.c`, `vm/range.c`, `vm/buf.c`, `vm/num.c`, ... | per type | growth, slices, indices, conversion |
| native builtins | `vm/native/*` | none of their own | the methods ink sees |
| bytecode and serialization | `vm/exec.*`, `util/serial.c`, `util/opt.c` | instruction and string lists, cache files | optimise, encode, decode, merge |
| containers, strings, pools | `std/list.c`, `std/hash.c`, `std/pool.c`, `std/string.c`, `std/mem.c` | free lists, pools | alloc, free, register |
| conversions and encodings | `std/conv.c`, `std/enc.c`, `std/path.c`, `std/bmp.c` | none | pure functions |
| ink front end | `front/ink/*`, `util/parser.*` | tokens, parse tree, the environment of the generator, code | tokenize, parse, check, generate; the end of `main` |
| assembler | `front/ias/*` | labels, code | parse, generate |
| utilities, native modules, OS wrappers | `util/*`, `mod/*`, `std/io.c`, `std/sys.c`, `vm/env.c`, `vm/dbg.c` | descriptors | input and output |

How the parts interact. All bytecode, the collector and all native functions
run under `thread_gil`. The only requests that cross threads go through the
interrupt buffer: an allocation that needs a new heap block pushes a GC
interrupt, the clock thread pushes THREAD_YIELD, and the interpreter tests
`has_int` between two instructions and then collects or gives the lock up.
The interpreter, native functions and the mutators of `vm/obj.c` share the
object graph with the collector through the write barriers. Native functions
call back into the interpreter (`ivm_coro_call`, `import`, `eval`), which nests
a new interpreter loop on the C stack of the thread. `import` is such a
function: it searches the module, compiles the source (front end, optimiser) or
reads a cache file, merges the code into the function list of the machine, and
runs its root; other threads go on meanwhile. The instructions of the machine
find slots with the caches that they carry.

What is hard here, and what makes each part correct:

* *Threads*. A flag and its `has_int` are written in two steps; the clock
  spins on `thread_csl`; the ring drops its oldest flag; the last join must
  leave one thread alone. Correct: nobody runs without the lock, no interrupt
  is lost or left unnoticed, preemption never stops, nothing runs after free.
* *Collector*. Every store must tell the collector what it needs to know, over
  any sequence of clones, writes and collections. Correct: nothing dangles, the
  remembered set is complete, scopes are counted exactly, and a program cannot
  tell that cells move or are shared.
* *Coroutines*. One flat array that moves holds the values of all calls; an
  exception crosses blocks, frames and native code; a C stack nests loops of
  several coroutines. Correct: what the flat array and the flags do is what
  nested calls would do, and no coroutine runs twice.
* *Slot tables and inline caches*. A table is linear, then hashed, keeps deleted
  keys, is shared and copied, and an instruction skips the search if the number
  of the table is the one it remembers. Correct: a number never means something
  else by the time it is met again, and objects are functions from names to
  values.
* *The ink front end*. The parser decides by order of alternatives and gives back
  tokens; the generator emits jumps before it knows where to, counts open blocks
  and leaves values on the stack for its parent; the optimiser moves jumps.
  Correct: the code performs what the text means, in its order, and every way to
  an instruction has the same blocks open.
* *Loader and cache files*. The current path belongs to all threads, a module is
  marked before it runs, imports nest, fail and go round in circles, a cache file
  may be half written. Correct: a thread is always in its own directory, marks
  say what is being loaded, functions are those of their own module, only a
  whole cache file runs, every import ends.
* *Heap blocks, pools, built-in types, conversions*: sequential; see
  [what is not modelled](#12-what-is-not-modelled).

## 2. Modules and how they compose

| module | kind | what it is |
|---|---|---|
| `IntRing` | pure operators | the interrupt buffer with its wrapping indices |
| `IntStack` | abstract spec | what the buffer promises: a bounded stack that forgets its oldest flag |
| `Threads` | detailed spec, EXTENDS IntRing | threads, locks, interrupts, clock, join; refines IntStack |
| `ThreadsProof` | theorems, EXTENDS Threads | the ring implements `IntStack`, the lock is exclusive, no interrupt is lost, join and free |
| `MCThreads` | TLC values | sets of threads |
| `ObjectModel` | abstract spec | objects and scopes as a program may think of them |
| `Collector` | detailed spec | heaps, barriers, shared tables, counted scopes, collection; refines ObjectModel |
| `MCCollector` | TLC values | symmetry |
| `CollectorHeapProof` | lemmas, EXTENDS Collector | types, the inductive invariant, what an instruction may write, counts; every step of a collection keeps the invariant |
| `CollectorProof` | theorems, EXTENDS CollectorHeapProof | sharing of tables, what follows from the invariant, and what a program sees: the refinement of `ObjectModel` |
| `CallModel` | abstract spec | calls, blocks, exceptions and coroutines as nests |
| `Coro` | detailed spec | the three stacks, flags and C stacks; refines CallModel |
| `MCCoro` | TLC values | |
| `CoroStackProof` | lemmas, EXTENDS Coro | one coroutine: saved pointers while it pushes, calls, returns and grows; one C stack and the coroutines on it; the nested calls that a coroutine shows |
| `CoroProof` | theorems, EXTENDS CoroStackProof | what a step does to those calls; all C stacks: the invariant of `Coro` and what follows from it |
| `CoroNestProof` | theorem, EXTENDS CoroProof | the refinement of `CallModel`, action by action |
| `SlotModel` | abstract spec | objects as functions from keys to values with prototypes |
| `Slots` | detailed spec | tables, sharing, numbers of tables, caches of instructions; refines SlotModel |
| `SlotsProof` | theorems, EXTENDS Slots | searching and growing tables, numbers and caches, the refinement of `SlotModel` |
| `MCSlots` | TLC values | a hash under which all keys collide |
| `Peg`, `Tokenizer` | pure operators | the engines of `util/parser`: rules with alternatives, the automaton of the tokens |
| `InkLexer`, `InkParser` | pure operators, EXTEND Tokenizer, Peg | the tokens and the grammar of ink |
| `InkTree` | pure operators | which trees the generator expects |
| `Optimizer` | pure operators | the passes of `util/opt.c` |
| `InkGen` | pure operators, EXTENDS InkLexer and Optimizer, INSTANCE of InkParser | from the tree to code |
| `InkSemantics` | abstract spec (an operator) | what a tree means: operations in their order and a result |
| `InkMachine` | detailed spec, EXTENDS InkSemantics | runs the code of InkGen against InkSemantics |
| `MCInk` | TLC values | the programs |
| `Serial` | pure operators | units, their string pools, the order of a cache file, reading a part of one |
| `Compiler` | pure operators, EXTENDS Serial, INSTANCE of InkGen | from a text to a unit |
| `Modules` | detailed spec | import, paths, marks, the function list, threads |
| `ModulesProof` | theorems, EXTENDS Modules | the current path, the marks, what is taken of cache files, whose functions a module makes |
| `MCModules` | TLC values, EXTENDS Modules and Compiler | a program and its files, compiled and serialized |

`Threads`, `Collector`, `Coro` and `Slots` name their abstract module with
`INSTANCE ... WITH` and a refinement mapping, and a run checks the abstract
specification as a PROPERTY. `InkMachine` is held against `InkSemantics` by an
invariant: the trace of the run so far must be one the meaning allows, which it
evaluates again from the trace. The front end is composed of pure operators in
the order of the program: text → `InkLexer` → `InkParser` → `InkGen` →
`Optimizer` → code; `Compiler` makes of it the unit that `Serial` writes and
reads, and `MCModules` the files that `Modules` loads, so that what an import
runs is what the modelled compiler made of the text of the module.

Threads, collector and calls meet at one boundary: `Threads` says *when* a thread
may be between two instructions with the lock and when a collection runs,
`Collector` what a collection and the object instructions do, `Coro` what the
calling instructions do to the stacks. `Collector` and `Coro` rely on
`Threads!GILExclusive`: their actions are whole instructions because no other
thread is inside the lock. They are not put into one state space: the object
graph and the stacks only share the roots (`stack` in Collector, which may hold
any live object at any time, stands for every stack of `Coro`). `Slots` looks
inside the tables that are cells in `Collector`, and takes from it that a
collection moves tables, any of them in a partial one. `Modules` takes from
`Threads` that a thread waiting for the lock gets it, under the conditions of
`Scheduled`.

Conventions. An action is one instruction, one handler, or, where no lock
protects it, one statement whose effect another thread can see. A definition
named `MutX` or `X_Variant` before `X` is a variant of `X` with a plausible bug;
it occurs in no behaviour and is used only to see that a property notices it. Bounds
are CONSTANTS whose comment says "bound".

## 3. Threads

State. `ring` is `int_buf` with `int_next` and `int_head`; `hasInt`, `gcFlag`,
`enabled`, `tset`, `joinStart` are the fields of the VM state; `intLock` and
`gil` name the owner of `int_lock` and `thread_gil`, `csl` is `thread_csl`.
`pc[t]` is where a thread is between two statements that others can observe
(the header of the module lists them), `reg[t]` the flag it has popped, `clock`
where the clock thread is.

| code | actions |
|---|---|
| `ivm_vmstate_openGCFlag`, `setInt` in an allocation | `OpenGC`, `OpenGCFlag`, then the store to `has_int` |
| the test of `has_int` between two instructions; `popInt` | `NextInstr`, `PopNothing`, `PopInt`, `PopReset`, `PopKeep`, `PopClear` |
| INTR: `doGC`, an unknown flag, `threadYield` | `DoGC`, `IgnoreInt`, `YieldGIL`, `SetCSL`, `Wake` |
| `mthread.spawn`, `spawnThread`, the main function of a spawned thread, `threadEnd` | `Spawn`, `Start`, `Leave`, `Exit` |
| `enableThread` | `CreateClock`, `Enable` |
| `joinAllThread` from `mthread.join` and from the end of `main` | `Join`, `FinalJoin`, `NoFinalJoin`, `PollDone`, `JoinReturn`, `CancelClock`, `ClockJoined` |
| the loop of the clock thread | `ClockTick`, `ClockFlag`, `ClockSeesCSL`, `ClockUnsetCSL`, `ClockCancelled` |
| `aio.read` | `AioYield` |

Two details that the model keeps because they matter: `int_lock` is taken only
if `thread_enabled` (`IntLockBy`), and `popInt` returns from an empty ring with
the lock still held (`PopNothing`). `EarlyClock` says whether the 10 ms sleep of
the clock may be over before its creator has stored `thread_enabled`. Reads of
`has_int` and `thread_csl` without a lock are atomic reads of a byte: the values
stored to them are 0 and 1, so a torn read does not exist.

Fairness. Weak fairness for a thread in the middle of handling an interrupt,
for the clock and for the polling loop: these statements end. Strong fairness for
the locking steps (the holder lets go for a millisecond, in which a waiting
thread gets the lock) and for `ClockTick`, `CancelClock` and `Start`, which wait
for a lock another thread takes and releases. No fairness for spawning, joining,
ending, or for testing `has_int` (`NextInstr`): a script may compute for ever, and
`while true {}` compiles to POP_ALL, GET_CONTEXT_SLOT, JUMP_FALSE and JUMP, which
end in `NEXT_INSTR_NINT` or `GOTO_SET_INSTR` and never test it, so that the other
threads starve. The code does not promise that a waiting thread runs; `Scheduled`
says under which conditions it does, in its own statement: the running threads
come to a test of `has_int` again, and while no collection is pending (`Tests`);
the ring is never filled with GC interrupts alone, which drop the THREAD_YIELD
(`Room`); and GC interrupts run out again and again (`Drains`), since flags are
popped youngest first. TLC finds a thread that starves when any one of the three is
left out. How the ring can come to be filled is not bounded: `openGCFlag` pushes
without looking, and `ClockReleased` says that this is the only way the
THREAD_YIELD of the clock is lost.

## 4. Collector

State. An address is `<<identity, space>>`, space 0 the nursery, 1 and 2 the two
old heaps; copying keeps the identity, so forwarding is a change of space. `obj`
and `tab` hold a cell for every address; a reset heap has dead cells, and a
reference to a dead cell is a dangling pointer. `ctx` holds the contexts, which
do not move and are counted. `wbObj`, `wbSlot`, `wbCtx`, `desLog` are the lists
of the collector, `phase`, `todo...`, `visited`, `dying`, `freeing` the progress
of a collection.

| code | actions |
|---|---|
| `ivm_object_new`, `clone`, `merge`, `setSlot`, `getSlot`, `SET_PROTO` | `NewObject`, `Clone`, `Merge`, `SetSlot`, `GetSlot`, `SetProto` |
| `copyOnWrite`, barriers `IVM_WBOBJ`/`WBSLOT`/`WBCTX` | `Owned`, `CopiedBarrier`, `TakeTable`, `Remember`, `Barred`, `CtxBarrier` (operators used by every store) |
| local slots, `loc` (read and assigned) | `SetLocalSlot`, `GetLocalSlot`, `GetObject`, `GetObjectAgain`, `SetObject` |
| FUNC, INVOKE, RETURN as far as scopes go, `ivm_context_free` | `NewFunction`, `Call`, `CallNative`, `Return`, `ContextFree` |
| `ivm_collector_collect` | `TravState`, `CopyObject`, `CopySlotTable`, `TravContext`, `CheckWriteBarrier`, `CheckContext`, `TriggerDestructor`, `Destruct`, `ResetHeaps` |
| `addWildSize`, which asks for a full collection | `AddWildSize` |

Abstractions. The recursion of the collector is replaced by work lists, in
which objects go before tables and tables before contexts; the order does not
matter to what is copied. `skip_time` and `live_ratio` make a call of collect a
no-op: that is a behaviour in which `TravState` is not taken. All variants of
`setSlot` pass the same barrier and are one action. `IVM_WBCORO` is never called
in the code, and every coroutine of `coro_set` is a root: values on stacks are
the bag `stack`. Sizes inside a heap are left out.

## 5. Coroutines, calls and exceptions

State. `co[c]` is a coroutine: `mem` the words of its value stack below `sp`,
`bottom` the address of the first, `size` the length of the array; `runtime` and
`frames` the calls with `bp`, rbp, `bcur` and `dump`, `blocks` the block stack;
the flags `active`, `hasNative`, `spawned`, and `param` for parameters still to be
matched. `Enlarge` gives the array another address, so any pointer that is not
moved along is wrong from then on. `cstack[t]` is the C stack of thread t: the
interpreter loops and native functions in it. `except` is `state->except`.

| code | actions |
|---|---|
| stack and block instructions, `RPROT_SET` and `RPROT_CAC` | `PushValue`, `PopValue`, `PushBlock`, `PopBlock`, `PopBlockSave`, `SetCatch` |
| INVOKE and its variants, `ivm_function_invoke` | `Invoke` |
| RETURN, end of a function, YIELD, FORK, RESUME | `Return`, `Yield`, `Fork`, `Resume` |
| RAISE, an exception made by an instruction | `Raise`, `Fault` |
| the exception path of `ivm_coro_execute_c` and `ivm_coro_handleException` | `Unwind`, `NativeUnwind` |
| a native function: returns, fails, calls ink code back, spawns | `NativeReturn`, `NativeFail`, `NativeCall`, `Spawn` |
| the first step of a spawned thread | `ThreadStart` |

A value is callable, resumable or neither as the program pleases: values are
chosen nondeterministically, functions come in three kinds (ink function with
parameters, without, and native). Threads take turns between any two actions;
an exception on its way is not interrupted, as the exception path does not test
`has_int`. Natives of two threads may interleave, which allows more than the
code does. Argument counts of native functions and the `call` operator
fallback of INVOKE are left out. The weak fairness of `FairSpec` is for the
exception path only: it is straight-line code.

`Quirks` enables programs that run into one of the disagreements of section 11:
`reenter` (resume a coroutine from below itself), `fault` (catch the exception of a
failing operator), `callback` (native code hands one argument to a function that
has parameters to match) and `spawn` (an argument for a spawned coroutine that has
parameters to match). The passing runs leave them out and show that everything else holds for programs that
avoid them, but for `coro_calls`, which has `fault` since what it checks holds with it;
`coro_reenter` shows the failure of the first, and
section 11 says which property fails with each of the others.

## 6. Slots and instruction caches

State. `tab` holds the slot tables: `cells` with a key and a value (nothing, a
value, or a key whose value was deleted), `hash`, `shared`, and the number `uid`
of the array of cells; `array` is the address of that array, which a table and
its copy never share. `obj[o]` is the table and the prototype of an object,
`uids` the generator of numbers (`st_uid_gen`), `cache[i]` what instruction i
remembers (`cc_id`, `cc_data`): the number it met last and a cell of the array.

| code | actions and operators |
|---|---|
| `ivm_object_new_t`, `ivm_object_clone` | `New`, `Clone` |
| `ivm_object_setSlot` and the instruction that uses its cache | `SetSlot`, `Knows` |
| an index or deletion through the table, without a cache | `SetIndex` |
| `SET_PROTO`, the slot `proto` by name, `ivm_object_hasProto` | `SetProto`, `SetProtoSlot`, `HasProto` |
| `ivm_object_merge`, with and without overwriting | `Merge`, `MergedTable`, `Filled` |
| `ivm_object_getSlot` and `GET_SLOT` with the cache | `getSlot`, `getSlot_cc`, `GetSlot` |
| search, insertion, expansion, turning into a hash | `At`, `Found`, `Probe`, `Assigned`, `Expanded`, `Rehash` |
| `copyOnWrite`, the state of a copy | `OwnTable`, `CopyState` |
| `initInstrCache`, and a collection as far as it renumbers tables | `Collect` |

The refinement maps a table to a function from keys to `Absent`, `Gone` or a
value, wherever the key is in the array. `Gone` is not `Absent`: a merge that does
not overwrite leaves a deleted slot deleted. What remains in a cell where nothing
was and a deletion found nothing is left to the code (`Deleted`).

Left out: operator slots (they live in the same tables under their own ids), objects
that die (their tables and numbers are not met again), tables tied to a scope
(`Collector`). The numbers start again in any collection, as in the code, but a
*partial* one that does so is the quirk `restart`, which the passing run
leaves out: see section 11.

## 7. The ink front end

The modules follow the stages of the code. `Tokenizer` is the automaton of
`util/parser.h`, `InkLexer` its states for ink; `Peg` is what the RULE macros
expand to, ordered choice, tokens given back, lists, and `InkParser` has one
definition per RULE of `front/ink/parser.c` with the alternatives in their order;
`InkTree` says which trees the generator can get. In `InkGen` each eval function of
`front/ink/gen/*` is a template, the sequence of what it does with the environment
(emit, generate a child, jump to a label, count a block), and `Generate` carries
templates out; `Optimizer` holds the passes of `util/opt.c`.

`InkMachine` runs one function of the code: `ip`, `stack`, `blocks` with their
catch. An instruction that uses an object appends an event to `trace`: its name,
its operands, and an outcome that the object chooses (a value of its own, an
exception, a truth, a length). `InkSemantics` evaluates the tree against the
trace: it asks for events in the order of the language and takes the outcomes
the run has met.

| code | actions |
|---|---|
| instructions that make values and order the stack | `New`, `Pop`, `PopAll`, `Dup`, `DupN`, `DupAbs`, `Switch2`, `EnsureNone`, `SetPaArg`, `DupPrevBlock`, `Nop` |
| slots, contexts, operators, `fork`/`yield`/`resume`, objects | `Operation` (a table of handlers) |
| INVOKE and its variants, lists, list patterns | `Invoke`, `NewList`, `ToListI`, `Unpack` |
| jumps and conditions | `Jump`, `JumpIf`, `Check`, `CheckNone`, `AssertTrue` |
| iteration, blocks, exceptions | `IterNext`, `PushBlock`, `PopBlock`, `Protect`, `RaiseI`, `PopExc`, `Return` |

Calls are events: what the callee does is its own run, from its own tree, since
every function of a program is a start state with every number of arguments. That the
calling instructions themselves are right is the business of `Coro`.

The programs of the passing run have every kind of node, but avoid what
section 11 lists: `break` and `cont` in a loop after a `try` or a starred
argument in the same body has ended, an `if` or `elif` without `else` whose value is used,
`{}` as the target of a jump, a last star pattern that gets nothing, a
`try` without `catch` that completes, and `loc.proto`. `check.c` (warnings), the
values of literals, line numbers and error messages are left out.

## 8. The module loader and cache files

State. `cur` is the current path, one for all threads; `loaded` the mark of
every module (absent, none while it is loaded, its object); `funcs` the list of
functions of the machine, to which each unit is appended with its offset; `gil` the
thread that runs; `run[t]` its call frames, with the instructions of the functions,
and, for a frame that is the root of a module, the module and the path to restore.
`home` is a history field of a frame, with which `OwnPath` compares `cur`: the directory of
the module that the frame loads, or, in the first frame of a thread, the one the
thread was started in, until a join leaves the thread in another.
`disk` is what every file loads as, for every length of it that may be there, and
`written` how much of a cache file has been written.

| code | actions |
|---|---|
| `ivm_mod_import`, `ivm_mod_load`, the source, native and cache loaders, `mergeToVM` | `Invoke` with `Import`, `Candidates`, `Merged` |
| the end of a module or function | `Return` |
| RAISE, and a loader that reports a failure | `Throw`, `Raise`, `Caught`, `Left` |
| other instructions of the compiled code | `Simple`, `Jump`, `Blocks` |
| `ivm_vmstate_threadYield` with its backup of the path, spawn | `Yield`, `Lock`, `Spawn` |
| `ivm_vmstate_joinAllThread`, which gives the lock away and takes it back as it finds the path | `Join`, `Rejoin` |
| the process that writes a cache file | `Write` |

`Serial` gives units, pools, the sequence of writes that makes up a cache file, and
what a reader makes of any prefix of it; `MCModules` compiles the texts of its files
with `Compiler` and encodes and decodes the cache file in every length. A loader
runs inside the call that imports, so it is one action up to the first
instruction of the module; between any two instructions another thread may get the
lock. `Joiner` says who may call `mthread.join`. The flag `legacy` of a function is in the
units that `Serial` writes, and reads back as false (section 11). Left
out: `mod/mod` (which adds paths and suffixes at run time), paths with
links (`realpath`), the value of a module beyond its mark, and directories that vanish
while the program runs: `ivm_vmstate_setPath` then fails and the import gives up
(`mod.c:452`, `mod.c:461`).

## 9. Runs, bounds and what they show

| run | instance | distinct states | shows |
|---|---|---|---|
| `threads_safety` | main and two workers, main joins, ring of 4, fairness | 34 k | `PopFindsFlag`, `HasIntExact`, `OneYield`, `GCNotLost`, `JoinedAlone`, `NothingAfterFree`, `Scheduled`, `ClockStops` |
| `threads_overflow` | the same, everyone may join, one worker in `aio.read`, early clock | 590 k | `TypeOK`, `GILExclusive`, `ClockReleased`, refinement `RingIsStack`, in the presence of overflow |
| `collector_objects` | 2 objects, 2 tables, prototypes and merge | 252 k | `Remembered`, `GenIsHeap`, `NoDangling`, `SharingMarked`, refinement `Transparent` |
| `collector_calls` | 2 objects, 1 table, 3 contexts, functions, 2 frames | 512 k | `TypeOK`, `CountExact`, `DestructorOnce`, refinement `Transparent` |
| `collector_loc` | violation | | `ContextRemembered` fails |
| `coro_calls` | one coroutine, 2 values, 2 saved frames, 2 blocks, C depth 4, first array of 1 word | 58 k | `TypeOK`, `Nested`, `NativeFlagExact`, `ArgumentsBound`, `ExceptionsEnd`, refinement `Nests` |
| `coro_threads` | two coroutines, two threads | 47 k | `NotReentered`, `CaughtIsForgotten`, refinement `Nests` |
| `coro_reenter` | violation | | `NotReentered` fails |
| `slots_cache` | 2 objects, 2 keys, one cached instruction, numbers up to 3, arrays up to 6 cells | 91 k | `CacheExact`, `Lookups`, refinement `Implements` |
| `ink_compile` | 41 programs and all their functions, 24 events, lists of 2, 2 arguments | 10 k | `Faithful`, `Balanced` |
| `ink_blocks` | violation | | `OwnBlock` fails |
| `modules` | 6 files in 3 directories, 2 threads of which main joins, a cache file of every length | 83 k | `OwnPath`, `Marked`, `Linked`, `CacheWhole`, `Ends` |

Why these bounds are enough to meet the interesting cases.

* *Threads.* A ring of 4 holds three flags, so a yield and two GC flags fill it,
  the next GC flag drops the yield, and the flags of `aio.read` overflow it too; the code's 32 entries differ only
  in how long that takes, and the proofs hold for every size. Three threads are
  needed so that a third one can step between a yield and a wake-up of two
  others; that is also the instance for liveness. `threads_overflow` switches
  deadlock checking off because a thread that joins itself is left behind for
  ever when the state is freed; in `threads_safety` deadlock is checked, and the
  end of the process is the action `Quiet`.
* *Collector.* Two objects and two tables give an old and a young one of each, a
  shared table and its copy, a cycle, and an object reached over two paths; one
  slot name suffices since the barrier belongs to the table, not to the key.
  Three contexts give the global one, a caller and a callee whose scope outlives
  the call through a function object. Objects and tables can be created again
  after they have died, so any number of collections follow each other.
* *Coroutines.* The first array has one word, so the first push moves it.
  Two saved frames are ink → native → ink or ink → ink → ink; two blocks are
  nested catches or one in each of two calls; a C depth of 4 is a loop, a native
  function, a loop it has called back, and another native function or coroutine.
  With two coroutines the bounds count values and calls of both. The second run
  has no blocks, the first no second coroutine: the two meet in an exception
  that leaves a coroutine, which ends all its blocks at once (`End`). Deadlock is
  not checked: a bounded program may have nothing more to do.
* *Slots.* A table starts with one cell or with two (an object made for two
  slots), doubles when it is full and is hashed from two cells on, and
  both keys hash to the last cell: linear tables, growth, the turn to a hash,
  a probe that wraps around and a deleted key in the way all occur. Numbers start
  again at 2, so a number is given out again within a few steps; the code's limit
  (2^50, `IVM_INSTR_CACHE_UID_MAX`) is met by no test. Two objects suffice for a
  prototype, a shared table and its copy. Deadlock is not checked: numbers and
  sizes run out (`MaxUid`, `MaxSize`).
* *Ink.* Which programs are tried is the bound that matters: every kind of tree
  occurs (`ProgramsAssumption` checks that they are well formed), loops, `try`,
  branches and calls inside each other in the ways that leave one from within the
  other. Every operation has every outcome at every point, so a program is run on
  all its paths until 24 events have been met, which is enough for
  each loop to go round, go on early, be left, and end. `Balanced` speaks of all paths
  of the code, independent of that bound.
* *Modules.* The program imports a module that starts an import of its own, joins the
  other threads and then fails, one out of a cache file that
  imports a neighbour which imports it back, and a missing one; a thread imports
  under the same name a file of another directory, and the cache file at the
  same time. So the main thread lets go of the lock inside a load, and gets it back after
  the other thread has loaded elsewhere and gone. The cache file is there in every length, and may be completed at any
  moment. Deadlock is not checked: the program ends.

Fairness. What is assumed of threads is in section 3; `ExceptionsEnd` needs weak
fairness of the exception path, straight-line code. `Ends` assumes for each thread
strong fairness of getting the lock, which `Scheduled` shows of `Threads` under its
conditions (the finite code that these modules run is one whose threads come to a
test of `has_int`), and of executing an instruction once it runs, since the clock leaves it 10 ms. A thread that has
joined has weak fairness of taking the lock again: the others have ended, so nobody
competes. Nothing is
assumed of the process that writes the cache file: it may stop for ever.

## 10. Proofs

Each theorem holds for all values of the constants that satisfy the assumptions
the modules name: `RingSizeAssumption` (at least two cells), `ThreadAssumption`,
the assumptions of `Coro` on its bounds and values with `NilAssumption` (NULL is
no coroutine and no list of calls), `SlotAssumption` of `Slots`, `CollectorAssumption` (NULL is no
object, and the objects and contexts a heap can have are finitely many), and
`FileAssumption` and `UnitAssumption` of `Modules`: code ends with RETURN, jumps stay in
it and the functions it makes are those of its unit, as `ivm_exec_preproc` and the
generator leave it; TLC evaluates this on the compiled files of the run. A premise beyond
these stands in the theorem. TLC checks the same properties in the runs of section 9.

**Threads** (`ThreadsProof`), for any workers, joiners and users of `aio`:

| theorem | premise | inductive invariant, and why the property alone is not inductive |
|---|---|---|
| `TypeCorrect`: TypeOK | | itself; `int_next` and `int_head` stay in `int_buf` |
| `GILMutualExclusion`: GILExclusive | | `GILInv`, with `NoWorkerYet`: the lock means something only from `thread_enabled` on, and before that every worker is idle |
| `HasIntAgrees`: HasIntExact | `~ EarlyClock` | `IntInv`: who is between the halves of setInt or popInt owns `int_lock` (`LockHeld`), and how the ring looks meanwhile (`HalfDone`) |
| `PopIntAssumption`: PopFindsFlag | `~ EarlyClock` | from `IntInv`: the return that keeps `int_lock` is dead code |
| `BufferImplementsStack`: RingIsStack | | `RingInv` (each cell between head and next holds a flag); every push and pop of the ring maps to one of `IntStack`, any other step to a stutter |
| `ClockIsReleased`: ClockReleased | | `RingInv`, and counting: a push gives up at most one flag, and only when the ring is full, so what it drops was the only THREAD_YIELD and the other cells hold GC interrupts |
| `ClockSendsOne`: OneYield | no `aio.read` | `YieldInv`: that none is pending when the clock pushes follows from `thread_csl` and its place in the loop |
| `CollectionNotLost`: GCNotLost | no `aio.read`, `RingSize > 2` | with `YieldInv`: there is at most one THREAD_YIELD, so a full ring of three or more cells holds two GC flags and gives up one |
| `JoinerIsAlone`: JoinedAlone | | `JoinInv`: a worker is in `thread_set` from its spawn to its end, so only the main thread gets past the poll |
| `NoUseAfterFree`: NothingAfterFree | only the main thread joins | `FreeInv`, with `JoinInv`: clock and workers are gone before `ivm_vmstate_free` |

What the proofs about the ring share are the lemmas at the head of the module: which cells a push and a
pop fill and free, and how the number of flags of a kind changes (the set of
cells that hold one gains or loses one, so that no sum over a sequence is needed).

**Coroutines** (`CoroStackProof`, `CoroProof`, `CoroNestProof`), for any coroutines,
threads, values and bounds, in programs that do not resume a coroutine from below itself
(`"reenter" \notin Quirks`, section 11):

* `CoroInvariant`: `Spec => []CoroInv`. None of the properties is inductive alone.
  `Good(r)` says of one coroutine that the saved pointers of all its calls and
  blocks fit its array and that its block stack is the concatenation of the
  blocks of its calls. `Chain` relates a C stack to its coroutines: there
  is a function `h` that gives for each activation the call of its coroutine with
  which it began, and each native call of a coroutine is an activation
  (`Covered`), except the call of a native function that has just failed. `Apart`
  (no coroutine is on two C stacks) makes a step on one of them leave the others as
  they are, `Idle` is what a coroutine brings along that is resumed, `Starts` what
  a spawned thread finds. `OneException` holds since threads take turns only
  between instructions and an exception on its way is not interrupted.
* From it `CoroTypeCorrect` (TypeOK), `CallsAreNested` (Nested),
  `NativeFlagIsExact` (NativeFlagExact) and `CoroutineNotReentered` (NotReentered).
* The action property `ArgumentsAreBound` (ArgumentsBound) needs `"callback" \notin Quirks`
  besides: native code hands one argument only to a function without parameters to match.
* `ExceptionIsForgotten` (CaughtIsForgotten) needs `"fault" \notin Quirks`: no block catches
  the exception of a failing operator.
* `CoroImplementsCalls`: `Spec => Nests`, with failing operators in try blocks or
  without, but without the quirks `callback` and `spawn`, whose arguments end up where
  `CallModel` has none. `CallModel` knows no pointers, counts or flags: a coroutine is a list of
  calls, a call a list of blocks with their values. What a flat stack shows is
  defined over functions of the block sizes (`CallsOf`); the proof first gives it places
  counted from the bottom of the array (`PlacesFit`), so that it stays when the array
  moves, then splits it into the calls below, the blocks below and the
  values on top (`ViewIs`), then shows what each operation of a stack does to
  that (`PushView`, `LeaveBlockView`, `EnterView`, `LeaveFrameView`, ...). The C stack of a thread
  shows its loops without the native functions (`LoopsMore`), and there is one lemma
  for each action: it is a step of `CallModel`, or shows nothing. The invariant is
  `NestInv`: with `CoroInv`, that the call above a native function took nothing
  off its stack (`TidyInv`, so a return to native code finds all its values) and that a coroutine on a
  C stack whose parameters are still to be matched was spawned (`ParamInv`): a
  value that is delivered is then bound, or pushed, where `CallModel` does it.

**Collector** (`CollectorHeapProof`, `CollectorProof`), for any objects, tables,
contexts and slots. The premise is `~ AnyLoc`: `loc` is
assigned only what leaves no young table in an old context. Without it `Remembered`
is false, as the run `collector_loc` shows.

* `CollectorInvariant`: `Spec => []Inv`. What the runs check speaks mostly of a
  running program and says nothing of a collection that is half done, so none of it is
  inductive. `Inv` has a part for each:
  * `Heap`, always: a live cell has the generation of its heap
    (`Generations`); there is one cell for an identity, or one and its copy
    (`Unique`), and the two agree up to addresses (`Copies`); what waits to be
    copied is live and has no copy yet (`Work`), and what each phase has
    finished (`Phases`); the mark on a cell and its place in a barrier list agree
    (`Lists`); the destructor log, of sources before `triggerDestructor` and of copies
    after it (`Logged`).
  * `Program`, while the program runs: nothing dangles (`RunRefs`) and old cells that
    refer to young ones are listed (`RunOld`). Of functions it says more than
    `Remembered` needs: the scope of an old function is old, and so is the scope
    around an old scope. A partial collection does not visit old functions, and
    would otherwise miss what their scopes hold.
  * `Collection`, during a collection: the tricolour argument. A surviving cell
    refers to what survives or will (`CellRefs`, by `ObjHere` and `TabHere`),
    except for remembered cells before `checkWriteBarrier`; a context that a
    frame, a surviving function or a settled scope refers to is settled or waits
    (`Reachable`); and a visited context is forwarded (`CtxRefs`).
  * `Counts`: a count is the number of holders (`Counted`). A pooled context is empty
    (`Pooled`), and scopes enclose one another without a circle (`Acyclic`): the
    recursion of `ivm_context_free` along `prev` passes its reference on and would
    otherwise free a context while it is being freed.
* An instruction writes at most one object, one table and one context, and each
  in one of a few ways that the barriers allow (`Effect`); the invariant is
  shown for those ways, not for each instruction.
* From it `TypesHold` (TypeOK), `HeapsAreGenerations` (GenIsHeap), `NothingDangles`
  (NoDangling), `OldIsRemembered` (Remembered), `CountsAreExact` (CountExact) and
  `LogIsExact` (DestructorOnce).
* `TablesAreMarked` (SharingMarked) needs `Sharing` besides: it speaks of identities,
  which a collector step keeps because it only moves, copies and drops (`Moves`), and
  also of contexts whose object is not made yet, whose table nobody else may
  have. The instructions are shown to keep it on addresses (`Tables`), which is the same
  while the program runs (`SharingTables`).
* `ObjectsArePlain`: `Spec => Transparent`, with the mapping that TLC uses: what an
  identity looks like is read off its cell, or off the copy once there is one. Since
  cell and copy agree (`Copies`) it does not matter which (`Seen`), so that copying,
  forwarding and exchanging heaps change nothing that is seen. What remains of a
  collection is that identities go, and that nothing that stays refers to one that
  goes (`InvClosed`, from `RunRefs` and the tricolour argument; `ResetKept` for the
  moment when the survivors are all there is): each of its steps is a `Forget`
  (`CollectForgets`). For the instructions, `WriteSeen` is the heart: an object is
  written in a table that no other live object and no untied context has (`Tables`), so
  that exactly one identity changes. Each instruction then is one lemma and one
  action of `ObjectModel` (`SetSlotSeen` to `CallNativeSeen`). `CollectorAssumption`
  says for this that NULL is not an object and not a context, as TLC's model values
  are not.

**Slots** (`SlotsProof`), for any objects, keys, values, instructions, hash function,
thresholds and bounds that satisfy `SlotAssumption` (NULL is none of the things that
stand beside it, and the largest table holds at least twice the default size).
The premise is `"restart" \notin Quirks`: the numbers do not start again in a partial
collection. Without it two tables may have one number and `CacheExact` is false
(section 11).

* `SlotInvariant`: `Spec => []SlotInv`. What a search finds depends on where every
  other key is, so the heart is a property of one table. `Finds(t)`: the search for the
  key of any cell in use ends at that cell. A key is written where the search for it
  ends, and `Finds` survives that (`PutFinds`), since no search that went past the
  cell can stop there now; deleting keeps the key, so it cannot break a search at all.
  Growing a hashed array puts every cell in use into a new one (`RehashedFinds`): it
  needs that there is room, that is, that fewer cells are full than there are
  (`Spread`), and that `Probe` visits each cell once for any hash. From it, what a
  table says of a key afterwards is known for every operation: `AssignedIs`,
  `FilledIs`, `MergedIs` (a merge of arrays of any length, by the first cell where it
  would go wrong), `ExpandedFinds`.
* For `CacheExact` `SlotInv` says besides that no two tables have one number
  (`Numbered`), that numbers of tables and those remembered are not above `uids`, and
  that a table that two objects have is marked shared (`SharedWell`): the table that an
  instruction writes to has a new number, or it belongs to this object alone
  and the keys stay where they were (`Writable`). A collection numbers the tables it moves by their
  order, so new numbers differ (`RankIs`); when it starts again from zero no instruction
  remembers anything, and by the premise it moves all tables. From it `CachesAreExact` (CacheExact).
* `LookupsAreRight` (Lookups) and `SlotsImplement` (Implements) have the second premise
  `"proto" \notin Quirks`: nobody makes a circle of prototypes through the slot
  `proto` (section 11). `ProtosEnd` adds to the invariant that prototypes are
  well-founded (`Grounded`: every set of objects has one whose prototype is not in it), so
  that the walk of `Chain`, bounded by the number of objects, visits every object above
  exactly once (`OnceIs`) and `HasProto` is what it seems.
* The refinement goes through `SaysOf(o, k)`: what is said of a key by the table of an
  object, wherever the cell is. A store changes it for one object (`StoreShows`), and
  each instruction is one lemma and one action of `SlotModel`. A merge that
  overwrites may or may not leave a deleted slot where nothing was, depending on
  whether the table was hashed: what it does is the witness for `left` (`Blend`).

**Modules** (`ModulesProof`), for any files, directories, threads, cache files of any
length and, but for the last theorem, code of any shape:

* `ModInvariant`: `Spec => []ModInv`. The path of a thread is written down
  nowhere; it is what the innermost load of its call stack says (`HomeAt`), or what
  the last join inside that load has left (`home`, set by `Rejoin`).
  `GoodFrames` says that each frame that loads goes back to the path of the frames
  below it, `PathInv` that the thread with the lock is in the path of its stack and
  each waiting thread has kept that of its own, `MarkInv` that each mark is one
  frame of one thread. An exception that leaves several loads at once restores the
  right path since the lowest of them does.
* From it `PathIsOwn` (OwnPath) and `MarksAreLoads` (Marked).
* `FunctionsAreOwn` (Linked) from `LinkInv`. That the function of a frame is of its file
  does not follow from the same fact a step before: it is called through a value, and
  the value was made from the place of its unit in the list. So the invariant
  says of each frame (`Own`) that its values that are functions, those under open
  blocks too, are of its file, that it is inside its code and its blocks lie over each
  other, and of the list (`GoodList`) that what was added with an entry is still
  around it. A unit that is loaded again after a failure is added again, so entries of one
  file may have several offsets. The premises are `AllOrNothing`, what `Serial` computes of
  a cache file (of each part of it nothing, of all of it the unit that was compiled,
  which is what `CacheWhole` checks in the run for each length of its file), and
  `[]StacksFit`, the assertion CHECK_STACK of the instructions
  (`opcode.dispatch.h:401`): below the values of its block an instruction would take
  those of another. That compiled code fits its stack is a property of the
  generator, recursive over trees: in `ink_compile` no run ends with a short stack
  (Faithful), and as an invariant of the instance of `modules` TLC finds no state
  against it.

Proofs have one step per action and lemmas for what several actions share.

Only model-checked:

* Liveness (`Scheduled`, `ClockStops`, `ExceptionsEnd`, `Ends`): the prover has no
  rules for fairness and ENABLED.
* `CacheWhole`: the reader and the writer of `Serial` are recursive over files.
* `Faithful` and `Balanced` of `InkMachine`, which is about texts and trees, and the
  premises `AllOrNothing` and `StacksFit` above: what recursive functions of
  texts, trees and files compute.

The theorems on induction in the library take an operator as a parameter, which the
provers cannot instantiate. Where a proof needs induction over numbers it is the
set form: a nonempty set of naturals has a least element (`LeastOf`), applied to
the set of counterexamples. `Tokenizer`, `Peg`, `InkTree`, `Optimizer`, `InkGen`,
`InkSemantics` and `InkMachine` declare RECURSIVE operators for texts, trees and
lists of instructions and belong to TLC alone, with `InkLexer`, `InkParser`,
`Compiler` and the MC modules that use them.

## 11. Where code and comments disagree

Three have a run that shows them, and are in `PROJECT.json` under `findings` with
the line quoted there.

1. `collector_loc`: assigning `loc` can store a young slot table in an old
   context; `IVM_WBCTX` exists for this and is never called. The passing runs
   restrict `loc` to objects without such a table (`AnyLoc = FALSE`,
   `UnseenTable`).
2. `coro_reenter`: a nested loop clears `active` of a coroutine that is still
   running, so `ivm_coro_canResume` no longer protects it.
3. `ink_blocks`: the generator counts a block inside a loop (`nl_block`) at its
   beginning and again at its end, so `break` and `cont` after a finished `try`
   leave more blocks than the loop has open, among them its own.

The others have a switch of a model or a value of a constant, or a kind of program or text,
that the passing runs leave out so that everything else is shown to hold without them. Where
a property is named, TLC finds it violated in an instance of the runs with the switch on.

* *Threads.* A spawned thread that calls `mthread.join` is in `thread_set` and
  waits for itself; the final join of `main` then returns at once and the state is
  freed under a live thread (`Joiner` with a worker: `NothingAfterFree` fails).
  With `EarlyClock = TRUE`, `PopFindsFlag` and `HasIntExact` fail: the clock's first
  setInt runs without `int_lock` if the main thread is held up for 10 ms between
  the creation of the clock and the store to `thread_enabled` (`vm.c:280-282`).
* *Calls.* The EXCEPTION macro leaves a caught exception in `state->except`
  (quirk `fault`: `CaughtIsForgotten` fails in the instance of `coro_calls`). The argument of `mthread.spawn` is
  pushed before parameters are matched (`vm.c:380`), so that the first value delivered
  later is bound in its place (quirk `spawn`: the refinement `Nests` fails). A callback with one argument
  leaves it on the stack instead of in the parameter (`coro.c:592`; quirk `callback`:
  `ArgumentsBound` fails).
* *Slots.* Assigning the slot `proto` by name refuses if the object already has
  the value among its prototypes instead of the reverse (`obj.c:426`, which
  says "false for circular prototype chain"): with the quirk `proto` a chain gets a
  circle, and lookup has no end. If the numbers of tables start again in
  a partial collection (`gc.c:572`, `vm.c:457`), old tables keep numbers that are given out
  once more (quirk `restart`: `CacheExact` fails); that needs 2^50 tables.
* *Ink.* `POP_EXC` with an empty block runs on into the handler of PUSH_BLOCK
  that follows it in the file, as it has no NEXT_INSTR there
  (`opcode.def.h:976`); an `if` or `elif` without `else` leaves no value where its parent takes
  one; a last star pattern that gets nothing binds `[none]`; a custom operator that
  begins with `@` is read as another token; a line that ends in CR LF counts twice.
* *Loader.* `loadCache` ignores whether the coroutine of the module ended with an
  exception (`serial.c`, the end of the file): a cache file that raises counts as
  loaded, its source does not. A cache file is preferred to a source whatever its
  age. A thread that imports a module which another one is loading gets `none`
  (`mod.c:454`). The flag `legacy` of a function is not written
  (`serial.c:107`): with a partial application like `f(_, 2)` in the text of the cache file
  (`Files`) `CacheWhole` fails. `joinAllThread` takes the lock again without restoring the
  path (`vm.c:432`), as `threadYield` does: this is part of the passing run, `OwnPath`
  says what is left of a thread's path then, and
  without the update of `home` in `Rejoin` it fails.
* *Operators.* `ivm_slot_table_hasBlockedOop` shifts an int by ids up to 34
  (`slot.h:230`), and a merge does not carry over which operators are blocked. Operator
  slots are in no model (section 12).

## 12. What is not modelled

* The contents of values and what arithmetic, comparison, string and list
  operations compute: their outcomes are left open in `InkMachine`. Built-in
  types, conversions and encodings are sequential functions of their arguments;
  a translation line by line would be as long as the code and the properties
  would repeat it.
* Blocks and sizes inside a heap (`std/heap.c`); the moment a collection is asked
  for is open in `Threads` and `Collector`, so no property depends on them.
* Operator slots, and tables that must not be shared (`no_cow`).
* Values that only C variables of a native function hold across a callback: the
  collector may run there and they are no roots (`gc.c:357`). `Collector` collects
  between instructions of one loop only. No native function of the repository
  keeps its argument pointer over a callback.
* `callBase_2` passes an argument count of 1 with two arguments (`coro.c:649`) to
  a native function; argument counts of native functions are left out.
* Memory that is leaked: contexts of the frames of a suspended coroutine that is
  freed (`ivm_frame_dump` is empty).
* Failure of `malloc`, of thread creation and of locks, which all end the
  process (`IVM_MEMCHECK`, `IVM_ASSERT`).
* The assembler: it emits the instructions that `InkMachine` and `Coro` execute
  from lines that say so; its one state is the table of labels (a label that is
  never defined jumps to itself).
* `front/ink/check.c`, the console, option parsing, input and output, the
  wrappers of libraries in `mod/` and the json reader.

## 13. Plan

Done: threads, collector, coroutines, slots with their caches, the ink front end
with the optimiser, serialization and the module loader, in this order.

Proved: every safety property of `Threads`, `Collector`, `Coro`, `Slots` and `Modules` that
the runs check but `CacheWhole`, and all refinements: `RingIsStack`, `Transparent`, `Nests` and
`Implements`.

Next: `StacksFit` from a condition on code that can be checked once, like the
depth at each instruction, in place of the assertion of each step.

Of the models, what would add most: operator slots in `Slots` (their bits have a
width that matters), heap blocks with large allocations, `no_cow` tables, and argument
counts of native functions in `Coro`.
