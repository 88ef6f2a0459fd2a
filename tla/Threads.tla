------------------------------ MODULE Threads ------------------------------
(***************************************************************************)
(* The threads of one VM state (vm/vm.c, vm/vm.h, mod/mthread, mod/aio).   *)
(*                                                                         *)
(* Every thread that runs bytecode holds the global lock thread_gil.  The  *)
(* clock thread sleeps, pushes a THREAD_YIELD interrupt and spins until    *)
(* some thread has handled it (the clock sync flag thread_csl).  The       *)
(* interpreter tests has_int between two instructions, pops one interrupt, *)
(* and either collects or gives up the global lock for a while.            *)
(*                                                                         *)
(* pc[t] says where thread t is:                                           *)
(*   "exec"    inside an instruction or between two of them                *)
(*   "enable"  in enableThread, the clock thread exists already            *)
(*   "pushed"  in setInt, the flag stored, has_int not yet set             *)
(*   "intr"    at the INTR opcode, about to call popInt                    *)
(*   "popped"  in popInt, the flag taken                                   *)
(*   "clear"   in popInt, the empty ring reset, has_int not yet cleared    *)
(*   "handle"  back in INTR with the flag in reg[t]                        *)
(*   "csl"     in threadYield, the global lock released                    *)
(*   "asleep"  in threadYield, thread_csl set, about to lock again         *)
(*   "start"   a spawned thread before its first threadStart               *)
(*   "ending"  a spawned thread out of thread_set, lock still held         *)
(*   "poll"    in joinAllThread, waiting for thread_set to be empty        *)
(*   "relock"  in joinAllThread, about to lock again                       *)
(*   "cancel"  in joinAllThread, waiting for the cancelled clock           *)
(*   "free"    the main thread, in ivm_vmstate_free                        *)
(*   "idle"    a coroutine that can be resumed or spawned                  *)
(*   "dead"    a coroutine that has returned                               *)
(***************************************************************************)
EXTENDS IntRing

CONSTANTS
  Main,             \* the thread of resumeMainCoro
  Worker,           \* coroutines a script may pass to mthread.spawn
  Joiner,           \* threads whose script calls mthread.join
  AioUser,          \* threads whose script calls aio.read
  EarlyClock        \* may 10 ms pass between the creation of the clock
                    \* thread and the store to thread_enabled?

Thread == {Main} \cup Worker
Clock  == "clock"
NoOne  == "no one"

ASSUME ThreadAssumption ==
  /\ Main \notin Worker
  /\ {Clock, NoOne} \cap Thread = {}
  /\ Joiner \subseteq Thread
  /\ AioUser \subseteq Thread
  /\ EarlyClock \in BOOLEAN

VARIABLES
  ring, hasInt,     \* the interrupt buffer and has_int
  intLock,          \* owner of int_lock
  gcFlag,           \* gc_flag is 1
  gil,              \* owner of thread_gil
  csl,              \* thread_csl
  enabled,          \* thread_enabled
  tset,             \* thread_set
  joinStart,        \* join_start
  mainDone,         \* resumeMainCoro has returned
  pc, reg,          \* per thread: where it is, the flag popInt returned
  clock             \* the clock thread: "off", "sleep", "pushed", "spin",
                    \* "unset" or "stopped"

intVars  == <<ring, hasInt, intLock, gcFlag>>
joinVars == <<tset, joinStart, mainDone>>
vars == <<intVars, gil, csl, enabled, joinVars, pc, reg, clock>>

PC == {"exec", "enable", "pushed", "intr", "popped", "clear", "handle",
       "csl", "asleep", "start", "ending", "poll", "relock", "cancel",
       "free", "idle", "dead"}

TypeOK ==
  /\ ring \in Ring
  /\ hasInt \in BOOLEAN
  /\ intLock \in Thread \cup {Clock, NoOne}
  /\ gcFlag \in BOOLEAN
  /\ gil \in Thread \cup {NoOne}
  /\ csl \in BOOLEAN
  /\ enabled \in BOOLEAN
  /\ tset \in SUBSET Worker
  /\ joinStart \in BOOLEAN
  /\ mainDone \in BOOLEAN
  /\ pc \in [Thread -> PC]
  /\ reg \in [Thread -> Flag \cup {NoInt}]
  /\ clock \in {"off", "sleep", "pushed", "spin", "unset", "stopped"}

(* ivm_vmstate_new, and the main coroutine entered.                        *)
Init ==
  /\ ring = EmptyRing
  /\ hasInt = FALSE
  /\ intLock = NoOne
  /\ gcFlag = FALSE
  /\ gil = NoOne
  /\ csl = FALSE
  /\ enabled = FALSE
  /\ tset = {}
  /\ joinStart = FALSE
  /\ mainDone = FALSE
  /\ pc = [t \in Thread |-> IF t = Main THEN "exec" ELSE "idle"]
  /\ reg = [t \in Thread |-> NoInt]
  /\ clock = "off"

Goto(t, from, to) ==
  /\ pc[t] = from
  /\ pc' = [pc EXCEPT ![t] = to]

(***************************************************************************)
(* int_lock.  _INT_LOCK and _INT_UNLOCK test thread_enabled each time; an  *)
(* unlock of a mutex another thread holds makes a default mutex free.      *)
(***************************************************************************)
IntLockBy(a) ==
  IF enabled THEN intLock = NoOne /\ intLock' = a
             ELSE UNCHANGED intLock

IntUnlock == intLock' = IF enabled THEN NoOne ELSE intLock

(* The two halves of setInt, by a thread or by the clock.                  *)
StoreInt(a, flag) ==
  /\ IntLockBy(a)
  /\ ring' = Push(ring, flag)

(* has_int forgotten.                                                      *)
MutRaiseHasInt ==
  /\ hasInt' = hasInt
  /\ IntUnlock

RaiseHasInt ==
  /\ hasInt' = TRUE
  /\ IntUnlock

(***************************************************************************)
(* enableThread, run when the mthread module is first imported.            *)
(***************************************************************************)
CreateClock ==
  /\ clock = "off"
  /\ Goto(Main, "exec", "enable")
  /\ csl' = FALSE
  /\ clock' = "sleep"
  /\ UNCHANGED <<intVars, gil, enabled, joinVars, reg>>

Enable ==
  /\ gil = NoOne
  /\ Goto(Main, "enable", "exec")
  /\ enabled' = TRUE
  /\ gil' = Main
  /\ UNCHANGED <<intVars, csl, joinVars, reg, clock>>

(***************************************************************************)
(* The interpreter loop of a thread that holds the global lock.            *)
(***************************************************************************)

(* An allocation adds a heap block: openGCFlag, also when collections are  *)
(* pending already and when the ring is full of them.                      *)
OpenGC(t) ==
  /\ Goto(t, "exec", "pushed")
  /\ gcFlag' = TRUE
  /\ StoreInt(t, GC)
  /\ UNCHANGED <<hasInt, gil, csl, enabled, joinVars, reg, clock>>

OpenGCFlag(t) ==
  /\ Goto(t, "pushed", "exec")
  /\ RaiseHasInt
  /\ UNCHANGED <<ring, gcFlag, gil, csl, enabled, joinVars, reg, clock>>

(* NEXT_INSTR sees has_int and goes to INTR.  Not every instruction ends   *)
(* in that test: NEXT_INSTR_NINT and GOTO_SET_INSTR, and so the POP_ALL,   *)
(* GET_CONTEXT_SLOT, JUMP_FALSE and JUMP of "while true {}", do not.  A    *)
(* thread that never takes this step stays in "exec" and keeps the lock.   *)
NextInstr(t) ==
  /\ hasInt
  /\ Goto(t, "exec", "intr")
  /\ UNCHANGED <<intVars, gil, csl, enabled, joinVars, reg, clock>>

(* popInt returns IVM_CORO_INT_NONE from an empty ring, int_lock kept.     *)
PopNothing(t) ==
  /\ IsEmpty(ring)
  /\ Goto(t, "intr", "handle")
  /\ IntLockBy(t)
  /\ reg' = [reg EXCEPT ![t] = NoInt]
  /\ UNCHANGED <<ring, hasInt, gcFlag, gil, csl, enabled, joinVars, clock>>

PopInt(t) ==
  /\ ~ IsEmpty(ring)
  /\ Goto(t, "intr", "popped")
  /\ IntLockBy(t)
  /\ reg' = [reg EXCEPT ![t] = Top(ring)]
  /\ ring' = Drop(ring)
  /\ UNCHANGED <<hasInt, gcFlag, gil, csl, enabled, joinVars, clock>>

PopReset(t) ==
  /\ IsEmpty(ring)
  /\ Goto(t, "popped", "clear")
  /\ ring' = Reset(ring)
  /\ UNCHANGED <<hasInt, intLock, gcFlag, gil, csl, enabled, joinVars, reg, clock>>

PopKeep(t) ==
  /\ ~ IsEmpty(ring)
  /\ Goto(t, "popped", "handle")
  /\ IntUnlock
  /\ UNCHANGED <<ring, hasInt, gcFlag, gil, csl, enabled, joinVars, reg, clock>>

(* has_int kept although the ring is empty.                                *)
MutPopClear(t) ==
  /\ Goto(t, "clear", "handle")
  /\ IntUnlock
  /\ UNCHANGED <<ring, hasInt, gcFlag, gil, csl, enabled, joinVars, reg, clock>>

PopClear(t) ==
  /\ Goto(t, "clear", "handle")
  /\ hasInt' = FALSE
  /\ IntUnlock
  /\ UNCHANGED <<ring, gcFlag, gil, csl, enabled, joinVars, reg, clock>>

(* doGC without closeGCFlag.                                               *)
MutDoGC(t) ==
  /\ reg[t] = GC
  /\ Goto(t, "handle", "exec")
  /\ reg' = [reg EXCEPT ![t] = NoInt]
  /\ UNCHANGED <<intVars, gil, csl, enabled, joinVars, clock>>

(* ivm_vmstate_doGC ends in closeGCFlag.                                   *)
DoGC(t) ==
  /\ reg[t] = GC
  /\ Goto(t, "handle", "exec")
  /\ gcFlag' = FALSE
  /\ reg' = [reg EXCEPT ![t] = NoInt]
  /\ UNCHANGED <<ring, hasInt, intLock, gil, csl, enabled, joinVars, clock>>

IgnoreInt(t) ==
  /\ reg[t] = NoInt
  /\ Goto(t, "handle", "exec")
  /\ UNCHANGED <<intVars, gil, csl, enabled, joinVars, reg, clock>>

(***************************************************************************)
(* threadYield, called for the interrupt and by the waiting loop of        *)
(* aio.read.                                                               *)
(***************************************************************************)
YieldGIL(t) ==
  /\ reg[t] = Yield
  /\ Goto(t, "handle", "csl")
  /\ gil' = NoOne
  /\ UNCHANGED <<intVars, csl, enabled, joinVars, reg, clock>>

AioYield(t) ==
  /\ t \in AioUser
  /\ enabled
  /\ Goto(t, "exec", "csl")
  /\ gil' = NoOne
  /\ UNCHANGED <<intVars, csl, enabled, joinVars, reg, clock>>

(* threadYield without setCSL.                                             *)
MutSetCSL(t) ==
  /\ Goto(t, "csl", "asleep")
  /\ reg' = [reg EXCEPT ![t] = NoInt]
  /\ UNCHANGED <<intVars, gil, csl, enabled, joinVars, clock>>

SetCSL(t) ==
  /\ Goto(t, "csl", "asleep")
  /\ csl' = TRUE
  /\ reg' = [reg EXCEPT ![t] = NoInt]
  /\ UNCHANGED <<intVars, gil, enabled, joinVars, clock>>

LockGIL(t, from, to) ==
  /\ gil = NoOne
  /\ Goto(t, from, to)
  /\ gil' = t

Wake(t) ==
  /\ LockGIL(t, "asleep", "exec")
  /\ UNCHANGED <<intVars, csl, enabled, joinVars, reg, clock>>

(* The spawned thread is not entered into thread_set.                      *)
MutSpawn(t, w) ==
  /\ pc[t] = "exec"
  /\ enabled
  /\ pc[w] = "idle"
  /\ pc' = [pc EXCEPT ![w] = "start"]
  /\ UNCHANGED <<intVars, gil, csl, enabled, joinVars, reg, clock>>

(***************************************************************************)
(* spawnThread and the body of a spawned thread.  canResume refuses a      *)
(* coroutine that is dead, active or spawned already.                      *)
(***************************************************************************)
Spawn(t, w) ==
  /\ pc[t] = "exec"
  /\ enabled
  /\ pc[w] = "idle"
  /\ tset' = tset \cup {w}
  /\ pc' = [pc EXCEPT ![w] = "start"]
  /\ UNCHANGED <<intVars, gil, csl, enabled, joinStart, mainDone, reg, clock>>

Start(w) ==
  /\ LockGIL(w, "start", "exec")
  /\ UNCHANGED <<intVars, csl, enabled, joinVars, reg, clock>>

(* The coroutine returns or yields: unsetSpawned and thread_set.           *)
Leave(w) ==
  /\ Goto(w, "exec", "ending")
  /\ tset' = tset \ {w}
  /\ UNCHANGED <<intVars, gil, csl, enabled, joinStart, mainDone, reg, clock>>

(* threadEnd; a coroutine that yielded can be spawned again.               *)
Exit(w) ==
  /\ \E left \in {"idle", "dead"} : Goto(w, "ending", left)
  /\ gil' = NoOne
  /\ UNCHANGED <<intVars, csl, enabled, joinVars, reg, clock>>

(***************************************************************************)
(* joinAllThread: mthread.join by a script, and the last call of the main  *)
(* thread, which also stops the clock.                                     *)
(***************************************************************************)

(* mthread.join while another join is under way raises "double join", an   *)
(* exception of the script that leaves this state as it is.                *)
Join(t) ==
  /\ t \in Joiner
  /\ enabled
  /\ ~ joinStart
  /\ Goto(t, "exec", "poll")
  /\ joinStart' = TRUE
  /\ gil' = NoOne
  /\ UNCHANGED <<intVars, csl, enabled, tset, mainDone, reg, clock>>

FinalJoin ==
  /\ enabled
  /\ ~ joinStart
  /\ Goto(Main, "exec", "poll")
  /\ joinStart' = TRUE
  /\ mainDone' = TRUE
  /\ gil' = NoOne
  /\ UNCHANGED <<intVars, csl, enabled, tset, reg, clock>>

(* The main thread ends with nothing to join, or its call returns FALSE,   *)
(* which its caller ignores.                                               *)
NoFinalJoin ==
  /\ ~ enabled \/ joinStart
  /\ Goto(Main, "exec", "free")
  /\ mainDone' = TRUE
  /\ UNCHANGED <<intVars, gil, csl, enabled, tset, joinStart, reg, clock>>

(* The size of thread_set is read without any lock.                        *)
PollDone(t) ==
  /\ tset = {}
  /\ Goto(t, "poll", "relock")
  /\ UNCHANGED <<intVars, gil, csl, enabled, joinVars, reg, clock>>

(* joinAllThread returns without lockGIL.                                  *)
MutJoinReturn(t) ==
  /\ ~ (t = Main /\ mainDone)
  /\ Goto(t, "relock", "exec")
  /\ joinStart' = FALSE
  /\ UNCHANGED <<intVars, gil, csl, enabled, tset, mainDone, reg, clock>>

JoinReturn(t) ==
  /\ ~ (t = Main /\ mainDone)
  /\ LockGIL(t, "relock", "exec")
  /\ joinStart' = FALSE
  /\ UNCHANGED <<intVars, csl, enabled, tset, mainDone, reg, clock>>

CancelClock ==
  /\ mainDone
  /\ LockGIL(Main, "relock", "cancel")
  /\ UNCHANGED <<intVars, csl, enabled, joinVars, reg, clock>>

(* The clock cancelled but not waited for.                                 *)
MutClockJoined ==
  /\ Goto(Main, "cancel", "free")
  /\ joinStart' = FALSE
  /\ UNCHANGED <<intVars, gil, csl, enabled, tset, mainDone, reg, clock>>

ClockJoined ==
  /\ clock = "stopped"
  /\ Goto(Main, "cancel", "free")
  /\ joinStart' = FALSE
  /\ UNCHANGED <<intVars, gil, csl, enabled, tset, mainDone, reg, clock>>

(***************************************************************************)
(* The clock thread.  msleep and the body of the spin loop are its         *)
(* cancellation points.                                                    *)
(***************************************************************************)
ClockTick ==
  /\ clock = "sleep"
  /\ enabled \/ EarlyClock
  /\ StoreInt(Clock, Yield)
  /\ clock' = "pushed"
  /\ UNCHANGED <<hasInt, gcFlag, gil, csl, enabled, joinVars, pc, reg>>

ClockFlag ==
  /\ clock = "pushed"
  /\ RaiseHasInt
  /\ clock' = "spin"
  /\ UNCHANGED <<ring, gcFlag, gil, csl, enabled, joinVars, pc, reg>>

(* The clock does not wait for thread_csl.                                 *)
MutClockSeesCSL ==
  /\ clock = "spin"
  /\ clock' = "unset"
  /\ UNCHANGED <<intVars, gil, csl, enabled, joinVars, pc, reg>>

ClockSeesCSL ==
  /\ clock = "spin"
  /\ csl
  /\ clock' = "unset"
  /\ UNCHANGED <<intVars, gil, csl, enabled, joinVars, pc, reg>>

ClockUnsetCSL ==
  /\ clock = "unset"
  /\ csl' = FALSE
  /\ clock' = "sleep"
  /\ UNCHANGED <<intVars, gil, enabled, joinVars, pc, reg>>

(* No cancellation point in the spin loop.                                 *)
MutClockCancelled ==
  /\ pc[Main] = "cancel"
  /\ clock = "sleep"
  /\ clock' = "stopped"
  /\ UNCHANGED <<intVars, gil, csl, enabled, joinVars, pc, reg>>

ClockCancelled ==
  /\ pc[Main] = "cancel"
  /\ clock \in {"sleep", "spin"}
  /\ clock' = "stopped"
  /\ UNCHANGED <<intVars, gil, csl, enabled, joinVars, pc, reg>>

ClockNext ==
  ClockTick \/ ClockFlag \/ ClockSeesCSL \/ ClockUnsetCSL \/ ClockCancelled

(***************************************************************************)
(* The specification.                                                      *)
(***************************************************************************)
Interrupt(t) ==
  \/ OpenGCFlag(t) \/ PopNothing(t) \/ PopInt(t) \/ PopReset(t)
  \/ PopKeep(t) \/ PopClear(t) \/ DoGC(t) \/ IgnoreInt(t)
  \/ YieldGIL(t) \/ SetCSL(t)

ThreadNext(t) ==
  \/ OpenGC(t) \/ NextInstr(t) \/ Interrupt(t)
  \/ AioYield(t) \/ Wake(t)
  \/ Join(t) \/ PollDone(t) \/ JoinReturn(t)
  \/ \E w \in Worker : Spawn(t, w)

WorkerNext(w) == Start(w) \/ Leave(w) \/ Exit(w)

MainNext ==
  CreateClock \/ Enable \/ FinalJoin \/ NoFinalJoin \/ CancelClock \/ ClockJoined

(* The process is over: nothing is left to run.                            *)
Quiet ==
  /\ pc[Main] = "free"
  /\ \A w \in Worker : pc[w] \in {"idle", "dead"}
  /\ clock \in {"off", "stopped"}
  /\ UNCHANGED vars

Next ==
  \/ \E t \in Thread : ThreadNext(t)
  \/ \E w \in Worker : WorkerNext(w)
  \/ MainNext
  \/ ClockNext
  \/ Quiet

Spec == Init /\ [][Next]_vars

(***************************************************************************)
(* Fairness.  Every thread is scheduled by the operating system, the       *)
(* statements of setInt, popInt, threadYield and the collector that it is  *)
(* in the middle of end (WF), and a lock that is released again and again  *)
(* is not withheld from one thread for ever (SF of the locking steps:      *)
(* threadYield sleeps a millisecond before it locks again).  Nothing says  *)
(* that a script ends, spawns, joins or comes to a test of has_int:        *)
(* NextInstr has no fairness.                                              *)
(* Actions that share a conjunct start at different program counters of    *)
(* the same thread, so fairness to their disjunction is fairness to each.  *)
(***************************************************************************)
LockSteps(t) == Wake(t) \/ JoinReturn(t)

Fairness ==
  /\ WF_vars(ClockNext)
  /\ SF_vars(ClockTick)
  /\ WF_vars(Enable \/ ClockJoined)
  /\ SF_vars(CancelClock)
  /\ \A t \in Thread :
       /\ WF_vars(Interrupt(t) \/ PollDone(t) \/ (t \in Worker /\ Exit(t)))
       /\ SF_vars(LockSteps(t) \/ (t \in Worker /\ Start(t)))

FairSpec == Spec /\ Fairness

(***************************************************************************)
(* Properties.                                                             *)
(***************************************************************************)

(* Where a thread owns the global lock once threads are enabled.           *)
Running == {"exec", "pushed", "intr", "popped", "clear", "handle", "ending", "cancel"}

(* Bytecode, the collector and every native function run under the global  *)
(* lock: no two threads are ever between lockGIL and unlockGIL, through    *)
(* yields, joins, spawns and exits (vm.c, threadYield and joinAllThread).  *)
GILExclusive ==
  enabled => \A t \in Thread : pc[t] \in Running => gil = t

(* popInt "assume _coro_int_next != _coro_int_head" (vm.h): whoever        *)
(* reaches the body of popInt finds a flag in the ring, so popInt never    *)
(* leaves through the return that keeps int_lock locked.                   *)
PopFindsFlag ==
  \A t \in Thread : pc[t] = "intr" /\ intLock = NoOne => ~ IsEmpty(ring)

(* has_int, which the interpreter reads without a lock, tells exactly      *)
(* whether a flag is pending whenever no setInt or popInt is under way.    *)
InRingCode ==
  clock = "pushed" \/ \E t \in Thread : pc[t] \in {"pushed", "popped", "clear"}

HasIntExact == ~ InRingCode => (hasInt <=> ~ IsEmpty(ring))

InFlight(flag) ==
  \E t \in Thread : pc[t] \in {"popped", "clear", "handle", "csl"} /\ reg[t] = flag

(* The interrupt that will release the spinning clock is on its way:       *)
(* pending in the ring or in the hands of a thread, unless thread_csl is   *)
(* set already.                                                            *)
YieldComes == csl \/ Count(ring, Yield) > 0 \/ InFlight(Yield)

ClockStuck == clock \in {"pushed", "spin"} /\ ~ YieldComes

(* The clock, and with it preemption, gets stuck for good in one way only: *)
(* an openGCFlag that finds the ring full of earlier GC interrupts, all    *)
(* pushed after the one THREAD_YIELD, drops the latter (setInt, "int_next  *)
(* == int_head").  No pop, no yield, no aio.read and no early clock loses  *)
(* it.                                                                     *)
ClockReleased ==
  [][~ ClockStuck /\ ClockStuck' =>
       /\ \E t \in Thread : OpenGC(t)
       /\ Count(ring, GC) = RingSize - 2]_vars

(* The clock never has two interrupts pending: the handshake over          *)
(* thread_csl keeps it from flooding the ring.  (Not with aio.read, which  *)
(* sets thread_csl without an interrupt.)                                  *)
OneYield ==
  Count(ring, Yield)
    + Cardinality({t \in Thread : pc[t] \in {"popped", "clear", "handle", "csl"}
                                  /\ reg[t] = Yield}) <= 1

(* A collection asked for is not forgotten: while the GC flag is open, a   *)
(* GC interrupt is pending or a thread is about to collect.                *)
GCNotLost == gcFlag => Count(ring, GC) > 0 \/ InFlight(GC)

(* thread_set tells which spawned threads may still touch the VM state:    *)
(* the joiner that saw it empty is alone from then on.                     *)
JoinedAlone ==
  \A t \in Thread : pc[t] \in {"relock", "cancel"} =>
    \A w \in Worker \ {t} : pc[w] \in {"idle", "dead", "ending"}

(* Once ivm_vmstate_free has begun, no other thread takes another step on  *)
(* the state.                                                              *)
NothingAfterFree == [][pc[Main] = "free" => UNCHANGED vars]_vars

(* Preemption: a thread that waits for the global lock gets it, whoever    *)
(* holds it and for whatever computation, under three conditions that the  *)
(* code does not enforce and a program can break:                          *)
(*   Tests   a thread that runs comes to a test of has_int again, and      *)
(*           does so while no collection is pending ("while true {}" does  *)
(*           not, nor a native function that does not return);             *)
(*   Room    the ring is never filled with GC interrupts alone, which      *)
(*           would have dropped the THREAD_YIELD;                          *)
(*   Drains  GC interrupts do not keep coming: flags are popped youngest   *)
(*           first, and a THREAD_YIELD waits below them.                   *)
PlainInstr(t) == Count(ring, GC) = 0 /\ NextInstr(t)

Tests  == \A t \in Thread : SF_vars(PlainInstr(t))
Room   == [](Count(ring, GC) < RingSize - 1)
Drains == []<>(Count(ring, GC) = 0)

Scheduled ==
  Tests /\ Room /\ Drains =>
    \A t \in Thread : pc[t] \in {"start", "asleep", "relock"} ~> gil = t

(* The last join gets rid of the clock thread.                             *)
ClockStops == pc[Main] = "cancel" ~> pc[Main] = "free"

(* The ring is a bounded stack of flags.                                   *)
Stack == INSTANCE IntStack WITH Capacity <- RingSize - 1, pending <- Contents(ring)
RingIsStack == Stack!Spec
=============================================================================
