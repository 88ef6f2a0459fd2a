----------------------------- MODULE CallModel -----------------------------
(***************************************************************************)
(* What an ink program may assume of calls, blocks, exceptions and         *)
(* coroutines.  A coroutine is a nest of calls, a call a nest of blocks,   *)
(* a block a list of values; an exception leaves blocks and calls one by   *)
(* one until a block catches it; a coroutine that is resumed runs on top   *)
(* of the one that resumes it, and no coroutine runs twice at a time.      *)
(* There is no flat stack here, there are no pointers into it and no       *)
(* flags: module Coro, which has them, is shown to implement it.           *)
(***************************************************************************)
EXTENDS Naturals, SequencesExt

CONSTANTS
  Coro, MainCoro,       \* coroutines, and the one the program starts in
  Thread, MainThread,   \* threads, and the one the program starts in
  Value, None, Exc,     \* values; none; an exception raised by the machine
  Nil                   \* NULL

VARIABLES
  call,     \* calls in progress in each coroutine, or Nil: not created
  fresh,    \* what is to become of the first argument of a coroutine
  chain,    \* what each thread runs: a coroutine, the coroutine it has
            \* resumed or the function its native code has called, and so on
  start,    \* the coroutine a thread has been spawned for
  except,   \* the exception on its way, or Nil
  failing   \* the thread it is on its way in, or Nil

vars == <<call, fresh, chain, start, except, failing>>

Block(vals) == [vals |-> vals, catch |-> FALSE]
Frame(native, args, vals) ==
  [native |-> native, args |-> args, blocks |-> <<Block(vals)>>]

(* trap: an exception goes no further, it is printed.                      *)
Link(c, trap) == [co |-> c, trap |-> trap]

Init ==
  /\ call = [c \in Coro |-> IF c = MainCoro THEN <<Frame(FALSE, <<>>, <<>>)>> ELSE Nil]
  /\ fresh = [c \in Coro |-> "no"]
  /\ chain = [t \in Thread |-> IF t = MainThread THEN <<Link(MainCoro, TRUE)>> ELSE <<>>]
  /\ start = [t \in Thread |-> Nil]
  /\ except = Nil /\ failing = Nil

----------------------------------------------------------------------------
Runs(t, c) == chain[t] # <<>> /\ c = Last(chain[t]).co
Inner(c)   == Last(call[c])
Top(c)     == Last(Inner(c).blocks)
Blocks(c)  == Len(Inner(c).blocks)

WithInner(calls, f)  == Append(Front(calls), f)
WithBlocks(calls, b) == WithInner(calls, [Last(calls) EXCEPT !.blocks = b])
WithVals(calls, v) ==
  LET b == Last(calls).blocks
  IN  WithBlocks(calls, Append(Front(b), [Last(b) EXCEPT !.vals = v]))

Vals(c) == Top(c).vals
Keep(c, n) == SubSeq(Vals(c), 1, Len(Vals(c)) - n)
TakeTop(c, n) == SubSeq(Vals(c), Len(Vals(c)) - n + 1, Len(Vals(c)))
PushOn(calls, v) == WithVals(calls, Append(Last(Last(calls).blocks).vals, v))

SetCalls(c, calls) == call' = [call EXCEPT ![c] = calls]
NoSwitch == UNCHANGED <<fresh, chain, start, except, failing>>

Running(c) == \E t \in Thread : start[t] = c \/ \E i \in DOMAIN chain[t] : chain[t][i].co = c
CanResume(c) == call[c] \notin {Nil, <<>>} /\ ~ Running(c)

----------------------------------------------------------------------------
PushValue(c, v) == SetCalls(c, PushOn(call[c], v)) /\ NoSwitch

PopValue(c) ==
  /\ Vals(c) # <<>>
  /\ SetCalls(c, WithVals(call[c], Keep(c, 1))) /\ NoSwitch

(* The values above the first k of the block go into a new block.          *)
PushBlock(c, k) ==
  /\ k <= Len(Vals(c))
  /\ LET rest == Last(WithVals(call[c], SubSeq(Vals(c), 1, k))).blocks
     IN  SetCalls(c, WithBlocks(call[c],
           Append(rest, Block(SubSeq(Vals(c), k + 1, Len(Vals(c)))))))
  /\ NoSwitch

PopBlock(c, save) ==
  /\ Blocks(c) > 1 /\ (save => Vals(c) # <<>>)
  /\ LET rest == WithBlocks(call[c], Front(Inner(c).blocks))
     IN  SetCalls(c, IF save THEN PushOn(rest, Last(Vals(c))) ELSE rest)
  /\ NoSwitch

SetCatch(c, on) ==
  /\ Blocks(c) > 1
  /\ SetCalls(c, WithBlocks(call[c],
       Append(Front(Inner(c).blocks), [Top(c) EXCEPT !.catch = on])))
  /\ NoSwitch

(* A function is called on n arguments; it and its base leave the stack.   *)
(* Parameters are bound to the arguments, or these are the first values of *)
(* the function when it has no parameters.                                 *)
Callee(kind, args) ==
  Frame(kind = "native", IF kind = "ink" THEN args ELSE <<>>,
        IF kind = "ink" THEN <<>> ELSE args)

Invoke(c, kind, n, base) ==
  /\ Len(Vals(c)) >= n + base + 1
  /\ SetCalls(c, Append(WithVals(call[c], Keep(c, n + base + 1)),
                        Callee(kind, TakeTop(c, n))))
  /\ NoSwitch

(* Native code calls back; trap: it prints an exception and goes on.       *)
NativeCall(t, c, kind, args, trap) ==
  /\ SetCalls(c, Append(call[c], Callee(kind, args)))
  /\ chain' = IF kind = "native" THEN chain
              ELSE [chain EXCEPT ![t] = Append(@, Link(c, trap))]
  /\ UNCHANGED <<fresh, start, except, failing>>

(* Coroutine c of thread t yields or ends with value v: whoever resumed it *)
(* finds v in the place of the coroutine.                                  *)
Leave(t, c, calls, v) ==
  LET below == Front(chain[t])
  IN  /\ chain' = [chain EXCEPT ![t] = below]
      /\ call' = IF below = <<>> THEN [call EXCEPT ![c] = calls]
                 ELSE [call EXCEPT ![c] = calls, ![Last(below).co] =
                        PushOn(WithVals(@, Keep(Last(below).co, 1)), v)]
      /\ except' = Nil /\ failing' = Nil
      /\ UNCHANGED <<fresh, start>>

(* The innermost call is of an ink function by native code.                *)
CallsBack(c) == Last(Front(call[c])).native /\ ~ Inner(c).native

(* The innermost call ends with value v.                                   *)
Returned(t, c, v) ==
  LET rest == Front(call[c])
  IN  IF rest = <<>> THEN Leave(t, c, <<>>, v)
      ELSE /\ SetCalls(c, IF Last(rest).native THEN rest ELSE PushOn(rest, v))
           /\ chain' = IF CallsBack(c) THEN [chain EXCEPT ![t] = Front(@)] ELSE chain
           /\ UNCHANGED <<fresh, start, except, failing>>

Return(t, c) == Returned(t, c, IF Vals(c) = <<>> THEN None ELSE Last(Vals(c)))

Yield(t, c) ==
  /\ Vals(c) # <<>>
  /\ \A i \in DOMAIN call[c] : ~ call[c][i].native
  /\ Leave(t, c, WithVals(call[c], Keep(c, 1)), Last(Vals(c)))

Fork(c, d, param) ==
  /\ Vals(c) # <<>> /\ call[d] = Nil
  /\ call' = [call EXCEPT ![c] = PushOn(WithVals(@, Keep(c, 1)), Last(Vals(c))),
                          ![d] = <<Frame(FALSE, <<>>, <<>>)>>]
  /\ fresh' = [fresh EXCEPT ![d] = param]
  /\ UNCHANGED <<chain, start, except, failing>>

(* The first argument of a coroutine binds its parameters, a later one is  *)
(* the value of the yield it is at.                                        *)
Delivered(d, v) ==
  IF fresh[d] = "no" THEN PushOn(call[d], v)
  ELSE IF fresh[d] = "bind" THEN WithInner(call[d], [Inner(d) EXCEPT !.args = <<v>>])
  ELSE call[d]

Resume(t, c, d) ==
  /\ Len(Vals(c)) >= 2 /\ CanResume(d)
  /\ call' = [call EXCEPT ![c] = WithVals(@, Keep(c, 1)),
                          ![d] = Delivered(d, Last(Vals(c)))]
  /\ fresh' = [fresh EXCEPT ![d] = "no"]
  /\ chain' = [chain EXCEPT ![t] = Append(@, Link(d, TRUE))]
  /\ UNCHANGED <<start, except, failing>>

Spawn(u, d, arg) ==
  /\ CanResume(d) /\ chain[u] = <<>> /\ start[u] = Nil
  /\ u # MainThread
  /\ start' = [start EXCEPT ![u] = d]
  /\ call' = IF arg = Nil THEN call ELSE [call EXCEPT ![d] = Delivered(d, arg)]
  /\ fresh' = IF arg = Nil THEN fresh ELSE [fresh EXCEPT ![d] = "no"]
  /\ UNCHANGED <<chain, except, failing>>

ThreadStart(u) ==
  /\ start[u] # Nil /\ failing = Nil
  /\ start' = [start EXCEPT ![u] = Nil]
  /\ chain' = [chain EXCEPT ![u] = <<Link(start[u], TRUE)>>]
  /\ fresh' = [fresh EXCEPT ![start[u]] = "no"]
  /\ UNCHANGED <<call, except, failing>>

----------------------------------------------------------------------------
(* Exceptions.                                                             *)
Caught(calls, v) ==
  LET b == Last(calls).blocks
  IN  PushOn(WithBlocks(calls, Append(Front(b), [Last(b) EXCEPT !.catch = FALSE])), v)

(* An instruction that has taken n values raises v.                        *)
RaiseAfter(t, c, n, v) ==
  LET calls == WithVals(call[c], Keep(c, n))
  IN  /\ Len(Vals(c)) >= n
      /\ SetCalls(c, IF Top(c).catch THEN Caught(calls, v) ELSE calls)
      /\ IF Top(c).catch THEN UNCHANGED <<except, failing>>
         ELSE except' = v /\ failing' = t
      /\ UNCHANGED <<fresh, chain, start>>

NativeFail(t) ==
  /\ except' = Exc /\ failing' = t
  /\ UNCHANGED <<call, fresh, chain, start>>

(* One step of an exception: it is caught, or it leaves a block or a call. *)
Unwind(t, c) ==
  /\ IF Top(c).catch
     THEN /\ SetCalls(c, Caught(call[c], except))
          /\ except' = Nil /\ failing' = Nil /\ UNCHANGED <<fresh, chain, start>>
     ELSE IF Blocks(c) > 1
     THEN SetCalls(c, WithBlocks(call[c], Front(Inner(c).blocks))) /\ NoSwitch
     ELSE IF Len(call[c]) = 1
     THEN Leave(t, c, <<>>, None)
     ELSE /\ SetCalls(c, Front(call[c]))
          /\ chain' = IF CallsBack(c) THEN [chain EXCEPT ![t] = Front(@)] ELSE chain
          /\ IF CallsBack(c) /\ Last(chain[t]).trap THEN except' = Nil /\ failing' = Nil
             ELSE UNCHANGED <<except, failing>>
          /\ UNCHANGED <<fresh, start>>

InkStep(t, c) ==
  \/ \E v \in Value \cup {None} : PushValue(c, v)
  \/ PopValue(c)
  \/ \E k \in 0..Len(Vals(c)) : PushBlock(c, k)
  \/ \E b \in BOOLEAN : PopBlock(c, b) \/ SetCatch(c, b)
  \/ \E kind \in {"ink", "legacy", "native"}, n \in 0..2, base \in 0..1 :
       Invoke(c, kind, n, base)
  \/ Return(t, c) \/ Yield(t, c)
  \/ \E d \in Coro, param \in {"bind", "drop"} : Fork(c, d, param)
  \/ \E d \in Coro : Resume(t, c, d)
  \/ \E n \in 1..2 : RaiseAfter(t, c, n, Exc)
  \/ Vals(c) # <<>> /\ RaiseAfter(t, c, 1, Last(Vals(c)))

NativeStep(t, c) ==
  \/ \E v \in Value \cup {None} : Returned(t, c, v)
  \/ \E kind \in {"ink", "legacy", "native"}, n \in 0..2, trap \in BOOLEAN :
       \E args \in [1..n -> Value \cup {None}] : NativeCall(t, c, kind, args, trap)
  \/ \E d \in Coro, u \in Thread, arg \in Value \cup {None, Nil} : Spawn(u, d, arg)
  \/ NativeFail(t)

Next ==
  \/ \E t \in Thread, c \in Coro :
       /\ Runs(t, c)
       /\ \/ failing = Nil /\ ~ Inner(c).native /\ InkStep(t, c)
          \/ failing = Nil /\ Inner(c).native /\ NativeStep(t, c)
          \/ failing = t /\ Unwind(t, c)
  \/ \E u \in Thread : ThreadStart(u)

Spec == Init /\ [][Next]_vars
============================================================================
