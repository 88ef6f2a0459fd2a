---------------------------- MODULE ObjectModel ----------------------------
(***************************************************************************)
(* What an ink program may assume of objects and scopes: every object has  *)
(* slots of its own, a clone starts with those of its original and shares  *)
(* none of them, a context tied to an object by "loc" has the slots of     *)
(* that object, and memory is never reclaimed while it can be used.  There *)
(* are no slot tables, generations, barriers or moving cells here; module  *)
(* Collector is shown to implement it.                                     *)
(***************************************************************************)
EXTENDS Naturals, Sequences

(* As in Collector, whose assumption covers these: Nil is no object and no *)
(* context, Global is a context.                                           *)
CONSTANTS Obj, Ctx, Key, Nil, Global

VARIABLES
  object,   \* the slots, prototype and scope of each object, or Nil
  scope,    \* the slots, tied object and parent of each context, or Nil
  stack,    \* the values the program holds
  frames    \* the contexts of the calls in progress

vars == <<object, scope, stack, frames>>

NoSlots == [k \in Key |-> Nil]
NewObj  == [slots |-> NoSlots, proto |-> Nil, scope |-> Nil]
NewCtx  == [slots |-> NoSlots, obj |-> Nil, prev |-> Nil]

Init ==
  /\ object = [o \in Obj |-> Nil]
  /\ scope = [c \in Ctx |-> IF c = Global THEN NewCtx ELSE Nil]
  /\ stack = {} /\ frames = <<Global>>

Local == frames[Len(frames)]

(* The slots a context reads and writes.                                   *)
Slots(c) == IF scope[c].obj = Nil THEN scope[c].slots ELSE object[scope[c].obj].slots

Make(o, new) ==
  /\ object[o] = Nil
  /\ object' = [object EXCEPT ![o] = new]
  /\ stack' = stack \cup {o}
  /\ UNCHANGED <<scope, frames>>

New(o)         == Make(o, NewObj)
NewFunction(o) == Make(o, [NewObj EXCEPT !.scope = Local])
Clone(a, o)    == Make(o, object[a])

Hold(v) ==
  /\ v # Nil
  /\ stack' = stack \cup {v}
  /\ UNCHANGED <<object, scope, frames>>

Drop(v) ==
  /\ stack' = stack \ {v}
  /\ UNCHANGED <<object, scope, frames>>

SetProto(a, p) ==
  /\ object' = [object EXCEPT ![a].proto = p]
  /\ UNCHANGED <<scope, stack, frames>>

SetSlot(a, k, v) ==
  /\ object' = [object EXCEPT ![a].slots[k] = v]
  /\ UNCHANGED <<scope, stack, frames>>

Merge(a, b, K) ==
  /\ object' = [object EXCEPT ![a].slots =
                 [k \in Key |-> IF k \in K THEN object[b].slots[k] ELSE @[k]]]
  /\ UNCHANGED <<scope, stack, frames>>

SetLocalSlot(k, v) ==
  IF scope[Local].obj = Nil
  THEN /\ scope' = [scope EXCEPT ![Local].slots[k] = v]
       /\ UNCHANGED <<object, stack, frames>>
  ELSE SetSlot(scope[Local].obj, k, v)

(* "loc" is read before it has an object: a new object takes the slots.    *)
GetObject(o) ==
  /\ scope[Local].obj = Nil /\ object[o] = Nil
  /\ object' = [object EXCEPT ![o] = [NewObj EXCEPT !.slots = Slots(Local)]]
  /\ scope' = [scope EXCEPT ![Local].obj = o, ![Local].slots = NoSlots]
  /\ stack' = stack \cup {o}
  /\ UNCHANGED frames

SetObject(a) ==
  /\ scope' = [scope EXCEPT ![Local].obj = a, ![Local].slots = NoSlots]
  /\ UNCHANGED <<object, stack, frames>>

Call(f, c) ==
  /\ object[f].scope # Nil /\ scope[c] = Nil
  /\ scope' = [scope EXCEPT ![c] = [NewCtx EXCEPT !.prev = object[f].scope]]
  /\ frames' = Append(frames, c)
  /\ UNCHANGED <<object, stack>>

CallNative(f) ==
  /\ object[f].scope # Nil
  /\ frames' = Append(frames, object[f].scope)
  /\ UNCHANGED <<object, scope, stack>>

Return ==
  /\ Len(frames) > 1
  /\ frames' = SubSeq(frames, 1, Len(frames) - 1)
  /\ UNCHANGED <<object, scope, stack>>

(* Memory is reclaimed: what stays is unchanged and refers only to what    *)
(* stays.                                                                  *)
Forget ==
  /\ UNCHANGED <<stack, frames>>
  /\ \A o \in Obj : object'[o] \in {object[o], Nil}
  /\ \A c \in Ctx : scope'[c] \in {scope[c], Nil}
  /\ \A o \in stack : object'[o] # Nil
  /\ \A i \in DOMAIN frames : scope'[frames[i]] # Nil
  /\ \A o \in Obj : object'[o] # Nil =>
       /\ \A v \in {object[o].slots[k] : k \in Key} \cup {object[o].proto} :
            v # Nil => object'[v] # Nil
       /\ object[o].scope # Nil => scope'[object[o].scope] # Nil
  /\ \A c \in Ctx : scope'[c] # Nil =>
       /\ \A v \in {scope[c].slots[k] : k \in Key} \cup {scope[c].obj} :
            v # Nil => object'[v] # Nil
       /\ scope[c].prev # Nil => scope'[scope[c].prev] # Nil

Next ==
  \/ \E o \in Obj : New(o) \/ NewFunction(o) \/ GetObject(o)
  \/ \E a \in stack, o \in Obj : Clone(a, o)
  \/ \E v \in stack : Drop(v)
  \/ \E a \in stack, k \in Key : Hold(object[a].slots[k])
  \/ \E k \in Key : Hold(Slots(Local)[k])
  \/ Hold(scope[Local].obj)
  \/ \E a, p \in stack : SetProto(a, p)
  \/ \E a \in stack, k \in Key, v \in stack \cup {Nil} : SetSlot(a, k, v)
  \/ \E a, b \in stack, K \in SUBSET Key : Merge(a, b, K)
  \/ \E k \in Key, v \in stack \cup {Nil} : SetLocalSlot(k, v)
  \/ \E a \in stack : SetObject(a)
  \/ \E f \in stack, c \in Ctx : Call(f, c)
  \/ \E f \in stack : CallNative(f)
  \/ Return
  \/ Forget

Spec == Init /\ [][Next]_vars
============================================================================
