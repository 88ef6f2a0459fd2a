----------------------------- MODULE Collector -----------------------------
(***************************************************************************)
(* The generational copying collector of vm/gc.c together with everything  *)
(* it depends on to be correct: the write barriers of vm/vm.h, slot tables *)
(* shared between clones and copied on write (vm/slot.h, vm/inline/obj.h), *)
(* contexts counted by reference and tied to objects by the ink words      *)
(* "loc" and "top" (vm/inline/context.h), and function objects, whose      *)
(* destructor drops the reference they hold on their scope.                *)
(*                                                                         *)
(* An address is a pair <<id, space>>.  Space 0 is the nursery heaps[0];   *)
(* spaces 1 and 2 are heaps[1] and heaps[2], which a full collection       *)
(* exchanges: "old" says which of them is heaps[1].  A copy keeps its id,  *)
(* so the forwarding address of <<i, s>> is <<i, to>> and an object has    *)
(* been copied when the cell there is live.  Resetting a heap makes its    *)
(* cells dead; a reference to a dead cell is a dangling pointer.           *)
(*                                                                         *)
(* The collector runs under the global lock between two instructions, so   *)
(* no mutator action is interleaved with it.  The order in which the C     *)
(* recursion visits objects is abstracted: objects, then tables, then      *)
(* contexts are taken from work lists.                                     *)
(***************************************************************************)
EXTENDS Naturals, FiniteSets, Sequences

CONSTANTS
  Obj, Tab, Ctx,    \* identities of objects, slot tables and contexts
  Key,              \* slot names
  Nil,              \* NULL
  Global,           \* the global context, at the bottom of the call stack
  MaxStack,         \* bound: values on the stack
  MaxFrames,        \* bound: call depth
  MaxFunctions,     \* bound: function objects
  Protos,           \* whether programs change prototypes and merge objects
  AnyLoc            \* "loc" may be given any object (see SetObject)

ASSUME CollectorAssumption ==
  /\ Nil \notin Obj \cup Tab \cup Ctx \cup ((Obj \cup Tab) \X (0..2))
  /\ Nil \notin [slots : [Key -> Obj \cup {Nil}], proto : Obj \cup {Nil}, scope : Ctx \cup {Nil}]
  /\ Nil \notin [slots : [Key -> Obj \cup {Nil}], obj : Obj \cup {Nil}, prev : Ctx \cup {Nil}]
  /\ Global \in Ctx /\ IsFiniteSet(Obj) /\ IsFiniteSet(Ctx)
  /\ MaxStack \in Nat /\ MaxFrames \in Nat \ {0} /\ MaxFunctions \in Nat
  /\ Protos \in BOOLEAN /\ AnyLoc \in BOOLEAN

VARIABLES
  obj,              \* object cell at each address
  tab,              \* slot table at each address
  ctx,              \* context, not moved by the collector
  stack,            \* values on the stacks of the coroutines, and the other roots
  frames,           \* contexts of the call frames, the running one last
  wbObj, wbSlot, wbCtx,             \* write barrier lists
  desLog,           \* des_log[0]: objects with a destructor
  old,              \* which space is heaps[1]
  gcGen,            \* collector.gen: 1 when the next collection is full
  phase,            \* "run", or how far a collection has come
  todoObj, todoTab, todoCtx,        \* found but not yet traversed
  visited,          \* contexts with mark.cid = arg.cid
  dying,            \* objects still to be destructed
  freeing           \* the variable ctx in the loop of ivm_context_free

heapVars == <<obj, tab, ctx>>
rootVars == <<stack, frames>>
wbVars   == <<wbObj, wbSlot, wbCtx>>
workVars == <<todoObj, todoTab, todoCtx, visited>>
gcVars   == <<old, gcGen, phase, workVars, dying>>
vars     == <<heapVars, rootVars, wbVars, desLog, gcVars, freeing>>

----------------------------------------------------------------------------
(* Cells.                                                                  *)

Space   == 0..2
ObjAddr == Obj \X Space
TabAddr == Tab \X Space
ObjRef  == ObjAddr \cup {Nil}
TabRef  == TabAddr \cup {Nil}
CtxRef  == Ctx \cup {Nil}
Bit     == {0, 1}

ObjCell == [live : BOOLEAN, gen : Bit, wb : BOOLEAN, slots : TabRef,
            proto : ObjRef, scope : CtxRef]
TabCell == [live : BOOLEAN, gen : Bit, wb : BOOLEAN, shared : BOOLEAN,
            nocow : BOOLEAN, val : [Key -> ObjRef]]
CtxCell == [ref : Nat, gen : Bit, wb : BOOLEAN, slots : TabRef,
            obj : ObjRef, prev : CtxRef]

DeadObj == [live |-> FALSE, gen |-> 0, wb |-> FALSE, slots |-> Nil,
            proto |-> Nil, scope |-> Nil]
DeadTab == [live |-> FALSE, gen |-> 0, wb |-> FALSE, shared |-> FALSE,
            nocow |-> FALSE, val |-> [k \in Key |-> Nil]]
DeadCtx == [ref |-> 0, gen |-> 0, wb |-> FALSE, slots |-> Nil,
            obj |-> Nil, prev |-> Nil]

NewTabAt(gen) == [DeadTab EXCEPT !.live = TRUE, !.gen = gen]

(* heaps[gen], where newAt allocates.                                      *)
HeapAt(gen) == IF gen = 0 THEN 0 ELSE old

UnusedObj(o) == \A s \in Space : ~ obj[<<o, s>>].live
UnusedTab(n) == \A s \in Space : ~ tab[<<n, s>>].live

TypeOK ==
  /\ obj \in [ObjAddr -> ObjCell] /\ tab \in [TabAddr -> TabCell]
  /\ ctx \in [Ctx -> CtxCell]
  /\ stack \subseteq ObjAddr /\ frames \in Seq(Ctx) /\ Len(frames) <= MaxFrames
  /\ wbObj \subseteq ObjAddr /\ wbSlot \subseteq TabAddr /\ wbCtx \subseteq Ctx
  /\ desLog \subseteq ObjAddr /\ dying \subseteq ObjAddr
  /\ old \in {1, 2} /\ gcGen \in Bit
  /\ phase \in {"run", "roots", "barrier", "destruct"}
  /\ todoObj \subseteq ObjAddr /\ todoTab \subseteq TabAddr
  /\ todoCtx \subseteq Ctx /\ visited \subseteq Ctx
  /\ freeing \in CtxRef

Init ==
  /\ obj = [a \in ObjAddr |-> DeadObj] /\ tab = [a \in TabAddr |-> DeadTab]
  /\ ctx = [c \in Ctx |-> IF c = Global THEN [DeadCtx EXCEPT !.ref = 1] ELSE DeadCtx]
  /\ stack = {} /\ frames = <<Global>>
  /\ wbObj = {} /\ wbSlot = {} /\ wbCtx = {} /\ desLog = {} /\ dying = {}
  /\ old = 1 /\ gcGen = 0 /\ phase = "run"
  /\ todoObj = {} /\ todoTab = {} /\ todoCtx = {} /\ visited = {}
  /\ freeing = Nil

----------------------------------------------------------------------------
(* What the running program does.                                          *)

Running == phase = "run" /\ freeing = Nil

(* The context of the running frame.                                       *)
Local == frames[Len(frames)]

PushValue(a) ==
  /\ stack' = stack \cup {a}
  /\ Cardinality(stack') <= MaxStack

(* The generations are compared the wrong way round.                       *)
MutWBSlot(table, v)       == table.gen = 0 /\ v # Nil /\ obj[v].gen = 1

(* Conditions of the write barriers IVM_WBOBJ, IVM_WBOBJ_SLOT, IVM_WBSLOT  *)
(* and IVM_WBCTX_OBJ: an old parent receives a young child.                *)
WBObj(parent, child)      == parent.gen = 1 /\ child.gen = 0
WBObjSlot(parent, table)  == parent.gen = 1 /\ table.gen = 0
WBSlot(table, v)          == table.gen = 1 /\ v # Nil /\ obj[v].gen = 0
WBCtxObj(c, o)            == c.gen = 1 /\ o.gen = 0

(* Put in the list once: the wb bit of the parent says it is there.        *)
Remember(list, parent, x, barrier) ==
  IF barrier /\ ~ parent.wb THEN list \cup {x} ELSE list

NewObject(o) ==
  /\ UnusedObj(o)
  /\ obj' = [obj EXCEPT ![<<o, 0>>] = [DeadObj EXCEPT !.live = TRUE]]
  /\ PushValue(<<o, 0>>)
  /\ UNCHANGED <<tab, ctx, frames, wbVars, desLog>>

(* A value is popped from the stack.                                       *)
Pop(v) ==
  /\ stack' = stack \ {v}
  /\ UNCHANGED <<heapVars, frames, wbVars, desLog>>

(* ivm_object_hasProto: a is on the prototype chain that starts at p.      *)
HasProto(p, a) ==
  LET chain[n \in 0..Cardinality(Obj)] ==
        IF n = 0 THEN p
        ELSE IF chain[n - 1] = Nil THEN Nil ELSE obj[chain[n - 1]].proto
  IN  \E n \in DOMAIN chain : chain[n] = a

(* The instruction SET_PROTO refuses a circular chain.  setProto is        *)
(* IVM_WBOBJ, then the store.                                              *)
SetProto(a, p) ==
  /\ Protos
  /\ ~ HasProto(p, a)
  /\ wbObj' = Remember(wbObj, obj[a], a, WBObj(obj[a], obj[p]))
  /\ obj' = [obj EXCEPT ![a].proto = p, ![a].wb = @ \/ WBObj(obj[a], obj[p])]
  /\ UNCHANGED <<tab, ctx, rootVars, wbSlot, wbCtx, desLog>>

----------------------------------------------------------------------------
(* Slot tables.  A clone shares the table of its original until one of     *)
(* them is written; the table of a context is never shared, because the    *)
(* context writes it without looking at the object.                        *)

Shared(o)     == o.slots # Nil /\ tab[o.slots].shared
NeedsTable(o) == o.slots = Nil \/ Shared(o)

(* The private copy still counts as shared.                                *)
MutCopyState(table) == [table EXCEPT !.gen = 0, !.wb = FALSE, !.nocow = FALSE]

(* ivm_slot_table_copy_state: a private copy in the nursery.               *)
CopyState(table) ==
  [table EXCEPT !.gen = 0, !.wb = FALSE, !.shared = FALSE, !.nocow = FALSE]

(* Writes go to the table the object has, shared or not.                   *)
MutOwned(o, n) ==
  IF o.slots = Nil THEN [at |-> <<n, HeapAt(o.gen)>>, cell |-> NewTabAt(o.gen)]
  ELSE [at |-> o.slots, cell |-> tab[o.slots]]

(* The table that object o may write, after copyOnWrite or newAt: a new    *)
(* one with identity n, or the one it has.                                 *)
Owned(o, n) ==
  IF o.slots = Nil THEN [at |-> <<n, HeapAt(o.gen)>>, cell |-> NewTabAt(o.gen)]
  ELSE IF Shared(o) THEN [at |-> <<n, 0>>, cell |-> CopyState(tab[o.slots])]
  ELSE [at |-> o.slots, cell |-> tab[o.slots]]

(* Only a table that is not a copy is reported.                            *)
MutCopiedBarrier(o, own) == ~ Shared(o) /\ WBObjSlot(o, own.cell)

(* copyOnWrite reports a young copy to the barrier of an old object.       *)
CopiedBarrier(o, own) == Shared(o) /\ WBObjSlot(o, own.cell)

(* The object at a now has the table own.                                  *)
TakeTable(a, own) ==
  /\ wbObj' = Remember(wbObj, obj[a], a, CopiedBarrier(obj[a], own))
  /\ obj' = [obj EXCEPT ![a].slots = own.at,
                        ![a].wb = @ \/ CopiedBarrier(obj[a], own)]

(* ivm_slot_table_setSlot on each key of K; table "own" takes the values   *)
(* of vals there, and the barrier sees every value, written or not.        *)
StoreSlots(own, K, vals) ==
  LET barrier == \E k \in DOMAIN vals : WBSlot(own.cell, vals[k]) IN
  /\ wbSlot' = Remember(wbSlot, own.cell, own.at, barrier)
  /\ tab' = [tab EXCEPT ![own.at] =
               [own.cell EXCEPT
                  !.val = [k \in Key |-> IF k \in K THEN vals[k] ELSE own.cell.val[k]],
                  !.wb  = @ \/ barrier]]

StoreSlot(own, k, v) == StoreSlots(own, {k}, [x \in {k} |-> v])

(* ivm_object_setSlot.  A Nil value deletes the slot.                      *)
SetSlot(a, k, v, n) ==
  /\ NeedsTable(obj[a]) => UnusedTab(n)
  /\ LET own == Owned(obj[a], n) IN TakeTable(a, own) /\ StoreSlot(own, k, v)
  /\ UNCHANGED <<ctx, rootVars, wbCtx, desLog>>

GetSlot(a, k) ==
  /\ obj[a].slots # Nil
  /\ LET v == tab[obj[a].slots].val[k] IN v # Nil /\ PushValue(v)
  /\ UNCHANGED <<heapVars, frames, wbVars, desLog>>

(* ivm_object_merge.  The slots of b in K replace those of a: all of them  *)
(* when b overwrites, those a lacks when it does not.                      *)
Merge(a, b, K, n) ==
  /\ Protos
  /\ a # b /\ obj[b].slots # Nil
  /\ LET from == tab[obj[b].slots]
         own  == IF obj[a].slots = Nil
                 THEN [at |-> <<n, 0>>, cell |-> CopyState(from)]
                 ELSE Owned(obj[a], n)
         barrier == NeedsTable(obj[a]) /\ WBObjSlot(obj[a], own.cell)
     IN
     /\ NeedsTable(obj[a]) => UnusedTab(n)
     /\ obj' = [obj EXCEPT ![a].slots = own.at, ![a].wb = @ \/ barrier]
     /\ wbObj' = Remember(wbObj, obj[a], a, barrier)
     /\ IF obj[a].slots = Nil
        THEN tab' = [tab EXCEPT ![own.at] = own.cell] /\ UNCHANGED wbSlot
        ELSE StoreSlots(own, K, from.val)
  /\ UNCHANGED <<ctx, rootVars, wbCtx, desLog>>

(* The scope of a function is not counted.                                 *)
MutRefScope(c) == ctx' = ctx

(* The cloner of function objects takes a reference on the scope and       *)
(* enters the clone in the destructor log.                                 *)
RefScope(c) ==
  ctx' = IF c = Nil THEN ctx ELSE [ctx EXCEPT ![c].ref = @ + 1]

LogFunction(a, c) ==
  desLog' = IF c = Nil THEN desLog ELSE desLog \cup {a}

Functions == {a \in ObjAddr : obj[a].live /\ obj[a].scope # Nil}

(* ivm_object_clone, with ivm_slot_table_copyShared.                       *)
Clone(a, o, n) ==
  LET t     == obj[a].slots
      nocow == t # Nil /\ tab[t].nocow
      clone == [obj[a] EXCEPT !.gen = 0, !.wb = FALSE,
                              !.slots = IF nocow THEN <<n, 0>> ELSE t]
  IN
  /\ UnusedObj(o) /\ (nocow => UnusedTab(n))
  /\ obj[a].scope # Nil => Cardinality(Functions) < MaxFunctions
  /\ obj' = [obj EXCEPT ![<<o, 0>>] = clone]
  /\ tab' = IF t = Nil THEN tab
            ELSE IF nocow THEN [tab EXCEPT ![<<n, 0>>] = CopyState(tab[t])]
            ELSE [tab EXCEPT ![t].shared = TRUE]
  /\ RefScope(obj[a].scope) /\ LogFunction(<<o, 0>>, obj[a].scope)
  /\ PushValue(<<o, 0>>)
  /\ UNCHANGED <<frames, wbVars>>

----------------------------------------------------------------------------
(* Contexts.                                                               *)

(* ivm_context_setSlot with initSlots.  No barrier is needed for the new   *)
(* table: it is allocated in the generation of the context.                *)
SetLocalSlot(k, v, n) ==
  LET c   == ctx[Local]
      own == IF c.slots = Nil THEN [at |-> <<n, HeapAt(c.gen)>>, cell |-> NewTabAt(c.gen)]
             ELSE [at |-> c.slots, cell |-> tab[c.slots]]
  IN
  /\ c.slots = Nil => UnusedTab(n)
  /\ ctx' = [ctx EXCEPT ![Local].slots = own.at]
  /\ StoreSlot(own, k, v)
  /\ UNCHANGED <<obj, rootVars, wbObj, wbCtx, desLog>>

GetLocalSlot(k) ==
  /\ ctx[Local].slots # Nil
  /\ LET v == tab[ctx[Local].slots].val[k] IN v # Nil /\ PushValue(v)
  /\ UNCHANGED <<heapVars, frames, wbVars, desLog>>

(* addWBContext holds a reference on the context while it is in the list.  *)
CtxBarrier(c, barrier) ==
  /\ wbCtx' = Remember(wbCtx, ctx[c], c, barrier)

(* The list holds the context without a reference.                         *)
MutBarred(cell, barrier) == [cell EXCEPT !.wb = @ \/ barrier]

(* The context with a new reference when the barrier records it.           *)
Barred(cell, barrier) ==
  [cell EXCEPT !.wb  = @ \/ barrier,
               !.ref = IF barrier /\ ~ cell.wb THEN @ + 1 ELSE @]

(* ivm_context_getObject: "loc" is read, the context gets an object that   *)
(* shares its table.                                                       *)
GetObject(o, n) ==
  LET c == ctx[Local]
      t == IF c.slots = Nil THEN <<n, HeapAt(c.gen)>> ELSE c.slots
      table == IF c.slots = Nil THEN NewTabAt(c.gen) ELSE tab[t]
      new == [DeadObj EXCEPT !.live = TRUE, !.slots = t]
      barrier == WBCtxObj(c, new)
  IN
  /\ c.obj = Nil
  /\ UnusedObj(o) /\ (c.slots = Nil => UnusedTab(n))
  /\ tab' = [tab EXCEPT ![t] = [table EXCEPT !.nocow = TRUE]]
  /\ obj' = [obj EXCEPT ![<<o, 0>>] = new]
  /\ ctx' = [ctx EXCEPT ![Local] =
               Barred([c EXCEPT !.slots = t, !.obj = <<o, 0>>], barrier)]
  /\ CtxBarrier(Local, barrier)
  /\ PushValue(<<o, 0>>)
  /\ UNCHANGED <<frames, wbObj, wbSlot, desLog>>

GetObjectAgain ==
  /\ ctx[Local].obj # Nil
  /\ PushValue(ctx[Local].obj)
  /\ UNCHANGED <<heapVars, frames, wbVars, desLog>>

(* The context would get a young table and no barrier would see it: the    *)
(* context and the object are old, so IVM_WBCTX_OBJ records nothing.       *)
UnseenTable(c, o, own) == c.gen = 1 /\ o.gen = 1 /\ own.cell.gen = 0

(* ivm_context_setObject: "loc" is assigned.                               *)
SetObject(a, n) ==
  LET c == ctx[Local]
      own == Owned(obj[a], n)
      barrier == WBCtxObj(c, obj[a])
  IN
  /\ AnyLoc \/ ~ UnseenTable(c, obj[a], own)
  /\ NeedsTable(obj[a]) => UnusedTab(n)
  /\ TakeTable(a, own)
  /\ tab' = [tab EXCEPT ![own.at] = [own.cell EXCEPT !.nocow = TRUE]]
  /\ ctx' = [ctx EXCEPT ![Local] =
               Barred([c EXCEPT !.slots = own.at, !.obj = a], barrier)]
  /\ CtxBarrier(Local, barrier)
  /\ UNCHANGED <<rootVars, wbSlot, desLog>>

(* A function literal: ivm_function_object_new with the local context.     *)
NewFunction(o) ==
  /\ UnusedObj(o) /\ Cardinality(Functions) < MaxFunctions
  /\ obj' = [obj EXCEPT ![<<o, 0>>] = [DeadObj EXCEPT !.live = TRUE, !.scope = Local]]
  /\ RefScope(Local) /\ LogFunction(<<o, 0>>, Local)
  /\ PushValue(<<o, 0>>)
  /\ UNCHANGED <<tab, frames, wbVars>>

(* _ivm_function_invoke_c: a context whose prev is the scope, one          *)
(* reference from the frame and one from the new context.                  *)
Call(f, c) ==
  /\ obj[f].scope # Nil /\ ctx[c].ref = 0
  /\ Len(frames) < MaxFrames
  /\ ctx' = [ctx EXCEPT ![c] = [DeadCtx EXCEPT !.ref = 1, !.prev = obj[f].scope],
                        ![obj[f].scope].ref = ctx[obj[f].scope].ref + 1]
  /\ frames' = Append(frames, c)
  /\ UNCHANGED <<obj, tab, stack, wbVars, desLog>>

(* ivm_runtime_invokeNative: a native function runs in its scope itself.   *)
CallNative(f) ==
  /\ obj[f].scope # Nil
  /\ Len(frames) < MaxFrames
  /\ RefScope(obj[f].scope)
  /\ frames' = Append(frames, obj[f].scope)
  /\ UNCHANGED <<obj, tab, stack, wbVars, desLog>>

(* The frame is popped; ivm_runtime_dump frees its context.                *)
Return ==
  /\ Len(frames) > 1
  /\ frames' = SubSeq(frames, 1, Len(frames) - 1)
  /\ freeing' = Local
  /\ UNCHANGED <<heapVars, stack, wbVars, desLog>>

(* One turn of the loop in ivm_context_free.                               *)
ContextFree ==
  /\ freeing # Nil
  /\ IF ctx[freeing].ref = 1
     THEN /\ ctx' = [ctx EXCEPT ![freeing] = DeadCtx]
          /\ freeing' = ctx[freeing].prev
     ELSE /\ ctx' = [ctx EXCEPT ![freeing].ref = @ - 1]
          /\ freeing' = Nil
  /\ UNCHANGED <<obj, tab, rootVars, wbVars, desLog, gcVars>>

(* ivm_vmstate_addWildSize: the next collection will be a full one.        *)
AddWildSize ==
  /\ gcGen' = 1
  /\ UNCHANGED <<heapVars, rootVars, wbVars, desLog, old, phase, workVars, dying>>

Mutate ==
  \/ \E o \in Obj : NewObject(o)
  \/ \E v \in stack : Pop(v)
  \/ \E a, p \in stack : SetProto(a, p)
  \/ \E a \in stack, k \in Key, v \in stack \cup {Nil}, n \in Tab : SetSlot(a, k, v, n)
  \/ \E a \in stack, k \in Key : GetSlot(a, k)
  \/ \E a, b \in stack, K \in SUBSET Key, n \in Tab : Merge(a, b, K, n)
  \/ \E a \in stack, o \in Obj, n \in Tab : Clone(a, o, n)
  \/ \E k \in Key, v \in stack \cup {Nil}, n \in Tab : SetLocalSlot(k, v, n)
  \/ \E k \in Key : GetLocalSlot(k)
  \/ \E o \in Obj, n \in Tab : GetObject(o, n)
  \/ GetObjectAgain
  \/ \E a \in stack, n \in Tab : SetObject(a, n)
  \/ \E o \in Obj : NewFunction(o)
  \/ \E f \in stack, c \in Ctx : Call(f, c)
  \/ \E f \in stack : CallNative(f)

----------------------------------------------------------------------------
(* The collector.                                                          *)

Full == gcGen = 1
to   == IF Full THEN 3 - old ELSE old          \* arg.heap

To(a) == <<a[1], to>>

(* Old cells stay where they are in a partial collection.                  *)
Stays(cell) == ~ Full /\ cell.gen = 1

(* What a reference becomes, and the cells that must be copied for it.     *)
ForwardObj(a) == IF a = Nil \/ Stays(obj[a]) THEN a ELSE To(a)
ForwardTab(t) == IF t = Nil \/ Stays(tab[t]) THEN t ELSE To(t)
FindObj(a) == IF a = Nil \/ Stays(obj[a]) \/ obj[To(a)].live THEN {} ELSE {a}
FindTab(t) == IF t = Nil \/ Stays(tab[t]) \/ tab[To(t)].live THEN {} ELSE {t}

(* travContext stops at an old context without write barrier, and          *)
(* travSingleContext at one this collection has seen.                      *)
FindCtx(c) ==
  IF c = Nil \/ c \in visited \/ (ctx[c].gen > gcGen /\ ~ ctx[c].wb) THEN {} ELSE {c}

Values(table) == {table.val[k] : k \in Key} \ {Nil}

MovedTab(table) == [table EXCEPT !.val = [k \in Key |-> ForwardObj(table.val[k])]]
MovedObj(o) ==
  [o EXCEPT !.wb = FALSE, !.slots = ForwardTab(o.slots), !.proto = ForwardObj(o.proto)]

Idle == todoObj = {} /\ todoTab = {} /\ todoCtx = {} /\ freeing = Nil

(* ivm_collector_collect calls travState: the values on the stacks and the *)
(* contexts of the frames are found.                                       *)
TravState ==
  /\ Running
  /\ phase' = "roots"
  /\ stack' = {ForwardObj(a) : a \in stack}
  /\ todoObj' = UNION {FindObj(a) : a \in stack}
  /\ todoCtx' = UNION {FindCtx(frames[i]) : i \in DOMAIN frames}
  /\ UNCHANGED <<heapVars, frames, wbVars, desLog, old, gcGen, todoTab, visited,
                 dying, freeing>>

(* The copy keeps the generation of the nursery.                           *)
MutCopyObject(a) ==
  /\ obj' = [obj EXCEPT ![To(a)] = MovedObj(obj[a])]
  /\ todoObj' = (todoObj \ {a}) \cup (FindObj(obj[a].proto) \ {a})
  /\ todoTab' = todoTab \cup FindTab(obj[a].slots)
  /\ todoCtx' = todoCtx \cup FindCtx(obj[a].scope)
  /\ UNCHANGED <<tab, ctx, rootVars, wbVars, desLog, old, gcGen, phase, visited,
                 dying, freeing>>

(* copyObject_c.  The traverser of function objects finds the scope.       *)
CopyObject(a) ==
  /\ obj' = [obj EXCEPT ![To(a)] = [MovedObj(obj[a]) EXCEPT !.gen = 1]]
  /\ todoObj' = (todoObj \ {a}) \cup (FindObj(obj[a].proto) \ {a})
  /\ todoTab' = todoTab \cup FindTab(obj[a].slots)
  /\ todoCtx' = todoCtx \cup FindCtx(obj[a].scope)
  /\ UNCHANGED <<tab, ctx, rootVars, wbVars, desLog, old, gcGen, phase, visited,
                 dying, freeing>>

CopySlotTable(t) ==
  /\ todoObj = {}
  /\ tab' = [tab EXCEPT ![To(t)] = [MovedTab(tab[t]) EXCEPT !.gen = 1, !.wb = FALSE]]
  /\ todoTab' = todoTab \ {t}
  /\ todoObj' = UNION {FindObj(v) : v \in Values(tab[t])}
  /\ UNCHANGED <<obj, ctx, rootVars, wbVars, desLog, old, gcGen, phase, todoCtx,
                 visited, dying, freeing>>

(* travSingleContext, and the step of travContext to prev.                 *)
TravContext(c) ==
  /\ todoObj = {} /\ todoTab = {}
  /\ ctx' = [ctx EXCEPT ![c] =
               [ctx[c] EXCEPT !.gen = 1, !.wb = FALSE,
                              !.slots = ForwardTab(@), !.obj = ForwardObj(@)]]
  /\ visited' = visited \cup {c}
  /\ todoObj' = FindObj(ctx[c].obj)
  /\ todoTab' = FindTab(ctx[c].slots)
  /\ todoCtx' = (todoCtx \cup FindCtx(ctx[c].prev)) \ {c}
  /\ UNCHANGED <<obj, tab, rootVars, wbVars, desLog, old, gcGen, phase, dying, freeing>>

(* The first half of checkWriteBarrier: copyObject_ng for the remembered   *)
(* objects and copySlotTable_ng for the remembered tables, in a partial    *)
(* collection only.                                                        *)
CheckWriteBarrier ==
  /\ phase = "roots" /\ Idle
  /\ phase' = "barrier"
  /\ IF Full THEN UNCHANGED <<obj, tab, todoObj, todoTab>>
     ELSE /\ obj' = [a \in ObjAddr |-> IF a \in wbObj THEN MovedObj(obj[a]) ELSE obj[a]]
          /\ tab' = [t \in TabAddr |-> IF t \in wbSlot
                                       THEN [MovedTab(tab[t]) EXCEPT !.wb = FALSE]
                                       ELSE tab[t]]
          /\ todoObj' = UNION ({FindObj(obj[a].proto) : a \in wbObj}
                               \cup {FindObj(v) : v \in UNION {Values(tab[t]) : t \in wbSlot}})
          /\ todoTab' = UNION {FindTab(obj[a].slots) : a \in wbObj}
  /\ todoCtx' = IF Full THEN todoCtx
                ELSE UNION {FindCtx(obj[a].scope) : a \in wbObj}
  /\ wbObj' = {} /\ wbSlot' = {}
  /\ UNCHANGED <<ctx, rootVars, wbCtx, desLog, old, gcGen, visited, dying, freeing>>

(* The second half: each remembered context is traversed, unless the list  *)
(* alone keeps it, and the reference of the list is dropped.               *)
CheckContext(c) ==
  /\ phase = "barrier" /\ Idle
  /\ wbCtx' = wbCtx \ {c}
  /\ todoCtx' = IF ~ Full /\ ctx[c].ref # 1 THEN FindCtx(c) ELSE {}
  /\ freeing' = c
  /\ UNCHANGED <<heapVars, rootVars, wbObj, wbSlot, desLog, old, gcGen, phase,
                 todoObj, todoTab, visited, dying>>

Copied(a) == a[2] # to /\ obj[To(a)].live

(* checkIfDestruct: an object without copy dies if its generation was      *)
(* collected.                                                              *)
Dies(a) == ~ Copied(a) /\ obj[a].gen <= gcGen

(* Objects of the old generation have no copy after a partial collection.  *)
MutTriggerDestructor ==
  /\ phase = "barrier" /\ Idle /\ wbCtx = {}
  /\ phase' = "destruct"
  /\ dying' = {a \in desLog : ~ Copied(a)}
  /\ desLog' = {To(a) : a \in {b \in desLog : Copied(b)}}
  /\ UNCHANGED <<heapVars, rootVars, wbVars, old, gcGen, workVars, freeing>>

(* triggerDestructor: the log of the survivors.                            *)
TriggerDestructor ==
  /\ phase = "barrier" /\ Idle /\ wbCtx = {}
  /\ phase' = "destruct"
  /\ dying' = {a \in desLog : Dies(a)}
  /\ desLog' = {IF Copied(a) THEN To(a) ELSE a : a \in {b \in desLog : ~ Dies(b)}}
  /\ UNCHANGED <<heapVars, rootVars, wbVars, old, gcGen, workVars, freeing>>

(* ivm_function_object_destructor drops the reference on the scope.        *)
Destruct(a) ==
  /\ phase = "destruct" /\ freeing = Nil
  /\ dying' = dying \ {a}
  /\ freeing' = obj[a].scope
  /\ UNCHANGED <<heapVars, rootVars, wbVars, desLog, old, gcGen, phase, workVars>>

(* The end of ivm_collector_collect.  Whether a partial collection filled  *)
(* a block of heaps[1], so that the next one is full, is left open.        *)
ResetHeaps ==
  /\ phase = "destruct" /\ dying = {} /\ freeing = Nil
  /\ LET reset == IF Full THEN {0, old} ELSE {0} IN
     /\ obj' = [a \in ObjAddr |-> IF a[2] \in reset THEN DeadObj ELSE obj[a]]
     /\ tab' = [t \in TabAddr |-> IF t[2] \in reset THEN DeadTab ELSE tab[t]]
  /\ IF Full THEN old' = to /\ gcGen' = 0
     ELSE old' = old /\ gcGen' \in Bit
  /\ phase' = "run" /\ visited' = {}
  /\ UNCHANGED <<ctx, rootVars, wbVars, desLog, todoObj, todoTab, todoCtx, dying, freeing>>

Collect ==
  \/ \E a \in todoObj : CopyObject(a)
  \/ \E t \in todoTab : CopySlotTable(t)
  \/ \E c \in todoCtx : TravContext(c)
  \/ CheckWriteBarrier
  \/ \E c \in wbCtx : CheckContext(c)
  \/ TriggerDestructor
  \/ \E a \in dying : Destruct(a)
  \/ ResetHeaps
  \/ ContextFree

Next ==
  \/ Running /\ Mutate /\ UNCHANGED <<gcVars, freeing>>
  \/ Running /\ Return /\ UNCHANGED gcVars
  \/ Running /\ AddWildSize /\ UNCHANGED freeing
  \/ TravState
  \/ Collect

Spec == Init /\ [][Next]_vars

----------------------------------------------------------------------------
(* Properties.                                                             *)

LiveObj == {a \in ObjAddr : obj[a].live}
LiveTab == {t \in TabAddr : tab[t].live}
LiveCtx == {c \in Ctx : ctx[c].ref > 0}

ObjOk(a) == a = Nil \/ obj[a].live
TabOk(t) == t = Nil \/ tab[t].live
CtxOk(c) == c = Nil \/ ctx[c].ref > 0

(* The collector leaves no dangling pointer: whenever the program runs,    *)
(* everything it can reach, every remembered address and even everything   *)
(* that garbage of the old generation refers to is a live cell.            *)
NoDangling ==
  phase = "run" =>
    /\ \A a \in stack \cup wbObj \cup desLog : ObjOk(a)
    /\ \A t \in wbSlot : TabOk(t)
    /\ \A a \in LiveObj : TabOk(obj[a].slots) /\ ObjOk(obj[a].proto)
    /\ \A t \in LiveTab, k \in Key : ObjOk(tab[t].val[k])
    /\ \A c \in LiveCtx : TabOk(ctx[c].slots) /\ ObjOk(ctx[c].obj)
    /\ freeing = Nil =>
         /\ \A i \in DOMAIN frames : CtxOk(frames[i])
         /\ \A c \in LiveCtx : CtxOk(ctx[c].prev)
         /\ \A a \in LiveObj : CtxOk(obj[a].scope)

YoungObj(a) == a # Nil /\ obj[a].gen = 0
YoungTab(t) == t # Nil /\ tab[t].gen = 0

(* The write barriers miss nothing: an old cell that refers to the nursery *)
(* is in its list, a cell is in its list when and only when its wb bit is  *)
(* set, and what needs no barrier (the prev of a context, the scope of a   *)
(* function) never points from an old cell to a young context.             *)
Remembered ==
  phase = "run" =>
    /\ \A a \in LiveObj :
         /\ obj[a].wb <=> a \in wbObj
         /\ obj[a].gen = 1 /\ (YoungTab(obj[a].slots) \/ YoungObj(obj[a].proto)) => obj[a].wb
         /\ obj[a].gen = 1 /\ obj[a].scope # Nil => ctx[obj[a].scope].gen = 1
    /\ \A t \in LiveTab :
         /\ tab[t].wb <=> t \in wbSlot
         /\ tab[t].gen = 1 /\ (\E v \in Values(tab[t]) : YoungObj(v)) => tab[t].wb
    /\ \A c \in LiveCtx :
         /\ ctx[c].wb <=> c \in wbCtx
         /\ ctx[c].gen = 1 /\ (YoungTab(ctx[c].slots) \/ YoungObj(ctx[c].obj)) => ctx[c].wb
         /\ ctx[c].gen = 1 /\ ctx[c].prev # Nil /\ freeing = Nil => ctx[ctx[c].prev].gen = 1

(* An old context never holds a young slot table that the next partial     *)
(* collection will not forward.                                            *)
ContextRemembered ==
  phase = "run" =>
    \A c \in LiveCtx : ctx[c].gen = 1 /\ YoungTab(ctx[c].slots) => c \in wbCtx

(* Generations are what the heaps say: the nursery holds generation 0 and  *)
(* heaps[1] generation 1, and after a collection nothing else is live.     *)
GenIsHeap ==
  phase = "run" =>
    /\ \A a \in LiveObj : obj[a].gen = (IF a[2] = 0 THEN 0 ELSE 1) /\ a[2] \in {0, old}
    /\ \A t \in LiveTab : tab[t].gen = (IF t[2] = 0 THEN 0 ELSE 1) /\ t[2] \in {0, old}

(* Reference counts are exact while the program runs: a context is         *)
(* referred to by as many frames, function objects not yet destructed,     *)
(* younger contexts and write barrier entries as its count says.  So it is *)
(* returned to the pool when the last of them goes, and not before.        *)
CountExact ==
  Running =>
    \A c \in Ctx :
      ctx[c].ref = Cardinality({i \in DOMAIN frames : frames[i] = c})
                   + Cardinality({a \in desLog : obj[a].scope = c})
                   + Cardinality({d \in LiveCtx : ctx[d].prev = c})
                   + Cardinality(wbCtx \cap {c})

(* Every function object the program can reach will have its destructor    *)
(* called, and none that was destructed is left.                           *)
DestructorOnce == Running => Functions = desLog

(* Copy on write is invisible: two objects have the same table only while  *)
(* it is marked shared, and a context writes only tables that no clone     *)
(* shares and that its own object sees.                                    *)
SharingMarked ==
  phase = "run" =>
    /\ \A a, b \in LiveObj :
         a # b /\ obj[a].slots = obj[b].slots /\ obj[a].slots # Nil =>
           tab[obj[a].slots].shared
    /\ \A c \in LiveCtx : ctx[c].obj # Nil =>
         /\ obj[ctx[c].obj].slots = ctx[c].slots
         /\ tab[ctx[c].slots].nocow /\ ~ tab[ctx[c].slots].shared

----------------------------------------------------------------------------
(* The abstract view: identities without addresses.                        *)

Id(a) == IF a = Nil THEN Nil ELSE a[1]

(* Where the contents of an object or a table are: in its copy once there  *)
(* is one.                                                                 *)
ObjAt(o) == LET at == {s \in Space : obj[<<o, s>>].live} IN
            <<o, IF to \in at THEN to ELSE CHOOSE s \in at : TRUE>>
TabAt(n) == LET at == {s \in Space : tab[<<n, s>>].live} IN
            <<n, IF to \in at THEN to ELSE CHOOSE s \in at : TRUE>>

(* Once the survivors are known, only they count: cells of the generations *)
(* not collected, copies, and the contexts traversed.                      *)
Kept(o) ==
  IF phase = "destruct" THEN obj[<<o, to>>].live ELSE ~ UnusedObj(o)
KeptCtx(c) ==
  ctx[c].ref > 0 /\ (phase = "destruct" => c \in visited \/ ctx[c].gen > gcGen)

SlotsOf(t) ==
  [k \in Key |-> IF t = Nil THEN Nil ELSE Id(tab[TabAt(t[1])].val[k])]

AbsObject ==
  [o \in Obj |->
    IF ~ Kept(o) THEN Nil
    ELSE LET cell == obj[ObjAt(o)] IN
         [slots |-> SlotsOf(cell.slots), proto |-> Id(cell.proto), scope |-> cell.scope]]

AbsScope ==
  [c \in Ctx |->
    IF ~ KeptCtx(c) THEN Nil
    ELSE [slots |-> SlotsOf(IF ctx[c].obj = Nil THEN ctx[c].slots ELSE Nil),
          obj |-> Id(ctx[c].obj), prev |-> ctx[c].prev]]

Model == INSTANCE ObjectModel WITH
  object <- AbsObject, scope <- AbsScope, stack <- {a[1] : a \in stack}

(* The collector, the barriers, copy on write and the reference counts     *)
(* together implement plain objects: no collection changes what a program  *)
(* can see.                                                                *)
Transparent == Model!Spec
============================================================================
