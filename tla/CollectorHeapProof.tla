------------------------- MODULE CollectorHeapProof -------------------------
(***************************************************************************)
(* The heaps, the write barriers and the scopes of a VM state, for any     *)
(* number of objects, tables, contexts and slots: the types, the inductive *)
(* invariant of the collector, what an instruction may write, and the      *)
(* reference counts of the contexts.  Then the steps of a collection, from *)
(* ivm_collector_travState to the exchange of the heaps: each keeps the    *)
(* inductive invariant, and the last one gives it back to the running      *)
(* program.                                                                *)
(***************************************************************************)
EXTENDS Collector, Integers, FiniteSetTheorems, SequenceTheorems, TLAPS

(***************************************************************************)
(* Types.                                                                  *)
(***************************************************************************)

(* A context whose count is not yet known to stay above 0.                 *)
CtxCellI == [ref : Int, gen : Bit, wb : BOOLEAN, slots : TabRef,
             obj : ObjRef, prev : CtxRef]

HeapTypes ==
  /\ obj \in [ObjAddr -> ObjCell] /\ tab \in [TabAddr -> TabCell]
  /\ ctx \in [Ctx -> CtxCellI]
RootTypes ==
  /\ stack \subseteq ObjAddr /\ frames \in Seq(Ctx) /\ Len(frames) \in 1..MaxFrames
  /\ freeing \in CtxRef
ListTypes ==
  /\ wbObj \subseteq ObjAddr /\ wbSlot \subseteq TabAddr /\ wbCtx \subseteq Ctx
  /\ desLog \subseteq ObjAddr /\ dying \subseteq ObjAddr
WorkTypes ==
  /\ old \in {1, 2} /\ gcGen \in Bit
  /\ phase \in {"run", "roots", "barrier", "destruct"}
  /\ todoObj \subseteq ObjAddr /\ todoTab \subseteq TabAddr
  /\ todoCtx \subseteq Ctx /\ visited \subseteq Ctx
Types == HeapTypes /\ RootTypes /\ ListTypes /\ WorkTypes

(* Addresses.                                                              *)
LEMMA Addresses ==
  /\ \A a \in ObjAddr : a[1] \in Obj /\ a[2] \in Space /\ a = <<a[1], a[2]>>
  /\ \A t \in TabAddr : t[1] \in Tab /\ t[2] \in Space /\ t = <<t[1], t[2]>>
  /\ \A o \in Obj, s \in Space : <<o, s>> \in ObjAddr
  /\ \A n \in Tab, s \in Space : <<n, s>> \in TabAddr
  /\ Nil \notin ObjAddr /\ Nil \notin TabAddr /\ Nil \notin Ctx
<1>1. Nil \notin ObjAddr
  <2> SUFFICES ASSUME Nil \in ObjAddr PROVE FALSE
    OBVIOUS
  <2>1. PICK o \in Obj, s \in Space : Nil = <<o, s>>
    BY DEF ObjAddr
  <2>2. <<o, s>> \in (Obj \cup Tab) \X (0 .. 2)
    BY DEF Space
  <2> QED BY <2>1, <2>2, CollectorAssumption
<1>2. Nil \notin TabAddr
  <2> SUFFICES ASSUME Nil \in TabAddr PROVE FALSE
    OBVIOUS
  <2>1. PICK o \in Tab, s \in Space : Nil = <<o, s>>
    BY DEF TabAddr
  <2>2. <<o, s>> \in (Obj \cup Tab) \X (0 .. 2)
    BY DEF Space
  <2> QED BY <2>1, <2>2, CollectorAssumption
<1>3. Nil \notin Ctx
  BY CollectorAssumption
<1> QED BY <1>1, <1>2, <1>3 DEF ObjAddr, TabAddr

(* What the cells of a new or unused object, table or context hold is      *)
(* typed.                                                                  *)
LEMMA Cells ==
  /\ DeadObj \in ObjCell /\ DeadTab \in TabCell /\ DeadCtx \in CtxCellI
  /\ \A g \in Bit : NewTabAt(g) \in TabCell
<1>1. Nil \in ObjRef /\ Nil \in TabRef /\ Nil \in CtxRef /\ 0 \in Bit /\ 0 \in Int
  BY DEF ObjRef, TabRef, CtxRef, Bit
<1>2. DeadObj \in ObjCell
  BY <1>1 DEF DeadObj, ObjCell
<1>3. DeadCtx \in CtxCellI
  BY <1>1 DEF DeadCtx, CtxCellI
<1>4. [k \in Key |-> Nil] \in [Key -> ObjRef]
  BY <1>1
<1>5. DeadTab \in TabCell
  BY <1>1, <1>4 DEF DeadTab, TabCell
<1>6. \A g \in Bit : NewTabAt(g) \in TabCell
  BY <1>5 DEF NewTabAt, TabCell
<1> QED BY <1>2, <1>3, <1>5, <1>6

(* Cells with other contents.                                              *)
LEMMA ObjCells ==
  ASSUME NEW c \in ObjCell, NEW s \in TabRef, NEW p \in ObjRef, NEW b \in BOOLEAN, NEW g \in Bit,
         NEW x \in CtxRef
  PROVE  /\ [c EXCEPT !.slots = s] \in ObjCell
         /\ [c EXCEPT !.slots = s, !.wb = b] \in ObjCell
         /\ [c EXCEPT !.proto = p, !.wb = b] \in ObjCell
         /\ [c EXCEPT !.gen = g] \in ObjCell
         /\ [c EXCEPT !.wb = b, !.slots = s, !.proto = p] \in ObjCell
         /\ [c EXCEPT !.gen = g, !.wb = b, !.slots = s] \in ObjCell
         /\ [c EXCEPT !.live = TRUE, !.slots = s] \in ObjCell
         /\ [c EXCEPT !.live = TRUE, !.scope = x] \in ObjCell
         /\ [c EXCEPT !.live = TRUE] \in ObjCell
BY DEF ObjCell

(* What the steps make of a table is a table: a copy, and the same table   *)
(* with other values, marks or generation.                                 *)
LEMMA TabCells ==
  ASSUME NEW c \in TabCell, NEW v \in [Key -> ObjRef], NEW b \in BOOLEAN, NEW g \in Bit
  PROVE  /\ CopyState(c) \in TabCell
         /\ [c EXCEPT !.val = v, !.wb = b] \in TabCell
         /\ [c EXCEPT !.val = v] \in TabCell
         /\ [c EXCEPT !.nocow = TRUE] \in TabCell
         /\ [c EXCEPT !.shared = TRUE] \in TabCell
         /\ [c EXCEPT !.gen = g, !.wb = FALSE] \in TabCell
         /\ [c EXCEPT !.wb = FALSE] \in TabCell
BY DEF TabCell, CopyState, Bit

(* A context with one reference more or less, and one that the barrier     *)
(* records.                                                                *)
LEMMA CountCells ==
  \A c \in CtxCellI : /\ [c EXCEPT !.ref = @ + 1] \in CtxCellI
                      /\ [c EXCEPT !.ref = @ - 1] \in CtxCellI
BY DEF CtxCellI
(* A context that a write barrier marked is a context.                     *)
LEMMA BarredTypes == \A c \in CtxCellI : \A b \in BOOLEAN : Barred(c, b) \in CtxCellI
<1> SUFFICES ASSUME NEW c \in CtxCellI, NEW b \in BOOLEAN PROVE Barred(c, b) \in CtxCellI
  OBVIOUS
<1>1. c.ref \in Int /\ c.wb \in BOOLEAN
  BY DEF CtxCellI
<1>2. PICK n \in Int : n = IF b /\ ~ c.wb THEN c.ref + 1 ELSE c.ref
  BY <1>1
<1>3. PICK w \in BOOLEAN : w = (c.wb \/ b)
  OBVIOUS
<1>4. Barred(c, b) = [c EXCEPT !.wb = w, !.ref = n]
  BY <1>2, <1>3 DEF Barred
<1>5. [c EXCEPT !.wb = w, !.ref = n] \in CtxCellI
  BY DEF CtxCellI
<1> QED BY <1>4, <1>5

(* The context of a new frame.                                             *)
LEMMA CalledCell == \A p \in CtxRef : [DeadCtx EXCEPT !.ref = 1, !.prev = p] \in CtxCellI
<1>1. DeadCtx \in CtxCellI /\ 1 \in Int
  BY Cells
<1> QED BY <1>1 DEF CtxCellI

(* What the types say of a cell, and of the context of the running frame.  *)
LEMMA CellTypes ==
  ASSUME Types
  PROVE  /\ \A a \in ObjAddr : /\ obj[a] \in ObjCell /\ obj[a].live \in BOOLEAN /\ obj[a].gen \in Bit
                               /\ obj[a].wb \in BOOLEAN /\ obj[a].slots \in TabRef
                               /\ obj[a].proto \in ObjRef /\ obj[a].scope \in CtxRef
         /\ \A t \in TabAddr : /\ tab[t] \in TabCell /\ tab[t].live \in BOOLEAN /\ tab[t].gen \in Bit
                               /\ tab[t].wb \in BOOLEAN /\ tab[t].shared \in BOOLEAN
                               /\ tab[t].nocow \in BOOLEAN /\ tab[t].val \in [Key -> ObjRef]
         /\ \A c \in Ctx : /\ ctx[c] \in CtxCellI /\ ctx[c].ref \in Int /\ ctx[c].gen \in Bit
                           /\ ctx[c].wb \in BOOLEAN /\ ctx[c].slots \in TabRef
                           /\ ctx[c].obj \in ObjRef /\ ctx[c].prev \in CtxRef
         /\ Local \in Ctx
<1>1. \A a \in ObjAddr : obj[a] \in ObjCell
  BY DEF Types, HeapTypes
<1>2. \A t \in TabAddr : tab[t] \in TabCell
  BY DEF Types, HeapTypes
<1>3. \A c \in Ctx : ctx[c] \in CtxCellI
  BY DEF Types, HeapTypes
<1>4. Local \in Ctx
  <2>1. Len(frames) \in 1..Len(frames)
    BY DEF Types, RootTypes
  <2> QED BY <2>1 DEF Types, RootTypes, Local
<1> QED BY <1>1, <1>2, <1>3, <1>4 DEF ObjCell, TabCell, CtxCellI

(* The heaps are spaces of their own; arg.heap is the old one for a        *)
(* partial collection, and a fresh one for a full one.                     *)
LEMMA Heaps ==
  ASSUME Types
  PROVE  /\ 0 \in Space /\ old \in Space /\ to \in Space /\ to # 0 /\ 3 - old \in Space /\ 0 \in Bit /\ 1 \in Bit
         /\ \A g \in Bit : HeapAt(g) \in Space
         /\ ~ Full => to = old
         /\ Full => to # old
BY DEF Types, WorkTypes, Space, Bit, HeapAt, to, Full

(* The table that an object may write.                                     *)
LEMMA OwnedTypes ==
  ASSUME Types, NEW a \in ObjAddr, NEW n \in Tab
  PROVE  Owned(obj[a], n).at \in TabAddr /\ Owned(obj[a], n).cell \in TabCell
<1>1. obj[a].slots \in TabRef /\ obj[a].gen \in Bit
  BY CellTypes
<1>2. CASE obj[a].slots = Nil
  BY <1>1, <1>2, Heaps, Addresses, Cells DEF Owned
<1>3. CASE obj[a].slots # Nil /\ Shared(obj[a])
  <2>1. obj[a].slots \in TabAddr
    BY <1>1, <1>3 DEF TabRef
  <2>2. CopyState(tab[obj[a].slots]) \in TabCell
    BY <2>1, CellTypes DEF TabCell, CopyState, Bit
  <2> QED BY <1>3, <2>1, <2>2, Heaps, Addresses DEF Owned
<1>4. CASE obj[a].slots # Nil /\ ~ Shared(obj[a])
  BY <1>1, <1>4, CellTypes DEF Owned, TabRef
<1> QED BY <1>2, <1>3, <1>4

(* An object that takes a table of its own keeps its types.                *)
LEMMA TakeTableTypes ==
  ASSUME Types, NEW a \in ObjAddr, NEW own, own.at \in TabAddr, TakeTable(a, own)
  PROVE  obj' \in [ObjAddr -> ObjCell] /\ wbObj' \subseteq ObjAddr
<1>1. PICK b \in BOOLEAN : b = (obj[a].wb \/ CopiedBarrier(obj[a], own))
  OBVIOUS
<1>2. own.at \in TabRef
  BY DEF TabRef
<1>3. [obj[a] EXCEPT !.slots = own.at, !.wb = b] \in ObjCell
  BY <1>2, CellTypes DEF ObjCell
<1>4. obj' = [obj EXCEPT ![a] = [obj[a] EXCEPT !.slots = own.at, !.wb = b]]
  BY <1>1 DEF TakeTable, Types, HeapTypes
<1> QED BY <1>3, <1>4 DEF TakeTable, Remember, Types, HeapTypes, ListTypes

(* A table that values are stored in keeps its types.                      *)
LEMMA StoreTypes ==
  ASSUME Types, NEW own, own.at \in TabAddr, own.cell \in TabCell,
         NEW K \in SUBSET Key, NEW vals, \A k \in K : vals[k] \in ObjRef, StoreSlots(own, K, vals)
  PROVE  tab' \in [TabAddr -> TabCell] /\ wbSlot' \subseteq TabAddr
<1> DEFINE v == [k \in Key |-> IF k \in K THEN vals[k] ELSE own.cell.val[k]]
           barrier == \E k \in DOMAIN vals : WBSlot(own.cell, vals[k])
<1>1. PICK b \in BOOLEAN : b = (own.cell.wb \/ barrier)
  OBVIOUS
<1>2. own.cell.val \in [Key -> ObjRef]
  BY DEF TabCell
<1>3. v \in [Key -> ObjRef]
  BY <1>2
<1>4. tab' = [tab EXCEPT ![own.at] = [own.cell EXCEPT !.val = v, !.wb = b]]
  BY <1>1 DEF StoreSlots
<1>5. wbSlot' \subseteq wbSlot \cup {own.at}
  BY DEF StoreSlots, Remember
<1> HIDE DEF v, barrier
<1>6. [own.cell EXCEPT !.val = v, !.wb = b] \in TabCell
  BY <1>3 DEF TabCell
<1> QED BY <1>4, <1>5, <1>6 DEF Types, HeapTypes, ListTypes

(* So does one that a single value is stored in.                           *)
LEMMA StoreSlotTypes ==
  ASSUME Types, NEW own, own.at \in TabAddr, own.cell \in TabCell,
         NEW k \in Key, NEW v \in ObjRef, StoreSlot(own, k, v)
  PROVE  tab' \in [TabAddr -> TabCell] /\ wbSlot' \subseteq TabAddr
<1>1. PICK K \in SUBSET Key : K = {k}
  OBVIOUS
<1>2. PICK vals : vals = [x \in {k} |-> v]
  OBVIOUS
<1>3. StoreSlots(own, K, vals)
  BY <1>1, <1>2 DEF StoreSlot
<1>4. \A x \in K : vals[x] \in ObjRef
  BY <1>1, <1>2
<1> QED BY <1>3, <1>4, StoreTypes

(* What an instruction of the program leaves well typed, whatever it does. *)
LEMMA MutateTypes ==
  ASSUME Types, Running, Mutate, UNCHANGED <<gcVars, freeing>>
  PROVE  Types'
<1> DEFINE Changed == /\ obj' \in [ObjAddr -> ObjCell] /\ tab' \in [TabAddr -> TabCell]
                      /\ ctx' \in [Ctx -> CtxCellI]
                      /\ stack' \subseteq ObjAddr /\ frames' \in Seq(Ctx) /\ Len(frames') \in 1..MaxFrames
                      /\ wbObj' \subseteq ObjAddr /\ wbSlot' \subseteq TabAddr /\ wbCtx' \subseteq Ctx
                      /\ desLog' \subseteq ObjAddr
<1> SUFFICES Changed
  BY DEF Types, HeapTypes, RootTypes, ListTypes, WorkTypes, gcVars, workVars
<1>0. /\ obj \in [ObjAddr -> ObjCell] /\ tab \in [TabAddr -> TabCell] /\ ctx \in [Ctx -> CtxCellI]
      /\ stack \subseteq ObjAddr /\ frames \in Seq(Ctx) /\ Len(frames) \in 1..MaxFrames
      /\ wbObj \subseteq ObjAddr /\ wbSlot \subseteq TabAddr /\ wbCtx \subseteq Ctx
      /\ desLog \subseteq ObjAddr
  BY DEF Types, HeapTypes, RootTypes, ListTypes
<1> USE <1>0
<1>z. Nil \in ObjRef /\ Nil \in TabRef /\ Nil \in CtxRef /\ ObjAddr \subseteq ObjRef /\ TabAddr \subseteq TabRef
      /\ Ctx \subseteq CtxRef /\ 0 \in Space /\ 0 \in Bit
  BY DEF ObjRef, TabRef, CtxRef, Space, Bit
<1>1. ASSUME NEW o \in Obj, NewObject(o) PROVE Changed
  <2>1. [DeadObj EXCEPT !.live = TRUE] \in ObjCell
    BY Cells, <1>z, ObjCells
  <2>2. <<o, 0>> \in ObjAddr
    BY Addresses, <1>z
  <2> QED BY <1>1, <2>1, <2>2 DEF NewObject, PushValue, wbVars
<1>2. ASSUME NEW v \in stack, Pop(v) PROVE Changed
  BY <1>2 DEF Pop, heapVars, wbVars
<1>3. ASSUME NEW a \in stack, NEW p \in stack, SetProto(a, p) PROVE Changed
  <2>1. PICK b \in BOOLEAN : b = (obj[a].wb \/ WBObj(obj[a], obj[p]))
    OBVIOUS
  <2>2. [obj[a] EXCEPT !.proto = p, !.wb = b] \in ObjCell
    BY <1>z, CellTypes DEF ObjCell
  <2>3. obj' = [obj EXCEPT ![a] = [obj[a] EXCEPT !.proto = p, !.wb = b]]
    BY <1>3, <2>1 DEF SetProto
  <2> QED BY <1>3, <2>2, <2>3 DEF SetProto, Remember, rootVars
<1>4. ASSUME NEW a \in stack, NEW k \in Key, NEW v \in stack \cup {Nil}, NEW n \in Tab, SetSlot(a, k, v, n)
      PROVE  Changed
  <2> DEFINE own == Owned(obj[a], n)
  <2>1. own.at \in TabAddr /\ own.cell \in TabCell
    BY OwnedTypes
  <2>2. TakeTable(a, own) /\ StoreSlot(own, k, v)
    BY <1>4 DEF SetSlot
  <2>3. v \in ObjRef
    BY <1>z
  <2> HIDE DEF own
  <2>4. obj' \in [ObjAddr -> ObjCell] /\ wbObj' \subseteq ObjAddr
    BY <2>1, <2>2, TakeTableTypes
  <2>5. tab' \in [TabAddr -> TabCell] /\ wbSlot' \subseteq TabAddr
    BY <2>1, <2>2, <2>3, StoreSlotTypes
  <2> QED BY <1>4, <2>4, <2>5 DEF SetSlot, rootVars
<1>5. ASSUME NEW a \in stack, NEW k \in Key, GetSlot(a, k) PROVE Changed
  <2>1. obj[a].slots \in TabAddr
    BY <1>5, CellTypes DEF GetSlot, TabRef
  <2>2. tab[obj[a].slots].val[k] \in ObjRef
    BY <2>1, CellTypes
  <2> QED BY <1>5, <2>2 DEF GetSlot, PushValue, heapVars, wbVars, ObjRef
<1>6. ASSUME NEW a \in stack, NEW b \in stack, NEW K \in SUBSET Key, NEW n \in Tab, Merge(a, b, K, n)
      PROVE  Changed
  <2> DEFINE from == tab[obj[b].slots]
             own  == IF obj[a].slots = Nil THEN [at |-> <<n, 0>>, cell |-> CopyState(from)] ELSE Owned(obj[a], n)
             barrier == NeedsTable(obj[a]) /\ WBObjSlot(obj[a], own.cell)
  <2>1. from \in TabCell /\ from.val \in [Key -> ObjRef]
    BY <1>6, CellTypes DEF Merge, TabRef
  <2>2. own.at \in TabAddr /\ own.cell \in TabCell
    <3>1. CASE obj[a].slots = Nil
      <4>1. CopyState(from) \in TabCell
        BY <2>1, TabCells, <1>z
      <4> QED BY <3>1, <4>1, Addresses, <1>z
    <3>2. CASE obj[a].slots # Nil
      BY <3>2, OwnedTypes
    <3> QED BY <3>1, <3>2
  <2>3. PICK w \in BOOLEAN : w = (obj[a].wb \/ barrier)
    OBVIOUS
  <2>4. /\ obj' = [obj EXCEPT ![a].slots = own.at, ![a].wb = @ \/ barrier]
        /\ wbObj' = Remember(wbObj, obj[a], a, barrier)
        /\ IF obj[a].slots = Nil
           THEN tab' = [tab EXCEPT ![own.at] = own.cell] /\ UNCHANGED wbSlot
           ELSE StoreSlots(own, K, from.val)
        /\ UNCHANGED <<ctx, rootVars, wbCtx, desLog>>
    BY <1>6 DEF Merge
  <2>5. wbObj' \subseteq wbObj \cup {a}
    BY <2>4 DEF Remember
  <2>6. obj' = [obj EXCEPT ![a] = [obj[a] EXCEPT !.slots = own.at, !.wb = w]]
    BY <2>3, <2>4
  <2> HIDE DEF own, barrier, from
  <2>7. [obj[a] EXCEPT !.slots = own.at, !.wb = w] \in ObjCell
    BY <1>z, <2>2, CellTypes DEF ObjCell
  <2>8. tab' \in [TabAddr -> TabCell] /\ wbSlot' \subseteq TabAddr
    <3>1. CASE obj[a].slots = Nil
      BY <2>2, <2>4, <3>1
    <3>2. CASE obj[a].slots # Nil
      BY <2>1, <2>2, <2>4, <3>2, StoreTypes
    <3> QED BY <3>1, <3>2
  <2> QED BY <2>4, <2>5, <2>6, <2>7, <2>8 DEF rootVars
<1>7. ASSUME NEW a \in stack, NEW o \in Obj, NEW n \in Tab, Clone(a, o, n) PROVE Changed
  <2> DEFINE t == obj[a].slots
             nocow == t # Nil /\ tab[t].nocow
             s == IF nocow THEN <<n, 0>> ELSE t
  <2>1. t \in TabRef /\ obj[a].scope \in CtxRef /\ obj[a] \in ObjCell
    BY CellTypes
  <2>2. <<o, 0>> \in ObjAddr /\ <<n, 0>> \in TabAddr
    BY Addresses, <1>z
  <2>3. s \in TabRef
    BY <2>1, <2>2, <1>z
  <2>4. obj' = [obj EXCEPT ![<<o, 0>>] = [obj[a] EXCEPT !.gen = 0, !.wb = FALSE, !.slots = s]]
    BY <1>7 DEF Clone
  <2>5. [obj[a] EXCEPT !.gen = 0, !.wb = FALSE, !.slots = s] \in ObjCell
    <3> HIDE DEF s
    <3> QED BY <2>1, <2>3, <1>z DEF ObjCell
  <2>6. obj' \in [ObjAddr -> ObjCell]
    BY <2>2, <2>4, <2>5
  <2>7. tab' \in [TabAddr -> TabCell]
    <3>0. tab' = IF t = Nil THEN tab
            ELSE IF nocow THEN [tab EXCEPT ![<<n, 0>>] = CopyState(tab[t])]
            ELSE [tab EXCEPT ![t].shared = TRUE]
      BY <1>7 DEF Clone
    <3>1. CASE t = Nil
      BY <3>0, <3>1
    <3>2. CASE t # Nil
      <4>1. t \in TabAddr /\ tab[t] \in TabCell
        BY <2>1, <3>2, CellTypes DEF TabRef
      <4>2. CopyState(tab[t]) \in TabCell /\ [tab[t] EXCEPT !.shared = TRUE] \in TabCell
        BY <4>1, <1>z DEF TabCell, CopyState
      <4> QED BY <2>2, <3>0, <3>2, <4>1, <4>2
    <3> QED BY <3>1, <3>2
  <2>8. ctx' \in [Ctx -> CtxCellI]
    <3>1. CASE obj[a].scope = Nil
      BY <1>7, <3>1 DEF Clone, RefScope
    <3>2. CASE obj[a].scope # Nil
      <4>1. obj[a].scope \in Ctx /\ [ctx[obj[a].scope] EXCEPT !.ref = @ + 1] \in CtxCellI
        BY <2>1, <3>2, CellTypes DEF CtxRef, CtxCellI
      <4> QED BY <1>7, <3>2, <4>1 DEF Clone, RefScope
    <3> QED BY <3>1, <3>2
  <2> QED BY <1>7, <2>2, <2>6, <2>7, <2>8 DEF Clone, LogFunction, PushValue, wbVars
<1>8. ASSUME NEW k \in Key, NEW v \in stack \cup {Nil}, NEW n \in Tab, SetLocalSlot(k, v, n) PROVE Changed
  <2> DEFINE c == ctx[Local]
             own == IF c.slots = Nil THEN [at |-> <<n, HeapAt(c.gen)>>, cell |-> NewTabAt(c.gen)]
                    ELSE [at |-> c.slots, cell |-> tab[c.slots]]
  <2>1. Local \in Ctx /\ c \in CtxCellI /\ c.slots \in TabRef /\ c.gen \in Bit
    BY CellTypes
  <2>2. own.at \in TabAddr /\ own.cell \in TabCell
    BY <2>1, CellTypes, Heaps, Addresses, Cells DEF TabRef
  <2>3. /\ ctx' = [ctx EXCEPT ![Local].slots = own.at] /\ StoreSlot(own, k, v)
        /\ UNCHANGED <<obj, rootVars, wbObj, wbCtx, desLog>>
    BY <1>8 DEF SetLocalSlot
  <2>4. v \in ObjRef
    BY <1>z
  <2> HIDE DEF own
  <2>5. tab' \in [TabAddr -> TabCell] /\ wbSlot' \subseteq TabAddr
    BY <2>2, <2>3, <2>4, StoreSlotTypes
  <2>6. [c EXCEPT !.slots = own.at] \in CtxCellI
    BY <2>1, <2>2, <1>z DEF CtxCellI
  <2> QED BY <2>1, <2>3, <2>5, <2>6 DEF rootVars
<1>9. ASSUME NEW k \in Key, GetLocalSlot(k) PROVE Changed
  <2>1. ctx[Local].slots \in TabAddr
    BY <1>9, CellTypes DEF GetLocalSlot, TabRef
  <2>2. tab[ctx[Local].slots].val[k] \in ObjRef
    BY <2>1, CellTypes
  <2> QED BY <1>9, <2>2 DEF GetLocalSlot, PushValue, heapVars, wbVars, ObjRef
<1>10. ASSUME NEW o \in Obj, NEW n \in Tab, GetObject(o, n) PROVE Changed
  <2> DEFINE c == ctx[Local]
             t == IF c.slots = Nil THEN <<n, HeapAt(c.gen)>> ELSE c.slots
             table == IF c.slots = Nil THEN NewTabAt(c.gen) ELSE tab[t]
             new == [DeadObj EXCEPT !.live = TRUE, !.slots = t]
             cell == [c EXCEPT !.slots = t, !.obj = <<o, 0>>]
  <2>1. Local \in Ctx /\ c \in CtxCellI /\ c.slots \in TabRef /\ c.gen \in Bit /\ c.wb \in BOOLEAN /\ c.ref \in Int
    BY CellTypes
  <2>2. t \in TabAddr /\ table \in TabCell /\ <<o, 0>> \in ObjAddr
    BY <2>1, CellTypes, Heaps, Addresses, Cells DEF TabRef
  <2>3. [table EXCEPT !.nocow = TRUE] \in TabCell
    BY <2>2 DEF TabCell
  <2>4. PICK b \in BOOLEAN : b = WBCtxObj(c, new)
    BY DEF WBCtxObj
  <2>5. /\ tab' = [tab EXCEPT ![t] = [table EXCEPT !.nocow = TRUE]]
        /\ obj' = [obj EXCEPT ![<<o, 0>>] = new]
        /\ ctx' = [ctx EXCEPT ![Local] = Barred(cell, b)]
        /\ wbCtx' \subseteq wbCtx \cup {Local}
        /\ stack' = stack \cup {<<o, 0>>}
        /\ UNCHANGED <<frames, wbObj, wbSlot, desLog>>
    BY <1>10, <2>4 DEF GetObject, CtxBarrier, Remember, PushValue
  <2> HIDE DEF t, table
  <2>6. new \in ObjCell
    BY <2>2, <1>z, Cells DEF ObjCell
  <2>7. cell \in CtxCellI
    BY <2>1, <2>2, <1>z DEF CtxCellI
  <2> HIDE DEF cell, new
  <2>8. Barred(cell, b) \in CtxCellI
    BY <2>4, <2>7, BarredTypes
  <2> QED BY <2>1, <2>2, <2>3, <2>5, <2>6, <2>8
<1>11. CASE GetObjectAgain
  <2>1. ctx[Local].obj \in ObjAddr
    BY <1>11, CellTypes DEF GetObjectAgain, ObjRef
  <2> QED BY <1>11, <2>1 DEF GetObjectAgain, PushValue, heapVars, wbVars
<1>12. ASSUME NEW a \in stack, NEW n \in Tab, SetObject(a, n) PROVE Changed
  <2> DEFINE c == ctx[Local]
             own == Owned(obj[a], n)
             cell == [c EXCEPT !.slots = own.at, !.obj = a]
  <2>1. Local \in Ctx /\ c \in CtxCellI /\ c.wb \in BOOLEAN /\ c.ref \in Int
    BY CellTypes
  <2>2. own.at \in TabAddr /\ own.cell \in TabCell
    BY OwnedTypes
  <2>4. PICK b \in BOOLEAN : b = WBCtxObj(c, obj[a])
    BY DEF WBCtxObj
  <2>5. /\ TakeTable(a, own)
        /\ tab' = [tab EXCEPT ![own.at] = [own.cell EXCEPT !.nocow = TRUE]]
        /\ ctx' = [ctx EXCEPT ![Local] = Barred(cell, b)]
        /\ wbCtx' \subseteq wbCtx \cup {Local}
        /\ UNCHANGED <<rootVars, wbSlot, desLog>>
    BY <1>12, <2>4 DEF SetObject, CtxBarrier, Remember
  <2> HIDE DEF own
  <2>6. obj' \in [ObjAddr -> ObjCell] /\ wbObj' \subseteq ObjAddr
    BY <2>2, <2>5, TakeTableTypes
  <2>7. [own.cell EXCEPT !.nocow = TRUE] \in TabCell
    BY <2>2 DEF TabCell
  <2>8. cell \in CtxCellI
    BY <2>1, <2>2, <1>z DEF CtxCellI
  <2> HIDE DEF cell
  <2>9. Barred(cell, b) \in CtxCellI
    BY <2>4, <2>8, BarredTypes
  <2> QED BY <2>1, <2>2, <2>5, <2>6, <2>7, <2>9 DEF rootVars
<1>13. ASSUME NEW o \in Obj, NewFunction(o) PROVE Changed
  <2>1. Local \in Ctx /\ <<o, 0>> \in ObjAddr
    BY CellTypes, Addresses, <1>z
  <2>2. [DeadObj EXCEPT !.live = TRUE, !.scope = Local] \in ObjCell
    BY <2>1, <1>z, Cells DEF ObjCell
  <2>3. [ctx[Local] EXCEPT !.ref = @ + 1] \in CtxCellI
    BY <2>1, CellTypes, CountCells
  <2>4. ctx' \in [Ctx -> CtxCellI]
    BY <1>13, <2>1, <2>3 DEF NewFunction, RefScope
  <2> QED BY <1>13, <2>1, <2>2, <2>4 DEF NewFunction, LogFunction, PushValue, wbVars
<1>14. ASSUME NEW f \in stack, NEW c \in Ctx, Call(f, c) PROVE Changed
  <2> DEFINE sc == obj[f].scope
             new == [DeadCtx EXCEPT !.ref = 1, !.prev = sc]
  <2>1. sc \in Ctx
    BY <1>14, CellTypes DEF Call, CtxRef
  <2>2. new \in CtxCellI
    BY <2>1, CalledCell DEF CtxRef
  <2>3. ctx' = [ctx EXCEPT ![c] = new, ![sc].ref = ctx[sc].ref + 1]
    BY <1>14 DEF Call
  <2> HIDE DEF new, sc
  <2>5. [ctx EXCEPT ![c] = new] \in [Ctx -> CtxCellI]
    BY <2>2
  <2>6. ctx' = [[ctx EXCEPT ![c] = new] EXCEPT ![sc].ref = ctx[sc].ref + 1]
    BY <2>3
  <2>7. [[ctx EXCEPT ![c] = new][sc] EXCEPT !.ref = ctx[sc].ref + 1] \in CtxCellI
    <3>1. ctx[sc].ref + 1 \in Int
      BY <2>1, CellTypes
    <3> QED BY <2>1, <2>5, <3>1 DEF CtxCellI
  <2>8. ctx' \in [Ctx -> CtxCellI]
    BY <2>1, <2>5, <2>6, <2>7
  <2>9. frames' \in Seq(Ctx) /\ Len(frames') = Len(frames) + 1 /\ Len(frames) < MaxFrames
    BY <1>14 DEF Call
  <2> QED BY <1>14, <2>8, <2>9, CollectorAssumption DEF Call, wbVars
<1>15. ASSUME NEW f \in stack, CallNative(f) PROVE Changed
  <2> DEFINE sc == obj[f].scope
  <2>1. sc \in Ctx
    BY <1>15, CellTypes DEF CallNative, CtxRef
  <2>2. [ctx[sc] EXCEPT !.ref = @ + 1] \in CtxCellI
    BY <2>1, CellTypes, CountCells
  <2>3. ctx' \in [Ctx -> CtxCellI]
    BY <1>15, <2>1, <2>2 DEF CallNative, RefScope
  <2>4. frames' \in Seq(Ctx) /\ Len(frames') = Len(frames) + 1 /\ Len(frames) < MaxFrames
    BY <1>15, <2>1 DEF CallNative
  <2> QED BY <1>15, <2>3, <2>4, CollectorAssumption DEF CallNative, wbVars
<1> QED BY <1>1, <1>2, <1>3, <1>4, <1>5, <1>6, <1>7, <1>8, <1>9, <1>10, <1>11, <1>12, <1>13, <1>14, <1>15
        DEF Mutate

(* References and cells that a collection forwards.                        *)
LEMMA ForwardTypes ==
  ASSUME Types
  PROVE  /\ \A a \in ObjAddr : To(a) \in ObjAddr
         /\ \A t \in TabAddr : To(t) \in TabAddr
         /\ \A a \in ObjRef : ForwardObj(a) \in ObjRef /\ FindObj(a) \subseteq ObjAddr
         /\ \A t \in TabRef : ForwardTab(t) \in TabRef /\ FindTab(t) \subseteq TabAddr
         /\ \A a \in ObjAddr : ForwardObj(a) \in ObjAddr
         /\ \A c \in CtxRef : FindCtx(c) \subseteq Ctx
         /\ \A o \in ObjCell : MovedObj(o) \in ObjCell
         /\ \A t \in TabCell : MovedTab(t) \in TabCell /\ Values(t) \subseteq ObjAddr
<1>1. \A a \in ObjAddr : To(a) \in ObjAddr
  BY Heaps, Addresses DEF To
<1>2. \A t \in TabAddr : To(t) \in TabAddr
  BY Heaps, Addresses DEF To
<1>3. \A a \in ObjRef : ForwardObj(a) \in ObjRef /\ FindObj(a) \subseteq ObjAddr
  BY <1>1 DEF ForwardObj, FindObj, ObjRef
<1>4. \A t \in TabRef : ForwardTab(t) \in TabRef /\ FindTab(t) \subseteq TabAddr
  BY <1>2 DEF ForwardTab, FindTab, TabRef
<1>5. \A a \in ObjAddr : ForwardObj(a) \in ObjAddr
  BY <1>1, Addresses DEF ForwardObj
<1>6. \A c \in CtxRef : FindCtx(c) \subseteq Ctx
  BY DEF FindCtx, CtxRef
<1>7. ASSUME NEW o \in ObjCell PROVE MovedObj(o) \in ObjCell
  <2>1. o.slots \in TabRef /\ o.proto \in ObjRef
    BY DEF ObjCell
  <2>2. ForwardTab(o.slots) \in TabRef /\ ForwardObj(o.proto) \in ObjRef
    BY <1>3, <1>4, <2>1
  <2> QED BY <2>2 DEF MovedObj, ObjCell
<1>8. ASSUME NEW t \in TabCell PROVE MovedTab(t) \in TabCell /\ Values(t) \subseteq ObjAddr
  <2>1. \A k \in Key : t.val[k] \in ObjRef
    BY DEF TabCell
  <2>2. [k \in Key |-> ForwardObj(t.val[k])] \in [Key -> ObjRef]
    BY <1>3, <2>1
  <2> QED BY <2>1, <2>2 DEF MovedTab, Values, TabCell, ObjRef
<1> QED BY <1>1, <1>2, <1>3, <1>4, <1>5, <1>6, <1>7, <1>8

(* Every step of the program and of the collector keeps the types.         *)
LEMMA TypesStep == Types /\ [Next]_vars => Types'
<1> SUFFICES ASSUME Types, [Next]_vars
             PROVE  Types'
  OBVIOUS
<1> USE DEF Types, HeapTypes, RootTypes, ListTypes, WorkTypes
<1>z. Nil \in ObjRef /\ Nil \in TabRef /\ Nil \in CtxRef /\ ObjAddr \subseteq ObjRef /\ TabAddr \subseteq TabRef
      /\ Ctx \subseteq CtxRef /\ 0 \in Space /\ 0 \in Bit /\ 1 \in Bit
  BY DEF ObjRef, TabRef, CtxRef, Space, Bit
<1>1. CASE Running /\ Mutate /\ UNCHANGED <<gcVars, freeing>>
  BY <1>1, MutateTypes
<1>2. CASE Running /\ Return /\ UNCHANGED gcVars
  <2>1. Local \in Ctx
    BY CellTypes
  <2>2. frames' \in Seq(Ctx) /\ Len(frames') = Len(frames) - 1 /\ Len(frames) > 1
    BY <1>2 DEF Return
  <2> QED BY <1>2, <1>z, <2>1, <2>2, CollectorAssumption DEF Return, heapVars, wbVars, gcVars, workVars
<1>3. CASE Running /\ AddWildSize /\ UNCHANGED freeing
  BY <1>3, <1>z DEF AddWildSize, heapVars, rootVars, wbVars, workVars
<1>4. CASE TravState
  <2>1. stack' \subseteq ObjAddr
    BY <1>4, ForwardTypes DEF TravState
  <2>2. todoObj' \subseteq ObjAddr
    BY <1>4, <1>z, ForwardTypes DEF TravState
  <2>3. todoCtx' \subseteq Ctx
    <3>1. \A i \in DOMAIN frames : frames[i] \in CtxRef
      BY <1>z
    <3> QED BY <1>4, <3>1, ForwardTypes DEF TravState
  <2> QED BY <1>4, <2>1, <2>2, <2>3 DEF TravState, heapVars, wbVars
<1>5. ASSUME NEW a \in todoObj, CopyObject(a) PROVE Types'
  <2>1. a \in ObjAddr /\ obj[a] \in ObjCell /\ obj[a].proto \in ObjRef /\ obj[a].slots \in TabRef /\ obj[a].scope \in CtxRef
    BY CellTypes
  <2>2. MovedObj(obj[a]) \in ObjCell /\ To(a) \in ObjAddr
    BY <2>1, ForwardTypes
  <2>3. [MovedObj(obj[a]) EXCEPT !.gen = 1] \in ObjCell
    BY <1>z, <2>2 DEF ObjCell
  <2>4. obj' \in [ObjAddr -> ObjCell]
    BY <1>5, <2>2, <2>3 DEF CopyObject
  <2>5. todoObj' \subseteq ObjAddr /\ todoTab' \subseteq TabAddr /\ todoCtx' \subseteq Ctx
    BY <1>5, <2>1, ForwardTypes DEF CopyObject
  <2> QED BY <1>5, <2>4, <2>5 DEF CopyObject, rootVars, wbVars
<1>6. ASSUME NEW t \in todoTab, CopySlotTable(t) PROVE Types'
  <2>1. t \in TabAddr /\ tab[t] \in TabCell
    BY CellTypes
  <2>2. MovedTab(tab[t]) \in TabCell /\ To(t) \in TabAddr /\ Values(tab[t]) \subseteq ObjRef
    BY <1>z, <2>1, ForwardTypes
  <2>3. [MovedTab(tab[t]) EXCEPT !.gen = 1, !.wb = FALSE] \in TabCell
    BY <1>z, <2>2 DEF TabCell
  <2>4. tab' \in [TabAddr -> TabCell]
    BY <1>6, <2>2, <2>3 DEF CopySlotTable
  <2>5. todoObj' \subseteq ObjAddr /\ todoTab' \subseteq TabAddr
    BY <1>6, <2>2, ForwardTypes DEF CopySlotTable
  <2> QED BY <1>6, <2>4, <2>5 DEF CopySlotTable, rootVars, wbVars
<1>7. ASSUME NEW c \in todoCtx, TravContext(c) PROVE Types'
  <2>1. c \in Ctx /\ ctx[c] \in CtxCellI /\ ctx[c].slots \in TabRef /\ ctx[c].obj \in ObjRef /\ ctx[c].prev \in CtxRef
    BY CellTypes
  <2>2. ForwardTab(ctx[c].slots) \in TabRef /\ ForwardObj(ctx[c].obj) \in ObjRef
    BY <2>1, ForwardTypes
  <2>3. [ctx[c] EXCEPT !.gen = 1, !.wb = FALSE, !.slots = ForwardTab(ctx[c].slots), !.obj = ForwardObj(ctx[c].obj)]
          \in CtxCellI
    BY <1>z, <2>1, <2>2 DEF CtxCellI
  <2>4. ctx' = [ctx EXCEPT ![c] = [ctx[c] EXCEPT !.gen = 1, !.wb = FALSE, !.slots = ForwardTab(ctx[c].slots),
                                                 !.obj = ForwardObj(ctx[c].obj)]]
    BY <1>7 DEF TravContext
  <2>5. ctx' \in [Ctx -> CtxCellI]
    BY <2>1, <2>3, <2>4
  <2>6. todoObj' \subseteq ObjAddr /\ todoTab' \subseteq TabAddr /\ todoCtx' \subseteq Ctx
    BY <1>7, <2>1, ForwardTypes DEF TravContext
  <2> QED BY <1>7, <2>1, <2>5, <2>6 DEF TravContext, rootVars, wbVars
<1>8. CASE CheckWriteBarrier
  <2>1. obj' \in [ObjAddr -> ObjCell]
    BY <1>8, ForwardTypes, CellTypes DEF CheckWriteBarrier
  <2>2. tab' \in [TabAddr -> TabCell]
    <3>1. \A t \in TabAddr : [MovedTab(tab[t]) EXCEPT !.wb = FALSE] \in TabCell
      <4>1. \A t \in TabAddr : MovedTab(tab[t]) \in TabCell
        BY ForwardTypes, CellTypes
      <4> QED BY <4>1 DEF TabCell
    <3> QED BY <1>8, <3>1 DEF CheckWriteBarrier
  <2>3. todoObj' \subseteq ObjAddr
    <3>1. \A a \in wbObj : FindObj(obj[a].proto) \subseteq ObjAddr
      BY ForwardTypes, CellTypes
    <3>2. \A t \in wbSlot : Values(tab[t]) \subseteq ObjRef
      BY <1>z, ForwardTypes, CellTypes
    <3>3. \A v \in UNION {Values(tab[t]) : t \in wbSlot} : FindObj(v) \subseteq ObjAddr
      BY <3>2, ForwardTypes
    <3> QED BY <1>8, <3>1, <3>3 DEF CheckWriteBarrier
  <2>4. todoTab' \subseteq TabAddr
    <3>1. \A a \in wbObj : FindTab(obj[a].slots) \subseteq TabAddr
      BY ForwardTypes, CellTypes
    <3> QED BY <1>8, <3>1 DEF CheckWriteBarrier
  <2>5. todoCtx' \subseteq Ctx
    <3>1. \A a \in wbObj : FindCtx(obj[a].scope) \subseteq Ctx
      BY ForwardTypes, CellTypes
    <3> QED BY <1>8, <3>1 DEF CheckWriteBarrier
  <2> QED BY <1>8, <2>1, <2>2, <2>3, <2>4, <2>5 DEF CheckWriteBarrier, rootVars
<1>9. ASSUME NEW c \in wbCtx, CheckContext(c) PROVE Types'
  <2>1. c \in CtxRef /\ FindCtx(c) \subseteq Ctx
    BY <1>z, ForwardTypes
  <2> QED BY <1>9, <2>1 DEF CheckContext, heapVars, rootVars
<1>10. CASE TriggerDestructor
  <2>1. \A a \in ObjAddr : To(a) \in ObjAddr
    BY ForwardTypes
  <2> QED BY <1>10, <2>1 DEF TriggerDestructor, heapVars, rootVars, wbVars, workVars
<1>11. ASSUME NEW a \in dying, Destruct(a) PROVE Types'
  <2>1. obj[a].scope \in CtxRef
    BY CellTypes
  <2> QED BY <1>11, <2>1 DEF Destruct, heapVars, rootVars, wbVars, workVars
<1>12. CASE ResetHeaps
  <2>1. to \in {1, 2}
    BY DEF to, Full
  <2> QED BY <1>12, <1>z, <2>1, Cells DEF ResetHeaps, rootVars, wbVars
<1>13. CASE ContextFree
  <2>1. freeing \in Ctx
    BY <1>13 DEF ContextFree, CtxRef
  <2>0. ctx[freeing].prev \in CtxRef /\ ctx[freeing] \in CtxCellI
    BY <2>1, CellTypes
  <2>2. ctx[freeing].prev \in CtxRef /\ [ctx[freeing] EXCEPT !.ref = @ - 1] \in CtxCellI
    BY <2>0, CountCells
  <2>3. ctx' \in [Ctx -> CtxCellI] /\ freeing' \in CtxRef
    BY <1>13, <1>z, <2>1, <2>2, Cells DEF ContextFree
  <2> QED BY <1>13, <2>3 DEF ContextFree, rootVars, wbVars, gcVars, workVars
<1>14. CASE UNCHANGED vars
  BY <1>14 DEF vars, heapVars, rootVars, wbVars, gcVars, workVars
<1> QED BY <1>1, <1>2, <1>3, <1>4, <1>5, <1>6, <1>7, <1>8, <1>9, <1>10, <1>11, <1>12, <1>13, <1>14 DEF Next, Collect

(***************************************************************************)
(* The inductive invariant.                                                *)
(***************************************************************************)

(* A live cell in space s has the generation of that heap; arg.heap is in  *)
(* use during a collection.                                                *)
InHeap(gen, s) ==
  /\ gen = IF s = 0 THEN 0 ELSE 1
  /\ s \in {0, old} \/ (phase # "run" /\ s = to)
Generations ==
  /\ \A a \in ObjAddr : obj[a].live => InHeap(obj[a].gen, a[2])
  /\ \A t \in TabAddr : tab[t].live => InHeap(tab[t].gen, t[2])

(* While the program runs a cell has one address; during a collection it   *)
(* has one besides its copy.                                               *)
Source(a) == phase = "run" \/ a[2] # to
Unique ==
  /\ \A a, b \in ObjAddr : obj[a].live /\ obj[b].live /\ a[1] = b[1] /\ Source(a) /\ Source(b) => a = b
  /\ \A t, u \in TabAddr : tab[t].live /\ tab[u].live /\ t[1] = u[1] /\ Source(t) /\ Source(u) => t = u

(* What each phase of a collection has finished.                           *)
Phases ==
  /\ phase \in {"run", "destruct"} => todoObj = {} /\ todoTab = {} /\ todoCtx = {}
  /\ phase = "run" => visited = {}
  /\ phase # "destruct" => dying = {}
  /\ phase = "roots" => freeing = Nil
  /\ phase = "destruct" => wbCtx = {}
  /\ phase \in {"barrier", "destruct"} => wbObj = {} /\ wbSlot = {}
  /\ todoCtx \cap visited = {}

(* What is found has not been copied.                                      *)
Work ==
  /\ \A a \in todoObj : obj[a].live /\ a[2] # to /\ ~ obj[To(a)].live
  /\ \A t \in todoTab : tab[t].live /\ t[2] # to /\ ~ tab[To(t)].live

(* A cell and its copy say the same, but for the addresses.                *)
SameId(x, y)      == Id(x) = Id(y)
SameObj(c, d)     == c.scope = d.scope /\ SameId(c.slots, d.slots) /\ SameId(c.proto, d.proto)
SameTab(c, d)     == c.shared = d.shared /\ c.nocow = d.nocow /\ \A k \in Key : SameId(c.val[k], d.val[k])
Copies ==
  /\ \A a, b \in ObjAddr : obj[a].live /\ obj[b].live /\ a[1] = b[1] => SameObj(obj[a], obj[b])
  /\ \A t, u \in TabAddr : tab[t].live /\ tab[u].live /\ t[1] = u[1] => SameTab(tab[t], tab[u])

(* The destructor log has each function object once, the copies of those   *)
(* that survive from triggerDestructor on.                                 *)
Logged ==
  /\ desLog \subseteq Functions /\ dying \subseteq Functions /\ dying \cap desLog = {}
  /\ phase = "run" => Functions = desLog
  /\ phase \in {"roots", "barrier"} =>
       /\ \A b \in Functions : b \in desLog \/ \E a \in desLog : a # b /\ To(a) = b
       /\ Full => \A a \in desLog : a[2] # to
       /\ \A a, b \in desLog : a[1] = b[1] => a = b
  /\ phase = "destruct" =>
       /\ desLog = {b \in Functions : b[2] = to}
       /\ \A a \in dying : a[2] # to

(* Who holds a reference on a context.                                     *)
FramesOf(c)    == {i \in DOMAIN frames : frames[i] = c}
FunctionsOf(c) == {a \in desLog \cup dying : obj[a].scope = c}
ScopesIn(c)    == {d \in Ctx : ctx[d].prev = c}
Holders(c) ==
  Cardinality(FramesOf(c)) + Cardinality(FunctionsOf(c)) + Cardinality(ScopesIn(c))
    + Cardinality(wbCtx \cap {c}) + (IF freeing = c THEN 1 ELSE 0)
Counted == \A c \in Ctx : ctx[c].ref = Holders(c)

(* A context in the pool refers to nothing, and no scopes are enclosed in  *)
(* a circle: among any live ones is one that none of them is in.           *)
Pooled  == \A c \in Ctx : ctx[c].ref = 0 => ctx[c].slots = Nil /\ ctx[c].obj = Nil /\ ctx[c].prev = Nil /\ ~ ctx[c].wb
Acyclic == \A S \in SUBSET Ctx : S # {} => \E c \in S : \A d \in S : ctx[d].prev # c

(* The lists of the write barriers.                                        *)
Lists ==
  /\ \A a \in wbObj : obj[a].live /\ obj[a].gen = 1
  /\ \A t \in wbSlot : tab[t].live /\ tab[t].gen = 1
  /\ \A a \in ObjAddr : obj[a].live /\ (phase = "run" \/ a[2] = to) => (obj[a].wb <=> a \in wbObj)
  /\ \A t \in TabAddr : tab[t].live /\ (phase = "run" \/ t[2] = to) => (tab[t].wb <=> t \in wbSlot)
  /\ phase = "roots" /\ Full => /\ \A a \in wbObj : a[2] # to
                                /\ \A t \in wbSlot : t[2] # to

(* What a running program relies on: no dangling pointer, and no old cell  *)
(* that refers to a young one without being in a list.                     *)
RunRefs ==
  /\ \A a \in stack : obj[a].live
  /\ \A a \in ObjAddr : obj[a].live => TabOk(obj[a].slots) /\ ObjOk(obj[a].proto)
  /\ \A t \in TabAddr : tab[t].live => \A k \in Key : ObjOk(tab[t].val[k])
  /\ \A c \in Ctx : TabOk(ctx[c].slots) /\ ObjOk(ctx[c].obj)
RunOld ==
  /\ \A a \in ObjAddr : obj[a].live /\ obj[a].gen = 1 =>
       /\ YoungTab(obj[a].slots) \/ YoungObj(obj[a].proto) => a \in wbObj
       /\ obj[a].scope # Nil => ctx[obj[a].scope].gen = 1
  /\ \A t \in TabAddr : tab[t].live /\ tab[t].gen = 1 =>
       \A k \in Key : YoungObj(tab[t].val[k]) => t \in wbSlot
  /\ \A c \in Ctx :
       /\ ctx[c].wb <=> c \in wbCtx
       /\ ctx[c].gen = 1 /\ (YoungTab(ctx[c].slots) \/ YoungObj(ctx[c].obj)) => c \in wbCtx
       /\ ctx[c].gen = 1 /\ ctx[c].prev # Nil => ctx[ctx[c].prev].gen = 1
Program == phase = "run" => RunRefs /\ RunOld

(* During a collection: a reference that is forwarded, to a copy that is   *)
(* there or will be.                                                       *)
ObjHere(a) == a = Nil \/ (a[2] = to /\ (obj[a].live \/ \E s \in todoObj : s[1] = a[1]))
TabHere(t) == t = Nil \/ (t[2] = to /\ (tab[t].live \/ \E s \in todoTab : s[1] = t[1]))

(* Sources refer to live cells, what survives refers to what survives,     *)
(* unless it is remembered and has not been looked at.                     *)
CellRefs ==
  /\ \A a \in stack : ObjHere(a)
  /\ \A a \in ObjAddr : obj[a].live /\ a[2] # to => TabOk(obj[a].slots) /\ ObjOk(obj[a].proto)
  /\ \A t \in TabAddr : tab[t].live /\ t[2] # to => \A k \in Key : ObjOk(tab[t].val[k])
  /\ \A a \in ObjAddr : obj[a].live /\ a[2] = to =>
       \/ TabHere(obj[a].slots) /\ ObjHere(obj[a].proto)
       \/ phase = "roots" /\ a \in wbObj /\ TabOk(obj[a].slots) /\ ObjOk(obj[a].proto)
  /\ \A t \in TabAddr : tab[t].live /\ t[2] = to =>
       \/ \A k \in Key : ObjHere(tab[t].val[k])
       \/ phase = "roots" /\ t \in wbSlot /\ \A k \in Key : ObjOk(tab[t].val[k])

(* A context that will have been traversed in the end, or that is old and  *)
(* need not be.                                                            *)
Settled(c) == c \in visited \/ (~ Full /\ ctx[c].gen = 1)
Reached(c) == Settled(c) \/ c \in todoCtx
InTo(a)    == a = Nil \/ a[2] = to

CtxRefs ==
  /\ \A c \in visited : /\ TabHere(ctx[c].slots) /\ ObjHere(ctx[c].obj) /\ ~ ctx[c].wb
                        /\ ctx[c].ref # 0 => ctx[c].gen = 1
  /\ \A c \in Ctx \ visited :
       /\ TabOk(ctx[c].slots) /\ ObjOk(ctx[c].obj)
       /\ ~ Full /\ ctx[c].gen = 1 /\ ~ ctx[c].wb => InTo(ctx[c].slots) /\ InTo(ctx[c].obj)
Reachable ==
  /\ \A i \in DOMAIN frames : Reached(frames[i])
  /\ \A a \in ObjAddr : obj[a].live /\ a[2] = to /\ obj[a].scope # Nil => Reached(obj[a].scope)
  /\ \A c \in Ctx : Settled(c) /\ ctx[c].prev # Nil => Reached(ctx[c].prev)
  /\ ~ Full => \A c \in Ctx : ctx[c].wb => c \in wbCtx \cup todoCtx \/ (phase = "barrier" /\ freeing = c /\ ctx[c].ref = 1)
Collection == phase # "run" => CellRefs /\ CtxRefs /\ Reachable

Heap   == Generations /\ Unique /\ Phases /\ Work /\ Copies /\ Lists /\ Logged
Counts == Counted /\ Pooled /\ Acyclic
Inv    == Types /\ Heap /\ Counts /\ Program /\ Collection

(***************************************************************************)
(* What an instruction writes: at most one object, one table and one       *)
(* context.                                                                *)
(***************************************************************************)

(* A context without count is held by nobody.                              *)
Unheld(c) ==
  /\ \A i \in DOMAIN frames : frames[i] # c
  /\ \A a \in desLog \cup dying : obj[a].scope # c
  /\ \A d \in Ctx : ctx[d].prev # c
  /\ c \notin wbCtx /\ freeing # c

(* What the program finds and keeps between two collections.               *)
Ready ==
  /\ phase = "run" /\ ~ AnyLoc /\ Phases /\ Types /\ Generations /\ Unique /\ Lists /\ Logged /\ RunRefs /\ RunOld
  /\ \A c \in Ctx : ctx[c].ref = 0 => Unheld(c)

(* Cell c may become the contents of table t.                              *)
TabGood(t, c) ==
  /\ c.live
  /\ IF tab[t].live THEN c.gen = tab[t].gen ELSE UnusedTab(t[1]) /\ InHeap(c.gen, t[2])
  /\ c.wb <=> t \in wbSlot
  /\ c.wb => c.gen = 1
  /\ \A k \in Key : ObjOk(c.val[k])
  /\ c.gen = 1 => \A k \in Key : YoungObj(c.val[k]) => c.wb

TabWritten(t, c) ==
  /\ tab' = [tab EXCEPT ![t] = c]
  /\ c.live
  /\ IF tab[t].live THEN c.gen = tab[t].gen ELSE UnusedTab(t[1]) /\ InHeap(c.gen, t[2])
  /\ wbSlot' \in {wbSlot, wbSlot \cup {t}}
  /\ c.wb <=> t \in wbSlot'
  /\ c.wb => c.gen = 1
  /\ \A k \in Key : ObjOk(c.val[k])
  /\ c.gen = 1 => \A k \in Key : YoungObj(c.val[k]) => c.wb

ObjWritten(a, c) ==
  /\ obj' = [obj EXCEPT ![a] = c]
  /\ c.live
  /\ IF obj[a].live THEN c.gen = obj[a].gen /\ c.scope = obj[a].scope
     ELSE c.gen = 0 /\ a[2] = 0 /\ UnusedObj(a[1])
  /\ desLog' = IF c.scope = Nil THEN desLog ELSE desLog \cup {a}
  /\ wbObj' \in {wbObj, wbObj \cup {a}}
  /\ c.wb <=> a \in wbObj'
  /\ c.wb => c.gen = 1
  /\ c.slots = Nil \/ tab'[c.slots].live
  /\ ObjOk(c.proto)
  /\ c.gen = 1 /\ ((c.slots # Nil /\ tab'[c.slots].gen = 0) \/ YoungObj(c.proto)) => c.wb

CtxKept(c) ==
  /\ ctx'[c].slots = ctx[c].slots /\ ctx'[c].obj = ctx[c].obj /\ ctx'[c].prev = ctx[c].prev
  /\ ctx'[c].gen = ctx[c].gen /\ ctx'[c].wb = ctx[c].wb
CtxWritten(c) ==
  /\ \A d \in Ctx \ {c} : CtxKept(d)
  /\ ctx'[c].gen = ctx[c].gen /\ ctx'[c].prev = ctx[c].prev
  /\ wbCtx' \in {wbCtx, wbCtx \cup {c}}
  /\ ctx'[c].wb <=> c \in wbCtx'
  /\ ctx'[c].slots = Nil \/ tab'[ctx'[c].slots].live
  /\ ctx'[c].obj = Nil \/ obj'[ctx'[c].obj].live
  /\ ctx'[c].gen = 1 =>
       /\ ctx'[c].slots # Nil /\ tab'[ctx'[c].slots].gen = 0 => ctx'[c].wb
       /\ ctx'[c].obj # Nil /\ obj'[ctx'[c].obj].gen = 0 => ctx'[c].wb
CtxCalled(c) ==
  /\ \A d \in Ctx \ {c} : CtxKept(d) /\ ctx[d].prev # c
  /\ c \notin wbCtx /\ UNCHANGED wbCtx
  /\ \A a \in ObjAddr : obj[a].live => obj[a].scope # c
  /\ ctx'[c].slots = Nil /\ ctx'[c].obj = Nil /\ ctx'[c].gen = 0 /\ ~ ctx'[c].wb

ObjEffect == \/ UNCHANGED <<obj, wbObj, desLog>>
             \/ \E a \in ObjAddr, c \in ObjCell : ObjWritten(a, c)
TabEffect == \/ UNCHANGED <<tab, wbSlot>>
             \/ \E t \in TabAddr, c \in TabCell : TabWritten(t, c)
CtxEffect == \/ wbCtx' = wbCtx /\ \A c \in Ctx : CtxKept(c)
             \/ \E c \in Ctx : CtxWritten(c) \/ CtxCalled(c)
Effect    == /\ ObjEffect /\ TabEffect /\ CtxEffect
             /\ \A a \in stack' : obj'[a].live
             /\ UNCHANGED <<gcVars, freeing>>

(* A table becomes what it is replaced by.                                 *)
LEMMA TabReplaced ==
  ASSUME NEW t \in TabAddr, NEW c \in TabCell, TabGood(t, c), tab' = [tab EXCEPT ![t] = c], wbSlot' = wbSlot
  PROVE  TabWritten(t, c)
BY DEF TabGood, TabWritten

(* ivm_slot_table_setSlot.                                                 *)
LEMMA StoreGood ==
  ASSUME Ready, NEW own, own.at \in TabAddr, own.cell \in TabCell, TabGood(own.at, own.cell),
         NEW K, NEW vals, K \subseteq DOMAIN vals, StoreSlots(own, K, vals),
         \A k \in DOMAIN vals : vals[k] \in ObjRef /\ ObjOk(vals[k])
  PROVE  \E c \in TabCell : TabWritten(own.at, c) /\ c.gen = own.cell.gen
<1> DEFINE v == [k \in Key |-> IF k \in K THEN vals[k] ELSE own.cell.val[k]]
           barrier == \E k \in DOMAIN vals : WBSlot(own.cell, vals[k])
<1>1. PICK b \in BOOLEAN : b = barrier
  OBVIOUS
<1>2. PICK w \in BOOLEAN : w = (own.cell.wb \/ b)
  OBVIOUS
<1> DEFINE c == [own.cell EXCEPT !.val = v, !.wb = w]
<1>3. own.cell.val \in [Key -> ObjRef] /\ own.cell.gen \in Bit /\ own.cell.wb \in BOOLEAN
  BY DEF TabCell
<1>4. v \in [Key -> ObjRef]
  BY <1>3
<1>5. /\ tab' = [tab EXCEPT ![own.at] = c]
      /\ wbSlot' = IF b /\ ~ own.cell.wb THEN wbSlot \cup {own.at} ELSE wbSlot
  <2>1. tab' = [tab EXCEPT ![own.at] = [own.cell EXCEPT !.val = v, !.wb = (own.cell.wb \/ barrier)]]
    BY DEF StoreSlots
  <2>2. w = (own.cell.wb \/ barrier)
    BY <1>1, <1>2
  <2>3. tab' = [tab EXCEPT ![own.at] = [own.cell EXCEPT !.val = v, !.wb = w]]
    BY <2>1, <2>2
  <2>4. wbSlot' = IF barrier /\ ~ own.cell.wb THEN wbSlot \cup {own.at} ELSE wbSlot
    BY DEF StoreSlots, Remember
  <2> QED BY <1>1, <2>3, <2>4
<1>6. \A k \in Key : v[k] = IF k \in K THEN vals[k] ELSE own.cell.val[k]
  OBVIOUS
<1>7. b => own.cell.gen = 1
  BY <1>1 DEF WBSlot
<1>8. \A k \in K : own.cell.gen = 1 /\ YoungObj(vals[k]) => b
  BY <1>1 DEF WBSlot, YoungObj
<1> HIDE DEF v, barrier
<1>9. c \in TabCell /\ c.val = v /\ c.wb = w /\ c.gen = own.cell.gen /\ c.live = own.cell.live
  BY <1>4 DEF TabCell
<1> HIDE DEF c
<1>10. \A k \in Key : ObjOk(v[k])
  BY <1>6 DEF TabGood
<1>11. c.wb => c.gen = 1
  BY <1>2, <1>7, <1>9 DEF TabGood
<1>12. c.gen = 1 => \A k \in Key : YoungObj(c.val[k]) => c.wb
  BY <1>2, <1>6, <1>8, <1>9 DEF TabGood
<1>13. c.wb <=> own.at \in wbSlot'
  BY <1>2, <1>5, <1>9 DEF TabGood
<1>14. TabWritten(own.at, c)
  BY <1>5, <1>9, <1>10, <1>11, <1>12, <1>13 DEF TabWritten, TabGood
<1> QED BY <1>9, <1>14

(* The table that an object may write, and when the object is remembered   *)
(* for it already.                                                         *)
LEMMA OwnedGood ==
  ASSUME Ready, NEW a \in ObjAddr, obj[a].live, NEW n \in Tab, NeedsTable(obj[a]) => UnusedTab(n)
  PROVE  LET own == Owned(obj[a], n) IN
         /\ own.at \in TabAddr /\ own.cell \in TabCell /\ TabGood(own.at, own.cell)
         /\ obj[a].gen = 1 /\ own.cell.gen = 0 /\ ~ CopiedBarrier(obj[a], own) => a \in wbObj
<1> DEFINE own == Owned(obj[a], n)
<1>1. obj[a].slots \in TabRef /\ obj[a].gen \in Bit /\ Types
  BY CellTypes DEF Ready
<1>2. own.at \in TabAddr /\ own.cell \in TabCell
  BY <1>1, OwnedTypes
<1>3. CASE obj[a].slots = Nil
  <2>1. own.at = <<n, HeapAt(obj[a].gen)>> /\ own.cell = NewTabAt(obj[a].gen)
    BY <1>3 DEF Owned
  <2>2. UnusedTab(n) /\ own.at[1] = n /\ own.at[2] = HeapAt(obj[a].gen)
    BY <1>3, <2>1 DEF NeedsTable
  <2>3. own.cell.live /\ own.cell.gen = obj[a].gen /\ ~ own.cell.wb /\ \A k \in Key : own.cell.val[k] = Nil
    BY <2>1 DEF NewTabAt, DeadTab
  <2>4. ~ tab[own.at].live
    BY <1>1, <2>1, <2>2, Heaps DEF UnusedTab
  <2>5. own.at \notin wbSlot
    BY <1>2, <2>4 DEF Ready, Lists
  <2>6. InHeap(own.cell.gen, own.at[2])
    BY <1>1, <2>2, <2>3 DEF InHeap, HeapAt, Bit, Types, WorkTypes
  <2>7. TabGood(own.at, own.cell)
    <3> HIDE DEF own
    <3> QED BY <2>2, <2>3, <2>4, <2>5, <2>6 DEF TabGood, ObjOk, YoungObj
  <2> QED BY <1>2, <2>3, <2>7
<1>4. CASE obj[a].slots # Nil /\ Shared(obj[a])
  <2>1. own.at = <<n, 0>> /\ own.cell = CopyState(tab[obj[a].slots]) /\ UnusedTab(n) /\ own.at[1] = n /\ own.at[2] = 0
    BY <1>4 DEF Owned, NeedsTable
  <2>2. obj[a].slots \in TabAddr /\ tab[obj[a].slots].live /\ tab[obj[a].slots] \in TabCell
    BY <1>1, <1>4, CellTypes DEF Ready, RunRefs, TabOk, TabRef
  <2>3. /\ own.cell.live /\ own.cell.gen = 0 /\ ~ own.cell.wb
        /\ own.cell.val = tab[obj[a].slots].val
    BY <2>1, <2>2 DEF CopyState, TabCell
  <2>4. \A k \in Key : ObjOk(own.cell.val[k])
    BY <2>2, <2>3 DEF Ready, RunRefs
  <2>5. ~ tab[own.at].live
    BY <1>1, <2>1, Heaps DEF UnusedTab
  <2>6. own.at \notin wbSlot
    BY <1>2, <2>5 DEF Ready, Lists
  <2>7. InHeap(own.cell.gen, own.at[2])
    BY <2>1, <2>3 DEF InHeap
  <2>8. TabGood(own.at, own.cell)
    <3> HIDE DEF own
    <3> QED BY <2>1, <2>3, <2>4, <2>5, <2>6, <2>7 DEF TabGood
  <2>9. obj[a].gen = 1 => CopiedBarrier(obj[a], own)
    BY <1>4, <2>3 DEF CopiedBarrier, WBObjSlot
  <2> QED BY <1>2, <2>8, <2>9
<1>5. CASE obj[a].slots # Nil /\ ~ Shared(obj[a])
  <2>1. own.at = obj[a].slots /\ own.cell = tab[obj[a].slots]
    BY <1>5 DEF Owned
  <2>2. obj[a].slots \in TabAddr /\ tab[obj[a].slots].live
    BY <1>1, <1>5 DEF Ready, RunRefs, TabOk, TabRef
  <2>3. TabGood(own.at, own.cell)
    <3> HIDE DEF own
    <3>1. tab[own.at].wb <=> own.at \in wbSlot
      BY <2>1, <2>2 DEF Ready, Lists
    <3>2. tab[own.at].wb => tab[own.at].gen = 1
      BY <2>1, <2>2, <3>1 DEF Ready, Lists
    <3>3. \A k \in Key : ObjOk(tab[own.at].val[k])
      BY <2>1, <2>2 DEF Ready, RunRefs
    <3>4. tab[own.at].gen = 1 => \A k \in Key : YoungObj(tab[own.at].val[k]) => tab[own.at].wb
      BY <2>1, <2>2, <3>1 DEF Ready, RunOld
    <3> QED BY <2>1, <2>2, <3>1, <3>2, <3>3, <3>4 DEF TabGood
  <2>4. obj[a].gen = 1 /\ own.cell.gen = 0 => a \in wbObj
    BY <1>5, <2>1 DEF Ready, RunOld, YoungTab
  <2> QED BY <1>2, <2>3, <2>4
<1> QED BY <1>3, <1>4, <1>5

(* An object takes a table, with or without a barrier.                     *)
LEMMA TakeGood ==
  ASSUME Ready, NEW a \in ObjAddr, obj[a].live, NEW t \in TabAddr, NEW g, NEW barrier,
         tab'[t].live, tab'[t].gen = g, desLog' = desLog,
         obj' = [obj EXCEPT ![a].slots = t, ![a].wb = @ \/ barrier],
         wbObj' = Remember(wbObj, obj[a], a, barrier),
         barrier => obj[a].gen = 1,
         obj[a].gen = 1 /\ g = 0 /\ ~ barrier => a \in wbObj
  PROVE  \E c \in ObjCell : ObjWritten(a, c)
<1>1. obj[a] \in ObjCell /\ obj[a].wb \in BOOLEAN /\ obj[a].gen \in Bit /\ Types
  BY CellTypes DEF Ready
<1>2. PICK b \in BOOLEAN : b <=> barrier
  OBVIOUS
<1>3. PICK w \in BOOLEAN : w <=> (obj[a].wb \/ b)
  OBVIOUS
<1> DEFINE c == [obj[a] EXCEPT !.slots = t, !.wb = w]
<1>4. obj' = [obj EXCEPT ![a] = c]
  <2>1. w = (obj[a].wb \/ barrier)
    BY <1>1, <1>2, <1>3
  <2> QED BY <2>1 DEF Types, HeapTypes
<1>5. wbObj' = IF b /\ ~ obj[a].wb THEN wbObj \cup {a} ELSE wbObj
  BY <1>2 DEF Remember
<1>6. c \in ObjCell
  BY <1>1 DEF ObjCell, TabRef
<1>7. /\ c.live /\ c.gen = obj[a].gen /\ c.scope = obj[a].scope /\ c.proto = obj[a].proto
      /\ c.slots = t /\ c.wb = w
  BY <1>1 DEF ObjCell
<1> HIDE DEF c
<1>8. obj[a].wb <=> a \in wbObj
  BY DEF Ready, Lists
<1>9. a \in wbObj => obj[a].gen = 1
  BY DEF Ready, Lists
<1>10. desLog' = IF c.scope = Nil THEN desLog ELSE desLog \cup {a}
  BY <1>7 DEF Ready, Logged, Functions
<1>11. c.wb <=> a \in wbObj'
  BY <1>3, <1>5, <1>7, <1>8
<1>12. c.wb => c.gen = 1
  BY <1>2, <1>3, <1>7, <1>8, <1>9
<1>13. ObjOk(c.proto)
  BY <1>7 DEF Ready, RunRefs
<1>14. c.gen = 1 /\ tab'[c.slots].gen = 0 => c.wb
  BY <1>2, <1>3, <1>7, <1>8
<1>15. c.gen = 1 /\ YoungObj(c.proto) => c.wb
  BY <1>3, <1>7, <1>8 DEF Ready, RunOld
<1>16. ObjWritten(a, c)
  BY <1>4, <1>5, <1>7, <1>10, <1>11, <1>12, <1>13, <1>14, <1>15 DEF ObjWritten
<1> QED BY <1>6, <1>16

(* Only counts change.                                                     *)
LEMMA RefKept ==
  ASSUME Types, NEW s \in CtxRef, RefScope(s)
  PROVE  \A c \in Ctx : CtxKept(c)
<1>1. CASE s = Nil
  BY <1>1 DEF RefScope, CtxKept
<1>2. CASE s # Nil
  <2>1. ctx' = [ctx EXCEPT ![s].ref = @ + 1] /\ s \in Ctx
    BY <1>2 DEF RefScope, CtxRef
  <2>2. \A c \in Ctx : ctx[c] \in CtxCellI
    BY CellTypes
  <2> QED BY <2>1, <2>2 DEF CtxKept, CtxCellI, Types, HeapTypes
<1> QED BY <1>1, <1>2

(* An empty table.                                                         *)
LEMMA NewTabs ==
  \A g : LET c == NewTabAt(g) IN c.live /\ c.gen = g /\ ~ c.wb /\ \A k \in Key : c.val[k] = Nil
BY DEF NewTabAt, DeadTab

(* A new object.                                                           *)
LEMMA NewGood ==
  ASSUME Ready, NEW o \in Obj, UnusedObj(o), NEW c \in ObjCell, c.live, c.gen = 0, ~ c.wb,
         obj' = [obj EXCEPT ![<<o, 0>>] = c], wbObj' = wbObj, LogFunction(<<o, 0>>, c.scope),
         c.slots = Nil \/ tab'[c.slots].live, ObjOk(c.proto)
  PROVE  ObjEffect /\ <<o, 0>> \in ObjAddr /\ obj'[<<o, 0>>].live /\ \A a \in ObjAddr : obj[a].live => obj'[a].live
<1>1. 0 \in Space /\ <<o, 0>> \in ObjAddr /\ ~ obj[<<o, 0>>].live
  BY Addresses, Heaps DEF Ready, UnusedObj
<1>2. <<o, 0>> \notin wbObj
  BY <1>1 DEF Ready, Lists
<1>3. ObjWritten(<<o, 0>>, c)
  BY <1>1, <1>2 DEF ObjWritten, LogFunction
<1>4. obj \in [ObjAddr -> ObjCell]
  BY DEF Ready, Types, HeapTypes
<1> QED BY <1>1, <1>3, <1>4 DEF ObjEffect

(* What an object written keeps, and what is live besides.                 *)
LEMMA WrittenLive ==
  ASSUME Ready, ObjEffect
  PROVE  \A a \in ObjAddr : obj[a].live => obj'[a].live /\ obj'[a].gen = obj[a].gen /\ obj'[a].scope = obj[a].scope
<1>1. obj \in [ObjAddr -> ObjCell]
  BY DEF Ready, Types, HeapTypes
<1>2. CASE UNCHANGED <<obj, wbObj, desLog>>
  BY <1>2
<1>3. ASSUME NEW a \in ObjAddr, NEW c \in ObjCell, ObjWritten(a, c)
      PROVE  \A b \in ObjAddr : obj[b].live => obj'[b].live /\ obj'[b].gen = obj[b].gen /\ obj'[b].scope = obj[b].scope
  BY <1>1, <1>3 DEF ObjWritten
<1> QED BY <1>2, <1>3 DEF ObjEffect
(* A table that an instruction writes lives on in its heap.                *)
LEMMA WrittenTab ==
  ASSUME Ready, TabEffect
  PROVE  \A t \in TabAddr : tab[t].live => tab'[t].live /\ tab'[t].gen = tab[t].gen
<1>1. tab \in [TabAddr -> TabCell]
  BY DEF Ready, Types, HeapTypes
<1>2. CASE UNCHANGED <<tab, wbSlot>>
  BY <1>2
<1>3. ASSUME NEW t \in TabAddr, NEW c \in TabCell, TabWritten(t, c)
      PROVE  \A u \in TabAddr : tab[u].live => tab'[u].live /\ tab'[u].gen = tab[u].gen
  BY <1>1, <1>3 DEF TabWritten
<1> QED BY <1>2, <1>3 DEF TabEffect

(* Every instruction writes its cells in one of the ways that the barriers *)
(* allow.                                                                  *)
LEMMA MutateEffect ==
  ASSUME Ready, Mutate, UNCHANGED <<gcVars, freeing>>
  PROVE  Effect
<1> DEFINE Done == ObjEffect /\ TabEffect /\ CtxEffect /\ \A a \in stack' : obj'[a].live
<1> SUFFICES Done
  BY DEF Effect
<1>0. /\ obj \in [ObjAddr -> ObjCell] /\ tab \in [TabAddr -> TabCell] /\ ctx \in [Ctx -> CtxCellI]
      /\ stack \subseteq ObjAddr /\ \A a \in stack : obj[a].live
      /\ Types /\ Local \in Ctx
  BY CellTypes DEF Ready, Types, HeapTypes, RootTypes, RunRefs
<1> USE <1>0
<1>z. Nil \in ObjRef /\ Nil \in TabRef /\ Nil \in CtxRef /\ ObjAddr \subseteq ObjRef /\ TabAddr \subseteq TabRef
      /\ Ctx \subseteq CtxRef /\ 0 \in Space /\ 0 \in Bit /\ Nil \notin Ctx /\ ObjOk(Nil) /\ TabOk(Nil)
  BY Addresses DEF ObjRef, TabRef, CtxRef, Space, Bit, ObjOk, TabOk
<1>1. ASSUME NEW o \in Obj, NewObject(o) PROVE Done
  <2> DEFINE c == [DeadObj EXCEPT !.live = TRUE]
  <2>1. c \in ObjCell
    BY Cells, <1>z, ObjCells
  <2>2. c.live /\ c.gen = 0 /\ ~ c.wb /\ c.slots = Nil /\ c.proto = Nil /\ c.scope = Nil
    BY DEF DeadObj
  <2> HIDE DEF c
  <2>3. /\ UnusedObj(o) /\ obj' = [obj EXCEPT ![<<o, 0>>] = c] /\ wbObj' = wbObj
        /\ LogFunction(<<o, 0>>, c.scope)
    BY <1>1, <2>2 DEF NewObject, wbVars, LogFunction, c
  <2>4. ObjEffect /\ obj'[<<o, 0>>].live /\ \A a \in ObjAddr : obj[a].live => obj'[a].live
    BY <2>1, <2>2, <2>3, <1>z, NewGood
  <2> QED BY <1>1, <2>4 DEF NewObject, PushValue, wbVars, TabEffect, CtxEffect, CtxKept
<1>2. ASSUME NEW v \in stack, Pop(v) PROVE Done
  BY <1>2 DEF Pop, heapVars, wbVars, ObjEffect, TabEffect, CtxEffect, CtxKept
<1>3. ASSUME NEW a \in stack, NEW p \in stack, SetProto(a, p) PROVE Done
  <2>1. PICK b \in BOOLEAN : b <=> WBObj(obj[a], obj[p])
    OBVIOUS
  <2>2. obj[a] \in ObjCell /\ obj[a].wb \in BOOLEAN
    BY CellTypes
  <2>3. PICK w \in BOOLEAN : w <=> (obj[a].wb \/ b)
    OBVIOUS
  <2> DEFINE c == [obj[a] EXCEPT !.proto = p, !.wb = w]
  <2>4. c \in ObjCell
    BY <1>z, <2>2 DEF ObjCell
  <2>5. /\ c.live /\ c.gen = obj[a].gen /\ c.scope = obj[a].scope /\ c.proto = p
        /\ c.slots = obj[a].slots /\ c.wb = w
    BY <2>2 DEF ObjCell
  <2>6. obj' = [obj EXCEPT ![a] = c]
    <3>1. w = (obj[a].wb \/ WBObj(obj[a], obj[p]))
      BY <2>1, <2>2, <2>3
    <3> QED BY <1>3, <3>1 DEF SetProto
  <2>7. /\ wbObj' = IF b /\ ~ obj[a].wb THEN wbObj \cup {a} ELSE wbObj
        /\ UNCHANGED <<tab, ctx, stack, wbSlot, wbCtx, desLog>>
    BY <1>3, <2>1 DEF SetProto, Remember, rootVars
  <2> HIDE DEF c
  <2>8. (obj[a].wb <=> a \in wbObj) /\ (a \in wbObj => obj[a].gen = 1)
    BY DEF Ready, Lists
  <2>9. desLog' = IF c.scope = Nil THEN desLog ELSE desLog \cup {a}
    BY <2>5, <2>7 DEF Ready, Logged, Functions
  <2>10. (c.wb <=> a \in wbObj') /\ (c.wb => c.gen = 1)
    BY <2>1, <2>3, <2>5, <2>7, <2>8 DEF WBObj
  <2>11. ObjOk(c.proto) /\ (c.slots = Nil \/ tab'[c.slots].live)
    BY <2>5, <2>7 DEF Ready, RunRefs, ObjOk, TabOk
  <2>12. c.gen = 1 /\ ((c.slots # Nil /\ tab'[c.slots].gen = 0) \/ YoungObj(c.proto)) => c.wb
    <3>1. obj[a].gen = 1 /\ obj[a].slots # Nil /\ tab[obj[a].slots].gen = 0 => a \in wbObj
      BY DEF Ready, RunOld, YoungTab
    <3> QED BY <3>1, <2>1, <2>3, <2>5, <2>7, <2>8 DEF WBObj, YoungObj
  <2>13. ObjWritten(a, c)
    BY <2>5, <2>6, <2>7, <2>9, <2>10, <2>11, <2>12 DEF ObjWritten
  <2>14. ObjEffect
    BY <2>4, <2>13 DEF ObjEffect
  <2> QED BY <2>7, <2>14, WrittenLive DEF TabEffect, CtxEffect, CtxKept
<1>4. ASSUME NEW a \in stack, NEW k \in Key, NEW v \in stack \cup {Nil}, NEW n \in Tab, SetSlot(a, k, v, n)
      PROVE  Done
  <2> DEFINE own == Owned(obj[a], n)
             vals == [x \in {k} |-> v]
  <2>1. /\ own.at \in TabAddr /\ own.cell \in TabCell /\ TabGood(own.at, own.cell)
        /\ obj[a].gen = 1 /\ own.cell.gen = 0 /\ ~ CopiedBarrier(obj[a], own) => a \in wbObj
    BY <1>4, OwnedGood DEF SetSlot
  <2>2. TakeTable(a, own) /\ StoreSlots(own, {k}, vals) /\ UNCHANGED <<ctx, stack, wbCtx, desLog>>
    BY <1>4 DEF SetSlot, StoreSlot, rootVars
  <2>3. \A x \in DOMAIN vals : vals[x] \in ObjRef /\ ObjOk(vals[x])
    BY <1>z DEF ObjOk
  <2>4. {k} \subseteq DOMAIN vals
    OBVIOUS
  <2> HIDE DEF own, vals
  <2>5. PICK c \in TabCell : TabWritten(own.at, c) /\ c.gen = own.cell.gen
    BY <2>1, <2>2, <2>3, <2>4, StoreGood
  <2>6. tab'[own.at].live /\ tab'[own.at].gen = own.cell.gen
    BY <2>1, <2>5 DEF TabWritten
  <2>7. CopiedBarrier(obj[a], own) => obj[a].gen = 1
    BY DEF CopiedBarrier, WBObjSlot
  <2>8. PICK b : b = CopiedBarrier(obj[a], own)
    OBVIOUS
  <2>9. /\ obj' = [obj EXCEPT ![a].slots = own.at, ![a].wb = @ \/ b]
        /\ wbObj' = Remember(wbObj, obj[a], a, b)
    BY <2>2, <2>8 DEF TakeTable
  <2>10. \E x \in ObjCell : ObjWritten(a, x)
    BY <2>1, <2>2, <2>6, <2>7, <2>8, <2>9, TakeGood
  <2> QED BY <2>1, <2>2, <2>5, <2>10, WrittenLive DEF ObjEffect, TabEffect, CtxEffect, CtxKept
<1>5. ASSUME NEW a \in stack, NEW k \in Key, GetSlot(a, k) PROVE Done
  <2>1. obj[a].slots \in TabAddr /\ tab[obj[a].slots].live
    BY <1>5, CellTypes DEF GetSlot, TabRef, Ready, RunRefs, TabOk
  <2>2. ObjOk(tab[obj[a].slots].val[k])
    BY <2>1 DEF Ready, RunRefs
  <2> QED BY <1>5, <2>2 DEF GetSlot, PushValue, heapVars, wbVars, ObjOk, ObjEffect, TabEffect, CtxEffect, CtxKept
<1>6. ASSUME NEW a \in stack, NEW b \in stack, NEW K \in SUBSET Key, NEW n \in Tab, Merge(a, b, K, n)
      PROVE  Done
  <2> DEFINE from == tab[obj[b].slots]
             own  == IF obj[a].slots = Nil THEN [at |-> <<n, 0>>, cell |-> CopyState(from)] ELSE Owned(obj[a], n)
             barrier == NeedsTable(obj[a]) /\ WBObjSlot(obj[a], own.cell)
  <2>0. obj[b].slots \in TabAddr /\ from.live /\ (NeedsTable(obj[a]) => UnusedTab(n))
    BY <1>6, CellTypes DEF Merge, TabRef, Ready, RunRefs, TabOk
  <2>1. from \in TabCell /\ from.val \in [Key -> ObjRef] /\ \A k \in Key : ObjOk(from.val[k])
    BY <2>0, CellTypes DEF Ready, RunRefs
  <2>2. /\ obj' = [obj EXCEPT ![a].slots = own.at, ![a].wb = @ \/ barrier]
        /\ wbObj' = Remember(wbObj, obj[a], a, barrier)
        /\ IF obj[a].slots = Nil
           THEN tab' = [tab EXCEPT ![own.at] = own.cell] /\ UNCHANGED wbSlot
           ELSE StoreSlots(own, K, from.val)
        /\ UNCHANGED <<ctx, stack, wbCtx, desLog>>
    BY <1>6 DEF Merge, rootVars
  <2>3. /\ own.at \in TabAddr /\ own.cell \in TabCell /\ TabGood(own.at, own.cell)
        /\ obj[a].gen = 1 /\ own.cell.gen = 0 /\ ~ barrier => a \in wbObj
    <3>1. CASE obj[a].slots = Nil
      <4>1. own.at = <<n, 0>> /\ own.cell = CopyState(from) /\ own.at[1] = n /\ own.at[2] = 0
        BY <3>1
      <4>2. own.at \in TabAddr /\ own.cell \in TabCell /\ UnusedTab(n) /\ NeedsTable(obj[a])
        BY <2>0, <2>1, <3>1, <4>1, <1>z, TabCells, Addresses DEF NeedsTable
      <4>3. own.cell.live /\ own.cell.gen = 0 /\ ~ own.cell.wb /\ own.cell.val = from.val
        BY <2>0, <2>1, <4>1 DEF CopyState, TabCell
      <4>4. ~ tab[own.at].live
        BY <4>1, <4>2, <1>z DEF UnusedTab
      <4>5. own.at \notin wbSlot
        BY <4>2, <4>4 DEF Ready, Lists
      <4>6. InHeap(own.cell.gen, own.at[2])
        BY <4>1, <4>3 DEF InHeap
      <4>7. TabGood(own.at, own.cell)
        <5> HIDE DEF own
        <5> QED BY <2>1, <4>1, <4>2, <4>3, <4>4, <4>5, <4>6 DEF TabGood
      <4>8. obj[a].gen = 1 => barrier
        BY <4>2, <4>3 DEF WBObjSlot
      <4> QED BY <4>2, <4>7, <4>8
    <3>2. CASE obj[a].slots # Nil
      <4>1. own = Owned(obj[a], n)
        BY <3>2
      <4>2. barrier <=> CopiedBarrier(obj[a], own)
        BY <3>2 DEF CopiedBarrier, NeedsTable
      <4> HIDE DEF own, barrier
      <4> QED BY <2>0, <4>1, <4>2, OwnedGood
    <3> QED BY <3>1, <3>2
  <2> DEFINE vals == from.val
  <2>4. \A x \in DOMAIN vals : vals[x] \in ObjRef /\ ObjOk(vals[x])
    BY <2>1
  <2>5. K \subseteq DOMAIN vals
    BY <2>1
  <2>6. barrier => obj[a].gen = 1
    BY DEF WBObjSlot
  <2> HIDE DEF own, barrier, vals
  <2>7. PICK c \in TabCell : TabWritten(own.at, c) /\ c.gen = own.cell.gen
    <3>1. CASE obj[a].slots = Nil
      <4>1. tab' = [tab EXCEPT ![own.at] = own.cell] /\ wbSlot' = wbSlot
        BY <2>2, <3>1
      <4> QED BY <2>3, <4>1, TabReplaced
    <3>2. CASE obj[a].slots # Nil
      <4>1. StoreSlots(own, K, vals)
        BY <2>2, <3>2 DEF vals
      <4> QED BY <2>3, <2>4, <2>5, <4>1, StoreGood
    <3> QED BY <3>1, <3>2
  <2>8. tab'[own.at].live /\ tab'[own.at].gen = own.cell.gen
    BY <2>3, <2>7 DEF TabWritten
  <2>9. PICK w : w = barrier
    OBVIOUS
  <2>10. \E x \in ObjCell : ObjWritten(a, x)
    BY <2>2, <2>3, <2>6, <2>8, <2>9, TakeGood
  <2> QED BY <2>2, <2>3, <2>7, <2>10, WrittenLive DEF ObjEffect, TabEffect, CtxEffect, CtxKept
<1>7. ASSUME NEW a \in stack, NEW o \in Obj, NEW n \in Tab, Clone(a, o, n) PROVE Done
  <2> DEFINE t == obj[a].slots
             nocow == t # Nil /\ tab[t].nocow
             s == IF nocow THEN <<n, 0>> ELSE t
             c == [obj[a] EXCEPT !.gen = 0, !.wb = FALSE, !.slots = s]
  <2>1. t \in TabRef /\ obj[a].scope \in CtxRef /\ obj[a] \in ObjCell /\ obj[a].live /\ TabOk(t) /\ ObjOk(obj[a].proto)
    BY CellTypes DEF Ready, RunRefs
  <2>2. <<n, 0>> \in TabAddr
    BY Addresses, <1>z
  <2>3. s \in TabRef
    BY <2>1, <2>2, <1>z
  <2>4. /\ obj' = [obj EXCEPT ![<<o, 0>>] = c]
        /\ UnusedObj(o) /\ (nocow => UnusedTab(n)) /\ RefScope(obj[a].scope)
        /\ LogFunction(<<o, 0>>, obj[a].scope)
        /\ stack' = stack \cup {<<o, 0>>} /\ UNCHANGED <<wbObj, wbSlot, wbCtx>>
        /\ tab' = IF t = Nil THEN tab
            ELSE IF nocow THEN [tab EXCEPT ![<<n, 0>>] = CopyState(tab[t])]
            ELSE [tab EXCEPT ![t].shared = TRUE]
    BY <1>7 DEF Clone, PushValue, wbVars
  <2>5. TabEffect /\ (s = Nil \/ tab'[s].live)
    <3>1. CASE t = Nil
      BY <3>1, <2>4 DEF TabEffect
    <3>2. CASE t # Nil /\ nocow
      <4> DEFINE tc == CopyState(tab[t])
      <4>1. t \in TabAddr /\ tab[t] \in TabCell /\ tab[t].live
        BY <2>1, <3>2, CellTypes DEF TabRef, TabOk
      <4>2. tc \in TabCell
        BY <4>1, <1>z DEF TabCell, CopyState
      <4>3. tc.live /\ tc.gen = 0 /\ ~ tc.wb /\ tc.val = tab[t].val
        BY <4>1 DEF CopyState, TabCell
      <4>4. \A k \in Key : ObjOk(tc.val[k])
        BY <4>1, <4>3 DEF Ready, RunRefs
      <4>5. UnusedTab(n) /\ ~ tab[<<n, 0>>].live /\ <<n, 0>> \notin wbSlot
        <5>1. UnusedTab(n) /\ ~ tab[<<n, 0>>].live
          BY <2>4, <3>2, <1>z DEF UnusedTab
        <5> QED BY <5>1, <2>2 DEF Ready, Lists
      <4>6. <<n, 0>>[1] = n /\ InHeap(tc.gen, <<n, 0>>[2])
        BY <4>3 DEF InHeap
      <4>8. tab' = [tab EXCEPT ![<<n, 0>>] = tc]
        BY <2>4, <3>2
      <4> HIDE DEF tc
      <4>7. TabGood(<<n, 0>>, tc)
        BY <4>3, <4>4, <4>5, <4>6 DEF TabGood
      <4>9. TabWritten(<<n, 0>>, tc)
        BY <2>2, <2>4, <4>2, <4>7, <4>8, TabReplaced
      <4> QED BY <2>2, <3>2, <4>2, <4>3, <4>8, <4>9 DEF TabEffect
    <3>3. CASE t # Nil /\ ~ nocow
      <4> DEFINE tc == [tab[t] EXCEPT !.shared = TRUE]
      <4>1. t \in TabAddr /\ tab[t] \in TabCell /\ tab[t].live
        BY <2>1, <3>3, CellTypes DEF TabRef, TabOk
      <4>2. tc \in TabCell
        BY <4>1 DEF TabCell
      <4>3. tc.live /\ tc.gen = tab[t].gen /\ tc.wb = tab[t].wb /\ tc.val = tab[t].val
        BY <4>1 DEF TabCell
      <4>4. \A k \in Key : ObjOk(tc.val[k])
        BY <4>1, <4>3 DEF Ready, RunRefs
      <4>5. (tc.wb <=> t \in wbSlot) /\ (t \in wbSlot => tc.gen = 1)
        BY <4>1, <4>3 DEF Ready, Lists
      <4>6. tc.gen = 1 => \A k \in Key : YoungObj(tc.val[k]) => t \in wbSlot
        BY <4>1, <4>3 DEF Ready, RunOld
      <4>8. tab' = [tab EXCEPT ![t] = tc]
        BY <2>4, <3>3
      <4> HIDE DEF tc
      <4>7. TabGood(t, tc)
        BY <4>1, <4>3, <4>4, <4>5, <4>6 DEF TabGood
      <4>9. TabWritten(t, tc)
        BY <2>4, <4>1, <4>2, <4>7, <4>8, TabReplaced
      <4> QED BY <3>3, <4>1, <4>2, <4>3, <4>8, <4>9 DEF TabEffect
    <3> QED BY <3>1, <3>2, <3>3
  <2> HIDE DEF s
  <2>6. c \in ObjCell
    BY <2>1, <2>3, <1>z DEF ObjCell
  <2>7. c.live /\ c.gen = 0 /\ ~ c.wb /\ c.slots = s /\ c.proto = obj[a].proto /\ c.scope = obj[a].scope
    BY <2>1 DEF ObjCell
  <2> HIDE DEF c
  <2>8. ObjEffect /\ obj'[<<o, 0>>].live /\ \A x \in ObjAddr : obj[x].live => obj'[x].live
    BY <2>1, <2>4, <2>5, <2>6, <2>7, NewGood
  <2>9. CtxEffect
    BY <2>1, <2>4, RefKept DEF CtxEffect
  <2> QED BY <2>4, <2>5, <2>8, <2>9
<1>8. ASSUME NEW k \in Key, NEW v \in stack \cup {Nil}, NEW n \in Tab, SetLocalSlot(k, v, n) PROVE Done
  <2> DEFINE c == ctx[Local]
             own == IF c.slots = Nil THEN [at |-> <<n, HeapAt(c.gen)>>, cell |-> NewTabAt(c.gen)]
                    ELSE [at |-> c.slots, cell |-> tab[c.slots]]
             vals == [x \in {k} |-> v]
  <2>1. /\ Local \in Ctx /\ c \in CtxCellI /\ c.slots \in TabRef /\ c.gen \in Bit /\ TabOk(c.slots) /\ ObjOk(c.obj)
        /\ (c.slots = Nil => UnusedTab(n))
    BY <1>8, CellTypes DEF Ready, RunRefs, SetLocalSlot
  <2>2. /\ own.at \in TabAddr /\ own.cell \in TabCell /\ TabGood(own.at, own.cell)
        /\ c.gen = 1 /\ own.cell.gen = 0 => Local \in wbCtx
    <3>1. CASE c.slots = Nil
      <4>1. own.at = <<n, HeapAt(c.gen)>> /\ own.cell = NewTabAt(c.gen)
        BY <3>1
      <4>2. UnusedTab(n) /\ own.at[1] = n /\ own.at[2] = HeapAt(c.gen)
        BY <2>1, <3>1, <4>1
      <4>3. own.cell.live /\ own.cell.gen = c.gen /\ ~ own.cell.wb /\ \A x \in Key : own.cell.val[x] = Nil
        BY <4>1, NewTabs
      <4>4. ~ tab[own.at].live /\ own.at \in TabAddr /\ own.cell \in TabCell
        BY <2>1, <4>1, <4>2, Heaps, Addresses, Cells DEF UnusedTab
      <4>5. own.at \notin wbSlot
        BY <4>4 DEF Ready, Lists
      <4>6. InHeap(own.cell.gen, own.at[2])
        BY <2>1, <4>2, <4>3 DEF InHeap, HeapAt, Bit, Types, WorkTypes
      <4>7. TabGood(own.at, own.cell)
        <5> HIDE DEF own
        <5> QED BY <4>2, <4>3, <4>4, <4>5, <4>6 DEF TabGood, ObjOk, YoungObj
      <4> QED BY <4>3, <4>4, <4>7
    <3>2. CASE c.slots # Nil
      <4>1. own.at = c.slots /\ own.cell = tab[c.slots]
        BY <3>2
      <4>2. c.slots \in TabAddr /\ tab[c.slots].live /\ tab[c.slots] \in TabCell
        BY <2>1, <3>2 DEF TabOk, TabRef
      <4>3. TabGood(own.at, own.cell)
        <5> HIDE DEF own, c
        <5>1. tab[own.at].wb <=> own.at \in wbSlot
          BY <4>1, <4>2 DEF Ready, Lists
        <5>2. tab[own.at].wb => tab[own.at].gen = 1
          BY <4>1, <4>2, <5>1 DEF Ready, Lists
        <5>3. \A x \in Key : ObjOk(tab[own.at].val[x])
          BY <4>1, <4>2 DEF Ready, RunRefs
        <5>4. tab[own.at].gen = 1 => \A x \in Key : YoungObj(tab[own.at].val[x]) => tab[own.at].wb
          BY <4>1, <4>2, <5>1 DEF Ready, RunOld
        <5> QED BY <4>1, <4>2, <5>1, <5>2, <5>3, <5>4 DEF TabGood
      <4>4. c.gen = 1 /\ own.cell.gen = 0 => Local \in wbCtx
        BY <3>2, <4>1 DEF Ready, RunOld, YoungTab
      <4> QED BY <4>1, <4>2, <4>3, <4>4
    <3> QED BY <3>1, <3>2
  <2>3. /\ ctx' = [ctx EXCEPT ![Local].slots = own.at] /\ StoreSlots(own, {k}, vals)
        /\ UNCHANGED <<obj, stack, wbObj, wbCtx, desLog>>
    BY <1>8 DEF SetLocalSlot, StoreSlot, rootVars
  <2>4. \A x \in DOMAIN vals : vals[x] \in ObjRef /\ ObjOk(vals[x])
    BY <1>z DEF ObjOk
  <2>5. {k} \subseteq DOMAIN vals
    OBVIOUS
  <2> HIDE DEF own, vals
  <2>6. PICK tc \in TabCell : TabWritten(own.at, tc) /\ tc.gen = own.cell.gen
    BY <2>2, <2>3, <2>4, <2>5, StoreGood
  <2>7. tab'[own.at].live /\ tab'[own.at].gen = own.cell.gen
    BY <2>2, <2>6 DEF TabWritten
  <2>8. /\ ctx'[Local].slots = own.at /\ ctx'[Local].obj = c.obj /\ ctx'[Local].gen = c.gen
        /\ ctx'[Local].prev = c.prev /\ ctx'[Local].wb = c.wb
        /\ \A d \in Ctx \ {Local} : ctx'[d] = ctx[d]
    BY <2>1, <2>3 DEF CtxCellI
  <2>9. (c.wb <=> Local \in wbCtx) /\ (c.gen = 1 /\ YoungObj(c.obj) => c.wb)
    BY <2>1 DEF Ready, RunOld
  <2>11. \A d \in Ctx \ {Local} : CtxKept(d)
    BY <2>8 DEF CtxKept
  <2> HIDE DEF c
  <2>10. CtxWritten(Local)
    <3>1. c.obj = Nil \/ obj'[c.obj].live
      BY <2>1, <2>3 DEF ObjOk
    <3>2. c.gen = 1 /\ c.obj # Nil /\ obj'[c.obj].gen = 0 => c.wb
      BY <2>3, <2>9 DEF YoungObj
    <3>3. c.gen = 1 /\ tab'[own.at].gen = 0 => c.wb
      BY <2>2, <2>7, <2>9
    <3>4. ctx'[Local].gen = ctx[Local].gen /\ ctx'[Local].prev = ctx[Local].prev
      BY <2>8 DEF c
    <3> QED BY <2>1, <2>3, <2>7, <2>8, <2>9, <2>11, <3>1, <3>2, <3>3, <3>4 DEF CtxWritten
  <2> QED BY <2>1, <2>2, <2>3, <2>6, <2>10 DEF ObjEffect, TabEffect, CtxEffect
<1>9. ASSUME NEW k \in Key, GetLocalSlot(k) PROVE Done
  <2>1. ctx[Local].slots \in TabAddr /\ tab[ctx[Local].slots].live
    BY <1>9, CellTypes DEF GetLocalSlot, TabRef, Ready, RunRefs, TabOk
  <2>2. ObjOk(tab[ctx[Local].slots].val[k])
    BY <2>1 DEF Ready, RunRefs
  <2> QED BY <1>9, <2>2 DEF GetLocalSlot, PushValue, heapVars, wbVars, ObjOk, ObjEffect, TabEffect, CtxEffect, CtxKept
<1>10. ASSUME NEW o \in Obj, NEW n \in Tab, GetObject(o, n) PROVE Done
  <2> DEFINE c == ctx[Local]
             t == IF c.slots = Nil THEN <<n, HeapAt(c.gen)>> ELSE c.slots
             table == IF c.slots = Nil THEN NewTabAt(c.gen) ELSE tab[t]
             new == [DeadObj EXCEPT !.live = TRUE, !.slots = t]
             tc == [table EXCEPT !.nocow = TRUE]
             cell == [c EXCEPT !.slots = t, !.obj = <<o, 0>>]
  <2>1. /\ Local \in Ctx /\ c \in CtxCellI /\ c.slots \in TabRef /\ c.gen \in Bit /\ c.wb \in BOOLEAN /\ c.ref \in Int
        /\ TabOk(c.slots) /\ (c.wb <=> Local \in wbCtx)
    BY CellTypes DEF Ready, RunRefs, RunOld
  <2>2. t \in TabAddr /\ table \in TabCell /\ <<o, 0>> \in ObjAddr
    BY <2>1, CellTypes, Heaps, Addresses, Cells DEF TabRef
  <2>3. new \in ObjCell
    <3> HIDE DEF t
    <3> QED BY <2>2, <1>z, Cells DEF ObjCell
  <2>4. new.live /\ new.gen = 0 /\ ~ new.wb /\ new.slots = t /\ new.proto = Nil /\ new.scope = Nil
    BY DEF DeadObj
  <2>5. PICK b \in BOOLEAN : b <=> WBCtxObj(c, new)
    OBVIOUS
  <2>6. b <=> c.gen = 1
    BY <2>4, <2>5 DEF WBCtxObj
  <2>7. /\ tab' = [tab EXCEPT ![t] = tc]
        /\ obj' = [obj EXCEPT ![<<o, 0>>] = new]
        /\ ctx' = [ctx EXCEPT ![Local] = Barred(cell, b)]
        /\ wbCtx' = Remember(wbCtx, c, Local, b)
        /\ stack' = stack \cup {<<o, 0>>}
        /\ UNCHANGED <<wbObj, wbSlot, desLog>>
        /\ UnusedObj(o) /\ (c.slots = Nil => UnusedTab(n))
    <3>1. b = WBCtxObj(c, new)
      BY <2>5 DEF WBCtxObj
    <3> QED BY <1>10, <3>1 DEF GetObject, CtxBarrier, PushValue
  <2>8. TabGood(t, tc) /\ tc \in TabCell
    <3>1. tc \in TabCell /\ tc.live = table.live /\ tc.gen = table.gen /\ tc.wb = table.wb /\ tc.val = table.val
      <4> HIDE DEF table
      <4> QED BY <2>2 DEF TabCell
    <3>2. CASE c.slots = Nil
      <4>1. t = <<n, HeapAt(c.gen)>> /\ table = NewTabAt(c.gen) /\ t[1] = n /\ t[2] = HeapAt(c.gen) /\ UnusedTab(n)
        BY <2>7, <3>2
      <4>2. table.live /\ table.gen = c.gen /\ ~ table.wb /\ \A x \in Key : table.val[x] = Nil
        BY <4>1, NewTabs
      <4>3. ~ tab[t].live
        BY <2>1, <4>1, Heaps DEF UnusedTab
      <4>4. t \notin wbSlot
        BY <2>2, <4>3 DEF Ready, Lists
      <4>5. InHeap(table.gen, t[2])
        BY <2>1, <4>1, <4>2 DEF InHeap, HeapAt, Bit, Types, WorkTypes
      <4> HIDE DEF t, table, tc
      <4> QED BY <3>1, <4>1, <4>2, <4>3, <4>4, <4>5 DEF TabGood, ObjOk, YoungObj
    <3>3. CASE c.slots # Nil
      <4>1. t = c.slots /\ table = tab[t] /\ tab[t].live
        BY <2>1, <3>3 DEF TabOk
      <4> HIDE DEF t, table, tc
      <4>2. (tab[t].wb <=> t \in wbSlot) /\ (tab[t].wb => tab[t].gen = 1)
        BY <2>2, <4>1 DEF Ready, Lists
      <4>3. \A x \in Key : ObjOk(tab[t].val[x])
        BY <2>2, <4>1 DEF Ready, RunRefs
      <4>4. tab[t].gen = 1 => \A x \in Key : YoungObj(tab[t].val[x]) => tab[t].wb
        BY <2>2, <4>1, <4>2 DEF Ready, RunOld
      <4> QED BY <2>2, <3>1, <4>1, <4>2, <4>3, <4>4 DEF TabGood
    <3> QED BY <3>1, <3>2, <3>3
  <2> HIDE DEF t, table
  <2>9. cell \in CtxCellI /\ cell.slots = t /\ cell.obj = <<o, 0>> /\ cell.gen = c.gen /\ cell.prev = c.prev /\ cell.wb = c.wb
    BY <2>1, <2>2, <1>z DEF CtxCellI
  <2> HIDE DEF cell, new, tc
  <2>10. TabWritten(t, tc)
    BY <2>2, <2>7, <2>8, TabReplaced
  <2>11. TabEffect /\ tab'[t].live
    BY <2>2, <2>7, <2>8, <2>10 DEF TabEffect, TabGood
  <2>12. LogFunction(<<o, 0>>, new.scope)
    BY <2>4, <2>7 DEF LogFunction
  <2>13. ObjEffect /\ obj'[<<o, 0>>].live /\ \A x \in ObjAddr : obj[x].live => obj'[x].live
    BY <2>3, <2>4, <2>7, <2>11, <2>12, <1>z, NewGood
  <2> DEFINE bc == Barred(cell, b)
  <2>14. bc.slots = t /\ bc.obj = <<o, 0>> /\ bc.gen = c.gen /\ bc.prev = c.prev /\ (bc.wb <=> c.wb \/ b)
    BY <2>1, <2>9 DEF Barred, CtxCellI
  <2>15. ctx'[Local] = bc /\ \A d \in Ctx \ {Local} : ctx'[d] = ctx[d]
    BY <2>1, <2>7
  <2> HIDE DEF bc
  <2>16. wbCtx' = IF b /\ ~ c.wb THEN wbCtx \cup {Local} ELSE wbCtx
    BY <2>7 DEF Remember
  <2>17. \A d \in Ctx \ {Local} : CtxKept(d)
    BY <2>15 DEF CtxKept
  <2>18. CtxWritten(Local)
    <3>1. bc.wb <=> Local \in wbCtx'
      BY <2>1, <2>14, <2>16
    <3>2. bc.gen = 1 => bc.wb
      BY <2>6, <2>14
    <3> QED BY <2>1, <2>11, <2>13, <2>14, <2>15, <2>16, <2>17, <3>1, <3>2 DEF CtxWritten
  <2> QED BY <2>1, <2>7, <2>11, <2>13, <2>18 DEF CtxEffect
<1>11. CASE GetObjectAgain
  <2>1. ObjOk(ctx[Local].obj) /\ ctx[Local].obj # Nil
    BY <1>11 DEF GetObjectAgain, Ready, RunRefs
  <2> QED BY <1>11, <2>1 DEF GetObjectAgain, PushValue, heapVars, wbVars, ObjOk, ObjEffect, TabEffect, CtxEffect, CtxKept
<1>12. ASSUME NEW a \in stack, NEW n \in Tab, SetObject(a, n) PROVE Done
  <2> DEFINE c == ctx[Local]
             own == Owned(obj[a], n)
             cell == [c EXCEPT !.slots = own.at, !.obj = a]
             tc == [own.cell EXCEPT !.nocow = TRUE]
  <2>1. /\ Local \in Ctx /\ c \in CtxCellI /\ c.slots \in TabRef /\ c.gen \in Bit /\ c.wb \in BOOLEAN /\ c.ref \in Int
        /\ (c.wb <=> Local \in wbCtx)
    BY CellTypes DEF Ready, RunOld
  <2>2. /\ own.at \in TabAddr /\ own.cell \in TabCell /\ TabGood(own.at, own.cell)
        /\ obj[a].gen = 1 /\ own.cell.gen = 0 /\ ~ CopiedBarrier(obj[a], own) => a \in wbObj
    BY <1>12, OwnedGood DEF SetObject
  <2>3. ~ (c.gen = 1 /\ obj[a].gen = 1 /\ own.cell.gen = 0)
    BY <1>12 DEF SetObject, UnseenTable, Ready
  <2>4. PICK b \in BOOLEAN : b <=> WBCtxObj(c, obj[a])
    OBVIOUS
  <2>5. /\ TakeTable(a, own)
        /\ tab' = [tab EXCEPT ![own.at] = tc]
        /\ ctx' = [ctx EXCEPT ![Local] = Barred(cell, b)]
        /\ wbCtx' = Remember(wbCtx, c, Local, b)
        /\ UNCHANGED <<stack, wbSlot, desLog>>
    <3>1. b = WBCtxObj(c, obj[a])
      BY <2>4 DEF WBCtxObj
    <3> QED BY <1>12, <3>1 DEF SetObject, CtxBarrier, rootVars
  <2> HIDE DEF own
  <2>6. TabGood(own.at, tc) /\ tc \in TabCell /\ tc.gen = own.cell.gen /\ tc.live
    <3>1. tc \in TabCell /\ tc.live = own.cell.live /\ tc.gen = own.cell.gen /\ tc.wb = own.cell.wb /\ tc.val = own.cell.val
      BY <2>2 DEF TabCell
    <3> HIDE DEF tc
    <3> QED BY <2>2, <3>1 DEF TabGood
  <2> HIDE DEF tc
  <2>7. TabWritten(own.at, tc)
    BY <2>2, <2>5, <2>6, TabReplaced
  <2>8. TabEffect /\ tab'[own.at].live /\ tab'[own.at].gen = own.cell.gen
    BY <2>2, <2>5, <2>6, <2>7 DEF TabEffect
  <2>9. CopiedBarrier(obj[a], own) => obj[a].gen = 1
    BY DEF CopiedBarrier, WBObjSlot
  <2>10. PICK w : w = CopiedBarrier(obj[a], own)
    OBVIOUS
  <2>11. /\ obj' = [obj EXCEPT ![a].slots = own.at, ![a].wb = @ \/ w]
         /\ wbObj' = Remember(wbObj, obj[a], a, w)
    BY <2>5, <2>10 DEF TakeTable
  <2>12. \E x \in ObjCell : ObjWritten(a, x)
    BY <2>2, <2>5, <2>8, <2>9, <2>10, <2>11, TakeGood
  <2>13. ObjEffect
    BY <2>12 DEF ObjEffect
  <2>14. obj'[a].live /\ obj'[a].gen = obj[a].gen
    BY <2>13, WrittenLive
  <2>15. cell \in CtxCellI /\ cell.slots = own.at /\ cell.obj = a /\ cell.gen = c.gen /\ cell.prev = c.prev /\ cell.wb = c.wb
    BY <2>1, <2>2, <1>z DEF CtxCellI
  <2> HIDE DEF cell
  <2> DEFINE bc == Barred(cell, b)
  <2>16. bc.slots = own.at /\ bc.obj = a /\ bc.gen = c.gen /\ bc.prev = c.prev /\ (bc.wb <=> c.wb \/ b)
    BY <2>1, <2>15 DEF Barred, CtxCellI
  <2>17. ctx'[Local] = bc /\ \A d \in Ctx \ {Local} : ctx'[d] = ctx[d]
    BY <2>1, <2>5
  <2> HIDE DEF bc
  <2>18. wbCtx' = IF b /\ ~ c.wb THEN wbCtx \cup {Local} ELSE wbCtx
    BY <2>5 DEF Remember
  <2>19. \A d \in Ctx \ {Local} : CtxKept(d)
    BY <2>17 DEF CtxKept
  <2>20. CtxWritten(Local)
    <3>1. bc.wb <=> Local \in wbCtx'
      BY <2>1, <2>16, <2>18
    <3>2. bc.gen = 1 /\ obj'[a].gen = 0 => bc.wb
      BY <2>4, <2>14, <2>16 DEF WBCtxObj
    <3>3. bc.gen = 1 /\ tab'[own.at].gen = 0 => bc.wb
      <4>1. obj[a].gen \in {0, 1}
        BY CellTypes DEF Bit
      <4> QED BY <2>3, <2>4, <2>8, <2>16, <4>1 DEF WBCtxObj
    <3> QED BY <2>1, <2>8, <2>14, <2>16, <2>17, <2>18, <2>19, <3>1, <3>2, <3>3 DEF CtxWritten
  <2> QED BY <2>1, <2>5, <2>8, <2>13, <2>20, WrittenLive DEF CtxEffect
<1>13. ASSUME NEW o \in Obj, NewFunction(o) PROVE Done
  <2> DEFINE c == [DeadObj EXCEPT !.live = TRUE, !.scope = Local]
  <2>1. c \in ObjCell
    BY <1>z, Cells, ObjCells
  <2>2. c.live /\ c.gen = 0 /\ ~ c.wb /\ c.slots = Nil /\ c.proto = Nil /\ c.scope = Local
    BY DEF DeadObj
  <2>3. /\ UnusedObj(o) /\ obj' = [obj EXCEPT ![<<o, 0>>] = c] /\ wbObj' = wbObj
        /\ LogFunction(<<o, 0>>, c.scope) /\ RefScope(Local) /\ UNCHANGED <<tab, wbSlot, wbCtx>>
        /\ stack' = stack \cup {<<o, 0>>}
    BY <1>13, <2>2 DEF NewFunction, wbVars, PushValue
  <2> HIDE DEF c
  <2>4. ObjEffect /\ obj'[<<o, 0>>].live /\ \A a \in ObjAddr : obj[a].live => obj'[a].live
    BY <2>1, <2>2, <2>3, <1>z, NewGood
  <2> QED BY <2>3, <2>4, <1>z, RefKept DEF TabEffect, CtxEffect
<1>14. ASSUME NEW f \in stack, NEW c \in Ctx, Call(f, c) PROVE Done
  <2> DEFINE sc == obj[f].scope
             new == [DeadCtx EXCEPT !.ref = 1, !.prev = sc]
  <2>1. sc \in Ctx /\ sc # c /\ Unheld(c)
    <3>1. sc \in Ctx /\ Unheld(c)
      BY <1>14, CellTypes DEF Call, CtxRef, Ready
    <3>2. f \in desLog
      BY <1>14 DEF Ready, Logged, Functions, Call
    <3> QED BY <3>1, <3>2 DEF Unheld
  <2>2. UNCHANGED <<obj, tab, stack, wbVars, desLog>>
    BY <1>14 DEF Call
  <2>a. ctx' = [ctx EXCEPT ![c] = new, ![sc].ref = ctx[sc].ref + 1]
    BY <1>14 DEF Call
  <2>b. new \in CtxCellI
    <3>1. sc \in CtxRef /\ DeadCtx \in CtxCellI
      BY <2>1, <1>z, Cells
    <3> QED BY <3>1, CalledCell
  <2>3. new \in CtxCellI /\ new.slots = Nil /\ new.obj = Nil /\ new.gen = 0 /\ ~ new.wb
    BY <2>b DEF DeadCtx
  <2> HIDE DEF new, sc
  <2>4. ctx'[c] = new /\ \A d \in Ctx \ {c} : CtxKept(d)
    <3>1. ctx' = [[ctx EXCEPT ![c] = new] EXCEPT ![sc] = [[ctx EXCEPT ![c] = new][sc] EXCEPT !.ref = ctx[sc].ref + 1]]
      BY <2>1, <2>a, <2>b
    <3>2. \A d \in Ctx : ctx[d] \in CtxCellI
      BY CellTypes
    <3> QED BY <2>1, <2>3, <3>1, <3>2 DEF CtxKept, CtxCellI
  <2>5. CtxCalled(c)
    <3>1. \A a \in ObjAddr : obj[a].live => obj[a].scope # c
      <4> SUFFICES ASSUME NEW a \in ObjAddr, obj[a].live, obj[a].scope = c PROVE FALSE
        OBVIOUS
      <4>1. a \in desLog
        BY <1>z DEF Ready, Logged, Functions
      <4> QED BY <2>1, <4>1 DEF Unheld
    <3> QED BY <2>1, <2>2, <2>3, <2>4, <3>1 DEF CtxCalled, Unheld, wbVars
  <2> QED BY <2>2, <2>5 DEF ObjEffect, TabEffect, CtxEffect, wbVars
<1>15. ASSUME NEW f \in stack, CallNative(f) PROVE Done
  <2>1. obj[f].scope \in CtxRef /\ RefScope(obj[f].scope)
    BY <1>15, CellTypes DEF CallNative
  <2> QED BY <1>15, <2>1, RefKept DEF CallNative, ObjEffect, TabEffect, CtxEffect, wbVars
<1> QED BY <1>1, <1>2, <1>3, <1>4, <1>5, <1>6, <1>7, <1>8, <1>9, <1>10, <1>11, <1>12, <1>13, <1>14, <1>15
        DEF Mutate

(* What was written, address by address.                                   *)
LEMMA ObjEffects ==
  ASSUME Ready, ObjEffect
  PROVE  /\ \A a \in ObjAddr : obj'[a].live =>
              \/ obj[a].live /\ obj'[a].gen = obj[a].gen /\ obj'[a].scope = obj[a].scope
              \/ UnusedObj(a[1]) /\ a[2] = 0 /\ obj'[a].gen = 0
         /\ \A a, b \in ObjAddr : obj'[a].live /\ obj'[b].live /\ ~ obj[a].live /\ ~ obj[b].live => a = b
         /\ \A a \in ObjAddr : obj'[a].live => (obj'[a].wb <=> a \in wbObj')
         /\ \A a \in wbObj' : obj'[a].live /\ obj'[a].gen = 1
         /\ {a \in ObjAddr : obj'[a].live /\ obj'[a].scope # Nil} = desLog'
<1>0. /\ obj \in [ObjAddr -> ObjCell] /\ Functions = desLog /\ wbObj \subseteq ObjAddr
      /\ \A a \in ObjAddr : obj[a].live => (obj[a].wb <=> a \in wbObj)
      /\ \A a \in wbObj : obj[a].live /\ obj[a].gen = 1
  BY DEF Ready, Types, HeapTypes, ListTypes, Logged, Lists
<1>1. CASE UNCHANGED <<obj, wbObj, desLog>>
  BY <1>0, <1>1 DEF Functions
<1>2. ASSUME NEW x \in ObjAddr, NEW c \in ObjCell, ObjWritten(x, c)
      PROVE  /\ \A a \in ObjAddr : obj'[a].live =>
                  \/ obj[a].live /\ obj'[a].gen = obj[a].gen /\ obj'[a].scope = obj[a].scope
                  \/ UnusedObj(a[1]) /\ a[2] = 0 /\ obj'[a].gen = 0
             /\ \A a, b \in ObjAddr : obj'[a].live /\ obj'[b].live /\ ~ obj[a].live /\ ~ obj[b].live => a = b
             /\ \A a \in ObjAddr : obj'[a].live => (obj'[a].wb <=> a \in wbObj')
             /\ \A a \in wbObj' : obj'[a].live /\ obj'[a].gen = 1
             /\ {a \in ObjAddr : obj'[a].live /\ obj'[a].scope # Nil} = desLog'
  <2>1. obj'[x] = c /\ \A a \in ObjAddr \ {x} : obj'[a] = obj[a]
    BY <1>0, <1>2 DEF ObjWritten
  <2>2. \A a \in ObjAddr : obj'[a].live =>
          \/ obj[a].live /\ obj'[a].gen = obj[a].gen /\ obj'[a].scope = obj[a].scope
          \/ UnusedObj(a[1]) /\ a[2] = 0 /\ obj'[a].gen = 0
    BY <1>2, <2>1 DEF ObjWritten
  <2>3. \A a \in ObjAddr : obj'[a].live => (obj'[a].wb <=> a \in wbObj')
    BY <1>0, <1>2, <2>1 DEF ObjWritten
  <2>4. \A a \in wbObj' : obj'[a].live /\ obj'[a].gen = 1
    BY <1>0, <1>2, <2>1 DEF ObjWritten
  <2>5. {a \in ObjAddr : obj'[a].live /\ obj'[a].scope # Nil} = desLog'
    <3>1. desLog = {a \in ObjAddr : obj[a].live /\ obj[a].scope # Nil}
      BY <1>0 DEF Functions
    <3>2. c.live /\ desLog' = IF c.scope = Nil THEN desLog ELSE desLog \cup {x}
      BY <1>2 DEF ObjWritten
    <3>3. c.scope = Nil => x \notin desLog
      BY <1>2, <3>1 DEF ObjWritten
    <3> QED BY <2>1, <3>1, <3>2, <3>3
  <2> QED BY <2>1, <2>2, <2>3, <2>4, <2>5
<1> QED BY <1>1, <1>2 DEF ObjEffect

(* The same for tables.                                                    *)
LEMMA TabEffects ==
  ASSUME Ready, TabEffect
  PROVE  /\ \A t \in TabAddr : tab'[t].live =>
              \/ tab[t].live /\ tab'[t].gen = tab[t].gen
              \/ UnusedTab(t[1]) /\ InHeap(tab'[t].gen, t[2])
         /\ \A t, u \in TabAddr : tab'[t].live /\ tab'[u].live /\ ~ tab[t].live /\ ~ tab[u].live => t = u
         /\ \A t \in TabAddr : tab'[t].live => (tab'[t].wb <=> t \in wbSlot')
         /\ \A t \in wbSlot' : tab'[t].live /\ tab'[t].gen = 1
         /\ \A t \in TabAddr : tab'[t].live => \A k \in Key : ObjOk(tab'[t].val[k])
         /\ \A t \in TabAddr : tab'[t].live /\ tab'[t].gen = 1 =>
              \A k \in Key : YoungObj(tab'[t].val[k]) => t \in wbSlot'
<1>0. /\ tab \in [TabAddr -> TabCell] /\ wbSlot \subseteq TabAddr
      /\ \A t \in TabAddr : tab[t].live => (tab[t].wb <=> t \in wbSlot)
      /\ \A t \in wbSlot : tab[t].live /\ tab[t].gen = 1
      /\ \A t \in TabAddr : tab[t].live => \A k \in Key : ObjOk(tab[t].val[k])
      /\ \A t \in TabAddr : tab[t].live /\ tab[t].gen = 1 =>
           \A k \in Key : YoungObj(tab[t].val[k]) => t \in wbSlot
  BY DEF Ready, Types, HeapTypes, ListTypes, Lists, RunRefs, RunOld
<1>1. CASE UNCHANGED <<tab, wbSlot>>
  BY <1>0, <1>1
<1>2. ASSUME NEW x \in TabAddr, NEW c \in TabCell, TabWritten(x, c)
      PROVE  /\ \A t \in TabAddr : tab'[t].live =>
                  \/ tab[t].live /\ tab'[t].gen = tab[t].gen
                  \/ UnusedTab(t[1]) /\ InHeap(tab'[t].gen, t[2])
             /\ \A t, u \in TabAddr : tab'[t].live /\ tab'[u].live /\ ~ tab[t].live /\ ~ tab[u].live => t = u
             /\ \A t \in TabAddr : tab'[t].live => (tab'[t].wb <=> t \in wbSlot')
             /\ \A t \in wbSlot' : tab'[t].live /\ tab'[t].gen = 1
             /\ \A t \in TabAddr : tab'[t].live => \A k \in Key : ObjOk(tab'[t].val[k])
             /\ \A t \in TabAddr : tab'[t].live /\ tab'[t].gen = 1 =>
                  \A k \in Key : YoungObj(tab'[t].val[k]) => t \in wbSlot'
  <2>1. tab'[x] = c /\ \A t \in TabAddr \ {x} : tab'[t] = tab[t]
    BY <1>0, <1>2 DEF TabWritten
  <2> QED BY <1>0, <1>2, <2>1 DEF TabWritten
<1> QED BY <1>1, <1>2 DEF TabEffect

(* Such writes keep generations, identities, the lists of the barriers and *)
(* the destructor log.                                                     *)
LEMMA EffectHeap ==
  ASSUME Ready, Effect
  PROVE  Generations' /\ Unique' /\ Lists' /\ Logged'
<1>0. /\ Types /\ phase = "run" /\ phase' = "run" /\ old' = old /\ to' = to /\ Full' = Full /\ dying' = dying
      /\ Generations /\ Unique /\ ObjEffect /\ TabEffect
  BY DEF Effect, Ready, gcVars, workVars, to, Full
<1>o. /\ \A a \in ObjAddr : obj'[a].live =>
              \/ obj[a].live /\ obj'[a].gen = obj[a].gen /\ obj'[a].scope = obj[a].scope
              \/ UnusedObj(a[1]) /\ a[2] = 0 /\ obj'[a].gen = 0
      /\ \A a, b \in ObjAddr : obj'[a].live /\ obj'[b].live /\ ~ obj[a].live /\ ~ obj[b].live => a = b
      /\ \A a \in ObjAddr : obj'[a].live => (obj'[a].wb <=> a \in wbObj')
      /\ \A a \in wbObj' : obj'[a].live /\ obj'[a].gen = 1
      /\ {a \in ObjAddr : obj'[a].live /\ obj'[a].scope # Nil} = desLog'
  BY <1>0, ObjEffects
<1>t. /\ \A t \in TabAddr : tab'[t].live =>
              \/ tab[t].live /\ tab'[t].gen = tab[t].gen
              \/ UnusedTab(t[1]) /\ InHeap(tab'[t].gen, t[2])
      /\ \A t, u \in TabAddr : tab'[t].live /\ tab'[u].live /\ ~ tab[t].live /\ ~ tab[u].live => t = u
      /\ \A t \in TabAddr : tab'[t].live => (tab'[t].wb <=> t \in wbSlot')
      /\ \A t \in wbSlot' : tab'[t].live /\ tab'[t].gen = 1
  BY <1>0, TabEffects
<1>h. \A g, s : InHeap(g, s)' <=> InHeap(g, s)
  BY <1>0 DEF InHeap
<1>u. /\ \A a, b \in ObjAddr : UnusedObj(a[1]) /\ obj[b].live => a[1] # b[1]
      /\ \A a, b \in TabAddr : UnusedTab(a[1]) /\ tab[b].live => a[1] # b[1]
  BY Addresses DEF UnusedObj, UnusedTab
<1>1. Generations'
  <2>1. \A a \in ObjAddr : obj'[a].live => (obj'[a].gen = IF a[2] = 0 THEN 0 ELSE 1) /\ a[2] \in {0, old}
    BY <1>0, <1>o DEF Generations, InHeap
  <2>2. \A t \in TabAddr : tab'[t].live => (tab'[t].gen = IF t[2] = 0 THEN 0 ELSE 1) /\ t[2] \in {0, old}
    BY <1>0, <1>t DEF Generations, InHeap
  <2> QED BY <1>0, <2>1, <2>2 DEF Generations, InHeap
<1>2. Unique'
  <2>1. \A a, b \in ObjAddr : obj[a].live /\ obj[b].live /\ a[1] = b[1] => a = b
    BY <1>0 DEF Unique, Source
  <2>2. \A a, b \in TabAddr : tab[a].live /\ tab[b].live /\ a[1] = b[1] => a = b
    BY <1>0 DEF Unique, Source
  <2>3. \A a, b \in ObjAddr : obj'[a].live /\ obj'[b].live /\ a[1] = b[1] => a = b
    BY <1>o, <1>u, <2>1
  <2>4. \A a, b \in TabAddr : tab'[a].live /\ tab'[b].live /\ a[1] = b[1] => a = b
    BY <1>t, <1>u, <2>2
  <2> QED BY <2>3, <2>4 DEF Unique
<1>3. Lists'
  BY <1>0, <1>o, <1>t DEF Lists
<1>4. Logged'
  <2>1. Functions' = desLog' /\ dying' = {}
    <3>1. dying = {}
      BY <1>0 DEF Ready, Phases
    <3> QED BY <1>0, <1>o, <3>1 DEF Functions
  <2> QED BY <1>0, <2>1 DEF Logged
<1> QED BY <1>1, <1>2, <1>3, <1>4

(* References of the objects written, with the tables written.             *)
LEMMA EffectRefs ==
  ASSUME Ready, Effect
  PROVE  RunRefs' /\ RunOld'
<1>0. ObjEffect /\ TabEffect /\ CtxEffect /\ RunRefs /\ RunOld /\ Types /\ \A a \in stack' : obj'[a].live
  BY DEF Effect, Ready
<1>a. obj \in [ObjAddr -> ObjCell] /\ tab \in [TabAddr -> TabCell]
  BY <1>0 DEF Types, HeapTypes
<1>b. \A a \in ObjAddr : obj[a].live => obj'[a].live /\ obj'[a].gen = obj[a].gen /\ obj'[a].scope = obj[a].scope
  BY <1>0, WrittenLive
<1>c. \A t \in TabAddr : tab[t].live => tab'[t].live /\ tab'[t].gen = tab[t].gen
  BY <1>0, WrittenTab
<1>d. /\ \A x \in ObjRef : ObjOk(x) => (x = Nil \/ obj'[x].live) /\ (x # Nil /\ obj'[x].gen = 0 <=> YoungObj(x))
      /\ \A x \in TabRef : TabOk(x) => (x = Nil \/ tab'[x].live) /\ (x # Nil /\ tab'[x].gen = 0 <=> YoungTab(x))
  BY <1>b, <1>c DEF ObjRef, TabRef, ObjOk, TabOk, YoungObj, YoungTab
<1>e. \A a \in ObjAddr : obj[a].slots \in TabRef /\ obj[a].proto \in ObjRef
  BY <1>0, CellTypes
<1>1. \A a \in ObjAddr : obj'[a].live =>
        /\ obj'[a].slots = Nil \/ tab'[obj'[a].slots].live
        /\ obj'[a].proto = Nil \/ obj'[obj'[a].proto].live
        /\ obj'[a].gen = 1 => /\ obj'[a].slots # Nil /\ tab'[obj'[a].slots].gen = 0 => a \in wbObj'
                              /\ obj'[a].proto # Nil /\ obj'[obj'[a].proto].gen = 0 => a \in wbObj'
  <2>1. ASSUME NEW a \in ObjAddr, obj'[a] = obj[a], obj'[a].live, wbObj \subseteq wbObj'
        PROVE  /\ obj'[a].slots = Nil \/ tab'[obj'[a].slots].live
               /\ obj'[a].proto = Nil \/ obj'[obj'[a].proto].live
               /\ obj'[a].gen = 1 => /\ obj'[a].slots # Nil /\ tab'[obj'[a].slots].gen = 0 => a \in wbObj'
                                     /\ obj'[a].proto # Nil /\ obj'[obj'[a].proto].gen = 0 => a \in wbObj'
    <3>1. TabOk(obj[a].slots) /\ ObjOk(obj[a].proto)
      BY <1>0, <2>1 DEF RunRefs
    <3>2. obj[a].gen = 1 /\ (YoungTab(obj[a].slots) \/ YoungObj(obj[a].proto)) => a \in wbObj
      BY <1>0, <2>1 DEF RunOld
    <3> QED BY <1>d, <1>e, <2>1, <3>1, <3>2
  <2>2. CASE UNCHANGED <<obj, wbObj, desLog>>
    BY <2>1, <2>2
  <2>3. ASSUME NEW x \in ObjAddr, NEW c \in ObjCell, ObjWritten(x, c)
        PROVE  \A a \in ObjAddr : obj'[a].live =>
                 /\ obj'[a].slots = Nil \/ tab'[obj'[a].slots].live
                 /\ obj'[a].proto = Nil \/ obj'[obj'[a].proto].live
                 /\ obj'[a].gen = 1 => /\ obj'[a].slots # Nil /\ tab'[obj'[a].slots].gen = 0 => a \in wbObj'
                                       /\ obj'[a].proto # Nil /\ obj'[obj'[a].proto].gen = 0 => a \in wbObj'
    <3>1. obj'[x] = c /\ \A a \in ObjAddr \ {x} : obj'[a] = obj[a]
      BY <1>a, <2>3 DEF ObjWritten
    <3>2. wbObj \subseteq wbObj' /\ (c.wb <=> x \in wbObj')
      BY <2>3 DEF ObjWritten
    <3>3. c.proto \in ObjRef /\ ObjOk(c.proto) /\ (c.slots = Nil \/ tab'[c.slots].live)
      BY <2>3 DEF ObjWritten, ObjCell
    <3>4. c.gen = 1 /\ ((c.slots # Nil /\ tab'[c.slots].gen = 0) \/ YoungObj(c.proto)) => c.wb
      BY <2>3 DEF ObjWritten
    <3> QED BY <1>d, <2>1, <3>1, <3>2, <3>3, <3>4
  <2> QED BY <1>0, <2>2, <2>3 DEF ObjEffect
<1>2. \A t \in TabAddr : tab'[t].live => \A k \in Key :
        /\ tab'[t].val[k] = Nil \/ obj'[tab'[t].val[k]].live
        /\ tab'[t].gen = 1 /\ tab'[t].val[k] # Nil /\ obj'[tab'[t].val[k]].gen = 0 => t \in wbSlot'
  <2>1. /\ \A t \in TabAddr : tab'[t].live => \A k \in Key : ObjOk(tab'[t].val[k])
        /\ \A t \in TabAddr : tab'[t].live /\ tab'[t].gen = 1 =>
              \A k \in Key : YoungObj(tab'[t].val[k]) => t \in wbSlot'
    BY <1>0, TabEffects
  <2>2. tab' \in [TabAddr -> TabCell]
    BY <1>0, <1>a DEF TabEffect, TabWritten
  <2>3. \A t \in TabAddr, k \in Key : tab'[t].val[k] \in ObjRef
    BY <2>2 DEF TabCell
  <2> QED BY <1>d, <2>1, <2>3
<1>3. \A c \in Ctx : /\ ctx'[c].slots = Nil \/ tab'[ctx'[c].slots].live
                     /\ ctx'[c].obj = Nil \/ obj'[ctx'[c].obj].live
                     /\ ctx'[c].wb <=> c \in wbCtx'
                     /\ ctx'[c].gen = 1 /\ ctx'[c].slots # Nil /\ tab'[ctx'[c].slots].gen = 0 => c \in wbCtx'
                     /\ ctx'[c].gen = 1 /\ ctx'[c].obj # Nil /\ obj'[ctx'[c].obj].gen = 0 => c \in wbCtx'
  <2>1. ASSUME NEW c \in Ctx, CtxKept(c), c \in wbCtx' <=> c \in wbCtx
        PROVE  /\ ctx'[c].slots = Nil \/ tab'[ctx'[c].slots].live
               /\ ctx'[c].obj = Nil \/ obj'[ctx'[c].obj].live
               /\ ctx'[c].wb <=> c \in wbCtx'
               /\ ctx'[c].gen = 1 /\ ctx'[c].slots # Nil /\ tab'[ctx'[c].slots].gen = 0 => c \in wbCtx'
               /\ ctx'[c].gen = 1 /\ ctx'[c].obj # Nil /\ obj'[ctx'[c].obj].gen = 0 => c \in wbCtx'
    <3>1. TabOk(ctx[c].slots) /\ ObjOk(ctx[c].obj) /\ ctx[c].slots \in TabRef /\ ctx[c].obj \in ObjRef
      BY <1>0, CellTypes DEF RunRefs
    <3>2. (ctx[c].wb <=> c \in wbCtx) /\ (ctx[c].gen = 1 /\ (YoungTab(ctx[c].slots) \/ YoungObj(ctx[c].obj)) => c \in wbCtx)
      BY <1>0 DEF RunOld
    <3> QED BY <1>d, <2>1, <3>1, <3>2 DEF CtxKept
  <2>2. CASE wbCtx' = wbCtx /\ \A c \in Ctx : CtxKept(c)
    BY <2>1, <2>2
  <2>3. ASSUME NEW x \in Ctx, CtxWritten(x) \/ CtxCalled(x), NEW c \in Ctx
        PROVE  /\ ctx'[c].slots = Nil \/ tab'[ctx'[c].slots].live
               /\ ctx'[c].obj = Nil \/ obj'[ctx'[c].obj].live
               /\ ctx'[c].wb <=> c \in wbCtx'
               /\ ctx'[c].gen = 1 /\ ctx'[c].slots # Nil /\ tab'[ctx'[c].slots].gen = 0 => c \in wbCtx'
               /\ ctx'[c].gen = 1 /\ ctx'[c].obj # Nil /\ obj'[ctx'[c].obj].gen = 0 => c \in wbCtx'
    <3>1. CASE c # x
      <4>1. CtxKept(c) /\ (c \in wbCtx' <=> c \in wbCtx)
        BY <2>3, <3>1 DEF CtxWritten, CtxCalled
      <4> QED BY <2>1, <4>1
    <3>2. CASE c = x /\ CtxWritten(x)
      BY <3>2 DEF CtxWritten
    <3>3. CASE c = x /\ CtxCalled(x)
      BY <3>3 DEF CtxCalled
    <3> QED BY <2>3, <3>1, <3>2, <3>3
  <2> QED BY <1>0, <2>2, <2>3 DEF CtxEffect
<1>4. \A c \in Ctx : ctx'[c].gen = 1 /\ ctx'[c].prev # Nil => ctx'[ctx'[c].prev].gen = 1
  <2>0. /\ \A c \in Ctx : ctx[c].gen = 1 /\ ctx[c].prev # Nil => ctx[ctx[c].prev].gen = 1
        /\ \A c \in Ctx : ctx[c].prev \in CtxRef
    BY <1>0, CellTypes DEF RunOld
  <2>2. CASE wbCtx' = wbCtx /\ \A c \in Ctx : CtxKept(c)
    BY <2>0, <2>2 DEF CtxKept, CtxRef
  <2>3. ASSUME NEW x \in Ctx, CtxWritten(x)
        PROVE  \A c \in Ctx : ctx'[c].gen = 1 /\ ctx'[c].prev # Nil => ctx'[ctx'[c].prev].gen = 1
    <3>1. \A c \in Ctx : ctx'[c].gen = ctx[c].gen /\ ctx'[c].prev = ctx[c].prev
      BY <2>3 DEF CtxWritten, CtxKept
    <3> QED BY <2>0, <3>1 DEF CtxRef
  <2>4. ASSUME NEW x \in Ctx, CtxCalled(x)
        PROVE  \A c \in Ctx : ctx'[c].gen = 1 /\ ctx'[c].prev # Nil => ctx'[ctx'[c].prev].gen = 1
    <3>1. /\ \A c \in Ctx \ {x} : ctx'[c].gen = ctx[c].gen /\ ctx'[c].prev = ctx[c].prev /\ ctx[c].prev # x
          /\ ctx'[x].gen = 0
      BY <2>4 DEF CtxCalled, CtxKept
    <3> QED BY <2>0, <3>1 DEF CtxRef
  <2> QED BY <1>0, <2>2, <2>3, <2>4 DEF CtxEffect
<1>5. \A a \in ObjAddr : obj'[a].live /\ obj'[a].gen = 1 /\ obj'[a].scope # Nil => ctx'[obj'[a].scope].gen = 1
  <2>0. \A a \in ObjAddr : obj[a].live /\ obj[a].gen = 1 /\ obj[a].scope # Nil =>
          ctx[obj[a].scope].gen = 1 /\ obj[a].scope \in Ctx
    BY <1>0, CellTypes DEF RunOld, CtxRef
  <2>1. \A a \in ObjAddr : obj'[a].live /\ obj'[a].gen = 1 => obj[a].live /\ obj[a].gen = 1 /\ obj'[a].scope = obj[a].scope
    BY <1>0, ObjEffects
  <2>2. CASE \A c \in Ctx : ctx'[c].gen = ctx[c].gen
    BY <2>0, <2>1, <2>2
  <2>3. ASSUME NEW x \in Ctx, CtxCalled(x)
        PROVE  \A a \in ObjAddr : obj'[a].live /\ obj'[a].gen = 1 /\ obj'[a].scope # Nil => ctx'[obj'[a].scope].gen = 1
    <3>1. /\ \A c \in Ctx \ {x} : ctx'[c].gen = ctx[c].gen
          /\ \A a \in ObjAddr : obj[a].live => obj[a].scope # x
      BY <2>3 DEF CtxCalled, CtxKept
    <3> QED BY <2>0, <2>1, <3>1
  <2>4. (\A c \in Ctx : ctx'[c].gen = ctx[c].gen) \/ \E x \in Ctx : CtxCalled(x)
    BY <1>0 DEF CtxEffect, CtxWritten, CtxKept
  <2> QED BY <2>2, <2>3, <2>4
<1>6. RunRefs'
  BY <1>0, <1>1, <1>2, <1>3 DEF RunRefs, ObjOk, TabOk
<1>7. RunOld'
  BY <1>1, <1>2, <1>3, <1>4, <1>5 DEF RunOld, YoungObj, YoungTab
<1> QED BY <1>6, <1>7

(* Everything that is counted is finite.                                   *)
LEMMA FiniteFrames ==
  ASSUME NEW f, f \in Seq(Ctx), NEW c
  PROVE  IsFiniteSet({i \in DOMAIN f : f[i] = c}) /\ Cardinality({i \in DOMAIN f : f[i] = c}) \in Nat
<1>1. DOMAIN f = 1..Len(f) /\ Len(f) \in Int /\ 1 \in Int
  OBVIOUS
<1>2. IsFiniteSet(1..Len(f))
  BY <1>1, FS_Interval
<1>3. {i \in DOMAIN f : f[i] = c} \in SUBSET (1..Len(f))
  BY <1>1
<1> QED BY <1>2, <1>3, FS_Subset, FS_CardinalityType

(* Sets of objects and of contexts are finite, also in all heaps.          *)
LEMMA FiniteSets ==
  /\ \A S \in SUBSET ObjAddr : IsFiniteSet(S) /\ Cardinality(S) \in Nat
  /\ \A S \in SUBSET Ctx : IsFiniteSet(S) /\ Cardinality(S) \in Nat
<1>1. IsFiniteSet(0..2)
  <2>1. \A a, b \in Int : IsFiniteSet(a..b)
    BY FS_Interval
  <2>2. 0 \in Int /\ 2 \in Int
    OBVIOUS
  <2> QED BY <2>1, <2>2, Zenon
<1>2. IsFiniteSet(ObjAddr)
  BY <1>1, CollectorAssumption, FS_Product DEF ObjAddr, Space
<1> QED BY <1>2, CollectorAssumption, FS_Subset, FS_CardinalityType

(* A set with one more element.                                            *)
LEMMA OneMore ==
  ASSUME NEW S, IsFiniteSet(S), NEW x, x \notin S, NEW T, T = S \cup {x}
  PROVE  Cardinality(T) = Cardinality(S) + 1
BY FS_AddElement

(* A set with one element less.                                            *)
LEMMA OneLess ==
  ASSUME NEW S, IsFiniteSet(S), NEW x, x \in S, NEW T, T = S \ {x}
  PROVE  Cardinality(T) = Cardinality(S) - 1
BY FS_RemoveElement

(* The part of a set that is one element at most.                          *)
LEMMA AtMostOne ==
  ASSUME NEW S, NEW c
  PROVE  Cardinality(S \cap {c}) = IF c \in S THEN 1 ELSE 0
<1>1. CASE c \in S
  <2>1. S \cap {c} = {c}
    BY <1>1
  <2> QED BY <1>1, <2>1, FS_Singleton
<1>2. CASE c \notin S
  <2>1. S \cap {c} = {}
    BY <1>2
  <2> QED BY <1>2, <2>1, FS_EmptySet
<1> QED BY <1>1, <1>2

(* The parts of Holders are numbers.                                       *)
LEMMA Parts ==
  ASSUME Types, NEW c \in Ctx
  PROVE  /\ IsFiniteSet(FramesOf(c)) /\ Cardinality(FramesOf(c)) \in Nat
         /\ IsFiniteSet(FunctionsOf(c)) /\ Cardinality(FunctionsOf(c)) \in Nat
         /\ IsFiniteSet(ScopesIn(c)) /\ Cardinality(ScopesIn(c)) \in Nat
         /\ Holders(c) \in Nat
         /\ Holders(c) = Cardinality(FramesOf(c)) + Cardinality(FunctionsOf(c)) + Cardinality(ScopesIn(c))
                          + (IF c \in wbCtx THEN 1 ELSE 0) + (IF freeing = c THEN 1 ELSE 0)
<1>1. IsFiniteSet(FramesOf(c)) /\ Cardinality(FramesOf(c)) \in Nat
  BY FiniteFrames DEF Types, RootTypes, FramesOf
<1>2. FunctionsOf(c) \in SUBSET ObjAddr
  BY DEF Types, ListTypes, FunctionsOf
<1>3. ScopesIn(c) \in SUBSET Ctx
  BY DEF ScopesIn
<1>4. Cardinality(wbCtx \cap {c}) = IF c \in wbCtx THEN 1 ELSE 0
  BY AtMostOne
<1> QED BY <1>1, <1>2, <1>3, <1>4, FiniteSets DEF Holders

(* A counted context has a holder, and what has one is counted.            *)
LEMMA Uncounted ==
  ASSUME Types, Counted, NEW c \in Ctx
  PROVE  /\ ctx[c].ref \in Nat
         /\ ctx[c].ref = 0 => Unheld(c)
         /\ ctx[c].ref = 1 /\ freeing = c =>
              /\ \A i \in DOMAIN frames : frames[i] # c
              /\ \A a \in desLog \cup dying : obj[a].scope # c
              /\ \A d \in Ctx : ctx[d].prev # c
              /\ c \notin wbCtx
         /\ freeing = c => ctx[c].ref # 0
<1> DEFINE F == Cardinality(FramesOf(c))
           G == Cardinality(FunctionsOf(c))
           S == Cardinality(ScopesIn(c))
<1>1. /\ F \in Nat /\ G \in Nat /\ S \in Nat
      /\ ctx[c].ref = F + G + S + (IF c \in wbCtx THEN 1 ELSE 0) + (IF freeing = c THEN 1 ELSE 0)
  BY Parts DEF Counted
<1>2. /\ F = 0 => FramesOf(c) = {}
      /\ G = 0 => FunctionsOf(c) = {}
      /\ S = 0 => ScopesIn(c) = {}
  BY Parts, FS_EmptySet
<1> HIDE DEF F, G, S
<1>3. ctx[c].ref = 0 => F = 0 /\ G = 0 /\ S = 0 /\ c \notin wbCtx /\ freeing # c
  BY <1>1
<1>4. ctx[c].ref = 1 /\ freeing = c => F = 0 /\ G = 0 /\ S = 0 /\ c \notin wbCtx
  BY <1>1
<1>5. ctx[c].ref \in Nat /\ (freeing = c => ctx[c].ref # 0)
  BY <1>1
<1> QED BY <1>2, <1>3, <1>4, <1>5 DEF Unheld, FramesOf, FunctionsOf, ScopesIn

(***************************************************************************)
(* Steps that keep the counts.                                             *)
(***************************************************************************)

ScopesKept == \A a \in desLog \cup dying : obj'[a].scope = obj[a].scope
PrevKept   == \A c \in Ctx : ctx'[c].prev = ctx[c].prev

(* The count of c and what holds it change by the same.                    *)
LEMMA NothingCounted ==
  ASSUME Counted, ScopesKept, PrevKept, \A c \in Ctx : ctx'[c].ref = ctx[c].ref,
         frames' = frames, freeing' = freeing, wbCtx' = wbCtx, desLog' \cup dying' = desLog \cup dying
  PROVE  Counted'
<1> SUFFICES ASSUME NEW c \in Ctx PROVE ctx'[c].ref = Holders(c)'
  BY DEF Counted
<1>1. FramesOf(c)' = FramesOf(c) /\ ScopesIn(c)' = ScopesIn(c) /\ FunctionsOf(c)' = FunctionsOf(c)
  BY DEF FramesOf, ScopesIn, FunctionsOf, ScopesKept, PrevKept
<1> QED BY <1>1 DEF Counted, Holders

(* A function object is made.                                              *)
LEMMA FunctionCounted ==
  ASSUME Types, Types', Counted, ScopesKept, NEW x \in ObjAddr, x \notin desLog \cup dying,
         RefScope(obj'[x].scope), obj'[x].scope \in Ctx,
         frames' = frames, freeing' = freeing, wbCtx' = wbCtx, desLog' = desLog \cup {x}, dying' = dying
  PROVE  Counted'
<1> SUFFICES ASSUME NEW c \in Ctx PROVE ctx'[c].ref = Holders(c)'
  BY DEF Counted
<1>1. /\ ctx'[c].ref = IF c = obj'[x].scope THEN ctx[c].ref + 1 ELSE ctx[c].ref
      /\ PrevKept
  <2>1. \A d \in Ctx : ctx[d] \in CtxCellI
    BY CellTypes
  <2> QED BY <2>1, CollectorAssumption DEF RefScope, PrevKept, CtxCellI, Types, HeapTypes
<1>2. FramesOf(c)' = FramesOf(c) /\ ScopesIn(c)' = ScopesIn(c)
  BY <1>1 DEF FramesOf, ScopesIn, PrevKept
<1>3. FunctionsOf(c)' = IF c = obj'[x].scope THEN FunctionsOf(c) \cup {x} ELSE FunctionsOf(c)
  BY DEF FunctionsOf, ScopesKept
<1>4. x \notin FunctionsOf(c)
  BY DEF FunctionsOf
<1>5. Cardinality(FunctionsOf(c)') = IF c = obj'[x].scope THEN Cardinality(FunctionsOf(c)) + 1 ELSE Cardinality(FunctionsOf(c))
  BY <1>3, <1>4, Parts, OneMore
<1>6. /\ Cardinality(FramesOf(c)) \in Nat /\ Cardinality(FunctionsOf(c)) \in Nat /\ Cardinality(ScopesIn(c)) \in Nat
      /\ ctx[c].ref = Cardinality(FramesOf(c)) + Cardinality(FunctionsOf(c)) + Cardinality(ScopesIn(c))
                          + (IF c \in wbCtx THEN 1 ELSE 0) + (IF freeing = c THEN 1 ELSE 0)
  BY Parts DEF Counted
<1>7. Cardinality((wbCtx \cap {c})') = IF c \in wbCtx THEN 1 ELSE 0
  BY AtMostOne
<1>8. Holders(c)' = Cardinality(FramesOf(c)) + Cardinality(FunctionsOf(c)') + Cardinality(ScopesIn(c))
                          + (IF c \in wbCtx THEN 1 ELSE 0) + (IF freeing = c THEN 1 ELSE 0)
  BY <1>2, <1>7 DEF Holders
<1> QED BY <1>1, <1>5, <1>6, <1>8

(* A context is put into the write barrier list.                           *)
LEMMA BarrierCounted ==
  ASSUME Types, Counted, ScopesKept, PrevKept, NEW x \in Ctx, x \notin wbCtx, wbCtx' = wbCtx \cup {x},
         \A c \in Ctx : ctx'[c].ref = IF c = x THEN ctx[c].ref + 1 ELSE ctx[c].ref,
         frames' = frames, freeing' = freeing, desLog' = desLog, dying' = dying
  PROVE  Counted'
<1> SUFFICES ASSUME NEW c \in Ctx PROVE ctx'[c].ref = Holders(c)'
  BY DEF Counted
<1>1. FramesOf(c)' = FramesOf(c) /\ ScopesIn(c)' = ScopesIn(c) /\ FunctionsOf(c)' = FunctionsOf(c)
  BY DEF FramesOf, ScopesIn, FunctionsOf, ScopesKept, PrevKept
<1>6. /\ Cardinality(FramesOf(c)) \in Nat /\ Cardinality(FunctionsOf(c)) \in Nat /\ Cardinality(ScopesIn(c)) \in Nat
      /\ ctx[c].ref = Cardinality(FramesOf(c)) + Cardinality(FunctionsOf(c)) + Cardinality(ScopesIn(c))
                          + (IF c \in wbCtx THEN 1 ELSE 0) + (IF freeing = c THEN 1 ELSE 0)
  BY Parts DEF Counted
<1>7. Cardinality((wbCtx \cap {c})') = IF c \in wbCtx' THEN 1 ELSE 0
  BY AtMostOne
<1>8. Holders(c)' = Cardinality(FramesOf(c)) + Cardinality(FunctionsOf(c)) + Cardinality(ScopesIn(c))
                          + (IF c \in wbCtx' THEN 1 ELSE 0) + (IF freeing = c THEN 1 ELSE 0)
  BY <1>1, <1>7 DEF Holders
<1> QED BY <1>6, <1>8

(* A frame is pushed.                                                      *)
LEMMA PushedFrames ==
  ASSUME Types, NEW x \in Ctx, frames' = Append(frames, x), NEW c \in Ctx
  PROVE  Cardinality(FramesOf(c)') = IF c = x THEN Cardinality(FramesOf(c)) + 1 ELSE Cardinality(FramesOf(c))
<1>0. frames \in Seq(Ctx)
  BY DEF Types, RootTypes
<1>1. /\ DOMAIN frames = 1..Len(frames) /\ DOMAIN frames' = 1..(Len(frames) + 1) /\ Len(frames) \in Nat
      /\ \A i \in 1..Len(frames) : frames'[i] = frames[i]
      /\ frames'[Len(frames) + 1] = x
  BY <1>0
<1>2. FramesOf(c)' = IF c = x THEN FramesOf(c) \cup {Len(frames) + 1} ELSE FramesOf(c)
  BY <1>1 DEF FramesOf
<1>3. Len(frames) + 1 \notin FramesOf(c)
  BY <1>1 DEF FramesOf
<1> QED BY <1>2, <1>3, Parts, OneMore

(* A call: the new frame holds the context that it counts.                 *)
LEMMA NativeCounted ==
  ASSUME Types, Counted, ScopesKept, NEW x \in Ctx, RefScope(x), frames' = Append(frames, x),
         freeing' = freeing, wbCtx' = wbCtx, desLog' = desLog, dying' = dying
  PROVE  Counted'
<1> SUFFICES ASSUME NEW c \in Ctx PROVE ctx'[c].ref = Holders(c)'
  BY DEF Counted
<1>1. /\ ctx'[c].ref = IF c = x THEN ctx[c].ref + 1 ELSE ctx[c].ref
      /\ PrevKept
  <2>1. \A d \in Ctx : ctx[d] \in CtxCellI
    BY CellTypes
  <2> QED BY <2>1, CollectorAssumption DEF RefScope, PrevKept, CtxCellI, Types, HeapTypes
<1>2. FunctionsOf(c)' = FunctionsOf(c) /\ ScopesIn(c)' = ScopesIn(c)
  BY <1>1 DEF FunctionsOf, ScopesIn, PrevKept, ScopesKept
<1>5. Cardinality(FramesOf(c)') = IF c = x THEN Cardinality(FramesOf(c)) + 1 ELSE Cardinality(FramesOf(c))
  BY PushedFrames
<1>6. /\ Cardinality(FramesOf(c)) \in Nat /\ Cardinality(FunctionsOf(c)) \in Nat /\ Cardinality(ScopesIn(c)) \in Nat
      /\ ctx[c].ref = Cardinality(FramesOf(c)) + Cardinality(FunctionsOf(c)) + Cardinality(ScopesIn(c))
                          + (IF c \in wbCtx THEN 1 ELSE 0) + (IF freeing = c THEN 1 ELSE 0)
  BY Parts DEF Counted
<1>7. Cardinality((wbCtx \cap {c})') = IF c \in wbCtx THEN 1 ELSE 0
  BY AtMostOne
<1>8. Holders(c)' = Cardinality(FramesOf(c)') + Cardinality(FunctionsOf(c)) + Cardinality(ScopesIn(c))
                          + (IF c \in wbCtx THEN 1 ELSE 0) + (IF freeing = c THEN 1 ELSE 0)
  BY <1>2, <1>7 DEF Holders
<1> QED BY <1>1, <1>5, <1>6, <1>8

(* A context from the pool is entered: the frame holds it, and it holds    *)
(* its scope.                                                              *)
LEMMA CallCounted ==
  ASSUME Types, Counted, ScopesKept, NEW x \in Ctx, ctx[x].ref = 0, ctx[x].prev = Nil, NEW s \in Ctx, s # x,
         ctx'[x].ref = 1, ctx'[x].prev = s, ctx'[s].ref = ctx[s].ref + 1, ctx'[s].prev = ctx[s].prev,
         \A c \in Ctx \ {x, s} : ctx'[c].ref = ctx[c].ref /\ ctx'[c].prev = ctx[c].prev,
         frames' = Append(frames, x), freeing' = freeing, wbCtx' = wbCtx, desLog' = desLog, dying' = dying
  PROVE  Counted'
<1> SUFFICES ASSUME NEW c \in Ctx PROVE ctx'[c].ref = Holders(c)'
  BY DEF Counted
<1>1. ctx'[c].ref = IF c = x THEN ctx[c].ref + 1 ELSE IF c = s THEN ctx[c].ref + 1 ELSE ctx[c].ref
  OBVIOUS
<1>2. FunctionsOf(c)' = FunctionsOf(c)
  BY DEF FunctionsOf, ScopesKept
<1>3. ScopesIn(c)' = (IF c = s THEN ScopesIn(c) \cup {x} ELSE ScopesIn(c)) /\ x \notin ScopesIn(c)
  BY CollectorAssumption DEF ScopesIn
<1>4. Cardinality(ScopesIn(c)') = IF c = s THEN Cardinality(ScopesIn(c)) + 1 ELSE Cardinality(ScopesIn(c))
  BY <1>3, Parts, OneMore
<1>5. Cardinality(FramesOf(c)') = IF c = x THEN Cardinality(FramesOf(c)) + 1 ELSE Cardinality(FramesOf(c))
  BY PushedFrames
<1>6. /\ Cardinality(FramesOf(c)) \in Nat /\ Cardinality(FunctionsOf(c)) \in Nat /\ Cardinality(ScopesIn(c)) \in Nat
      /\ ctx[c].ref = Cardinality(FramesOf(c)) + Cardinality(FunctionsOf(c)) + Cardinality(ScopesIn(c))
                          + (IF c \in wbCtx THEN 1 ELSE 0) + (IF freeing = c THEN 1 ELSE 0)
  BY Parts DEF Counted
<1>7. Cardinality((wbCtx \cap {c})') = IF c \in wbCtx THEN 1 ELSE 0
  BY AtMostOne
<1>8. Holders(c)' = Cardinality(FramesOf(c)') + Cardinality(FunctionsOf(c)) + Cardinality(ScopesIn(c)')
                          + (IF c \in wbCtx THEN 1 ELSE 0) + (IF freeing = c THEN 1 ELSE 0)
  BY <1>2, <1>7 DEF Holders
<1> QED BY <1>1, <1>4, <1>5, <1>6, <1>8

(* Contexts in the pool stay as they are, and scopes enclose what they     *)
(* did.                                                                    *)
PoolKept == \A c \in Ctx : ctx'[c].ref = 0 => ctx[c].ref = 0 /\ CtxKept(c)

(* What no pooled context refers to stays so when no reference is given    *)
(* away.                                                                   *)
LEMMA PoolSame ==
  ASSUME Pooled, Acyclic, PoolKept, PrevKept
  PROVE  Pooled' /\ Acyclic'
BY DEF Pooled, Acyclic, PoolKept, PrevKept, CtxKept

(* "loc" is read or assigned.                                              *)
LEMMA LocalCounted ==
  ASSUME Ready, Counted, Pooled, Acyclic, ScopesKept, NEW d, NEW b \in BOOLEAN,
         d.prev = ctx[Local].prev, d.ref = IF b /\ ~ ctx[Local].wb THEN ctx[Local].ref + 1 ELSE ctx[Local].ref,
         ctx' = [ctx EXCEPT ![Local] = d], wbCtx' = Remember(wbCtx, ctx[Local], Local, b),
         frames' = frames, freeing' = freeing, desLog' = desLog, dying' = dying
  PROVE  Counted' /\ Pooled' /\ Acyclic'
<1>1. /\ Types /\ Local \in Ctx /\ ctx[Local].wb \in BOOLEAN /\ ctx \in [Ctx -> CtxCellI]
      /\ ctx[Local].wb <=> Local \in wbCtx
  BY CellTypes DEF Ready, RunOld, Types, HeapTypes
<1>2. /\ ctx'[Local].prev = ctx[Local].prev
      /\ ctx'[Local].ref = IF b /\ ~ ctx[Local].wb THEN ctx[Local].ref + 1 ELSE ctx[Local].ref
      /\ \A c \in Ctx \ {Local} : ctx'[c] = ctx[c]
  BY <1>1
<1>3. ctx[Local].ref \in Nat /\ ctx[Local].ref # 0
  <2>1. Len(frames) \in DOMAIN frames
    BY <1>1 DEF Types, RootTypes
  <2>2. ~ Unheld(Local)
    BY <2>1 DEF Unheld, Local
  <2> QED BY <1>1, <2>2, Uncounted
<1>4. PrevKept /\ PoolKept
  <2>1. ctx'[Local].ref # 0
    BY <1>2, <1>3
  <2> QED BY <1>2, <2>1 DEF PrevKept, PoolKept, CtxKept
<1>5. CASE b /\ ~ ctx[Local].wb
  <2>1. Local \notin wbCtx /\ wbCtx' = wbCtx \cup {Local}
    BY <1>1, <1>5 DEF Remember
  <2>2. \A c \in Ctx : ctx'[c].ref = IF c = Local THEN ctx[c].ref + 1 ELSE ctx[c].ref
    BY <1>2, <1>5
  <2>3. PICK x \in Ctx : x = Local
    BY <1>1
  <2>4. Counted'
    BY <1>1, <1>4, <2>1, <2>2, <2>3, BarrierCounted
  <2> QED BY <1>4, <2>4, PoolSame
<1>6. CASE ~ (b /\ ~ ctx[Local].wb)
  <2>1. wbCtx' = wbCtx /\ \A c \in Ctx : ctx'[c].ref = ctx[c].ref
    BY <1>1, <1>2, <1>6 DEF Remember
  <2>2. Counted'
    BY <1>4, <2>1, NothingCounted
  <2> QED BY <1>4, <2>2, PoolSame
<1> QED BY <1>5, <1>6

(* A new function holds its scope, is in the log, and counts.              *)
LEMMA FunctionMade ==
  ASSUME Ready, Types', Counted, Pooled, Acyclic, ScopesKept, NEW o \in Obj, UnusedObj(o),
         NEW s \in CtxRef, obj'[<<o, 0>>].scope = s, RefScope(s), LogFunction(<<o, 0>>, s),
         frames' = frames, freeing' = freeing, wbCtx' = wbCtx, dying' = dying
  PROVE  Counted' /\ Pooled' /\ Acyclic'
<1>0. Types /\ ctx \in [Ctx -> CtxCellI] /\ <<o, 0>> \in ObjAddr /\ 0 \in Space
  BY Addresses, Heaps DEF Ready, Types, HeapTypes
<1>1. \A c \in Ctx : CtxKept(c)
  BY <1>0, RefKept
<1>2. CASE s = Nil
  <2>1. ctx' = ctx /\ desLog' = desLog
    BY <1>2 DEF RefScope, LogFunction
  <2>2. PrevKept /\ PoolKept
    BY <2>1 DEF PrevKept, PoolKept, CtxKept
  <2>3. Counted'
    BY <2>1, <2>2, NothingCounted
  <2> QED BY <2>2, <2>3, PoolSame
<1>3. CASE s # Nil
  <2>1. s \in Ctx /\ desLog' = desLog \cup {<<o, 0>>}
    BY <1>3 DEF LogFunction, CtxRef
  <2>2. <<o, 0>> \notin desLog \cup dying
    <3>1. ~ obj[<<o, 0>>].live
      BY <1>0 DEF UnusedObj
    <3> QED BY <3>1 DEF Ready, Logged, Functions
  <2>3. \A c \in Ctx : ctx'[c].ref = IF c = s THEN ctx[c].ref + 1 ELSE ctx[c].ref
    <3>1. ctx' = [ctx EXCEPT ![s].ref = @ + 1]
      BY <1>3 DEF RefScope
    <3>2. \A c \in Ctx : ctx[c] \in CtxCellI
      BY <1>0, CellTypes
    <3> QED BY <1>0, <2>1, <3>1, <3>2 DEF CtxCellI
  <2>4. PrevKept /\ PoolKept
    <3>1. \A c \in Ctx : ctx[c].ref \in Nat
      BY <1>0, Uncounted
    <3> QED BY <1>1, <2>1, <2>3, <3>1 DEF PrevKept, PoolKept, CtxKept
  <2>5. PICK x \in ObjAddr : x = <<o, 0>>
    BY <1>0
  <2>6. Counted'
    BY <1>0, <2>1, <2>2, <2>5, FunctionCounted
  <2> QED BY <2>4, <2>6, PoolSame
<1> QED BY <1>2, <1>3

(* Every instruction counts every reference to a context that it makes.    *)
LEMMA MutateCounted ==
  ASSUME Ready, Types', Counted, Pooled, Acyclic, Mutate, UNCHANGED <<gcVars, freeing>>
  PROVE  Counted' /\ Pooled' /\ Acyclic'
<1> DEFINE Done == Counted' /\ Pooled' /\ Acyclic'
<1>0. /\ Types /\ Local \in Ctx /\ freeing' = freeing /\ dying' = dying /\ ctx \in [Ctx -> CtxCellI]
      /\ Nil \in TabRef /\ Nil \in ObjRef /\ TabAddr \subseteq TabRef /\ ObjAddr \subseteq ObjRef
      /\ stack \subseteq ObjAddr /\ 0 \in Space
  BY CellTypes, Heaps DEF Ready, gcVars, TabRef, ObjRef, Types, HeapTypes, RootTypes
<1>1. ScopesKept
  <2>1. ObjEffect
    BY MutateEffect DEF Effect
  <2>2. \A a \in desLog \cup dying : a \in ObjAddr /\ obj[a].live
    BY DEF Ready, Logged, Functions
  <2> QED BY <2>1, <2>2, WrittenLive DEF ScopesKept
<1>2. ASSUME ctx' = ctx, frames' = frames, wbCtx' = wbCtx, desLog' = desLog PROVE Done
  <2>1. PrevKept /\ PoolKept
    BY <1>2 DEF PrevKept, PoolKept, CtxKept
  <2>2. Counted'
    BY <1>0, <1>1, <1>2, <2>1, NothingCounted
  <2> QED BY <2>1, <2>2, PoolSame
<1>3. ASSUME \/ \E o \in Obj : NewObject(o)
             \/ \E v \in stack : Pop(v)
             \/ \E a, p \in stack : SetProto(a, p)
             \/ \E a \in stack, k \in Key, v \in stack \cup {Nil}, n \in Tab : SetSlot(a, k, v, n)
             \/ \E a \in stack, k \in Key : GetSlot(a, k)
             \/ \E a, b \in stack, K \in SUBSET Key, n \in Tab : Merge(a, b, K, n)
             \/ \E k \in Key : GetLocalSlot(k)
             \/ GetObjectAgain
      PROVE  Done
  <2>1. ctx' = ctx /\ frames' = frames /\ wbCtx' = wbCtx /\ desLog' = desLog
    <3> DEFINE Same == ctx' = ctx /\ frames' = frames /\ wbCtx' = wbCtx /\ desLog' = desLog
    <3>1. \A o \in Obj : NewObject(o) => Same
      BY DEF NewObject, wbVars
    <3>2. \A v \in stack : Pop(v) => Same
      BY DEF Pop, heapVars, wbVars
    <3>3. \A a, p \in stack : SetProto(a, p) => Same
      BY DEF SetProto, rootVars
    <3>4. \A a \in stack, k \in Key, v \in stack \cup {Nil}, n \in Tab : SetSlot(a, k, v, n) => Same
      BY DEF SetSlot, rootVars
    <3>5. \A a \in stack, k \in Key : GetSlot(a, k) => Same
      BY DEF GetSlot, heapVars, wbVars
    <3>6. \A a, b \in stack, K \in SUBSET Key, n \in Tab : Merge(a, b, K, n) => Same
      BY DEF Merge, rootVars
    <3>7. \A k \in Key : GetLocalSlot(k) => Same
      BY DEF GetLocalSlot, heapVars, wbVars
    <3>8. GetObjectAgain => Same
      BY DEF GetObjectAgain, heapVars, wbVars
    <3> HIDE DEF Same
    <3>9. Same
      BY <1>3, <3>1, <3>2, <3>3, <3>4, <3>5, <3>6, <3>7, <3>8
    <3> QED BY <3>9 DEF Same
  <2> QED BY <1>2, <2>1
<1>4. ASSUME NEW a \in stack, NEW o \in Obj, NEW n \in Tab, Clone(a, o, n) PROVE Done
  <2> DEFINE s == obj[a].scope
  <2>1. s \in CtxRef /\ obj[a] \in ObjCell /\ <<o, 0>> \in ObjAddr
    BY <1>0, CellTypes, Addresses
  <2>2. /\ UnusedObj(o) /\ RefScope(s) /\ LogFunction(<<o, 0>>, s) /\ frames' = frames /\ wbCtx' = wbCtx
        /\ \E t : obj' = [obj EXCEPT ![<<o, 0>>] = [obj[a] EXCEPT !.gen = 0, !.wb = FALSE, !.slots = t]]
    BY <1>4 DEF Clone, wbVars
  <2>3. obj'[<<o, 0>>].scope = s
    BY <1>0, <2>1, <2>2 DEF ObjCell, Types, HeapTypes
  <2>4. PICK x \in CtxRef : x = s
    BY <2>1
  <2> QED BY <1>0, <1>1, <2>2, <2>3, <2>4, FunctionMade
<1>5. ASSUME NEW k \in Key, NEW v \in stack \cup {Nil}, NEW n \in Tab, SetLocalSlot(k, v, n) PROVE Done
  <2>1. /\ frames' = frames /\ wbCtx' = wbCtx /\ desLog' = desLog
        /\ \E t : ctx' = [ctx EXCEPT ![Local].slots = t]
    BY <1>5 DEF SetLocalSlot, rootVars
  <2>2. \A c \in Ctx : ctx'[c].ref = ctx[c].ref /\ ctx'[c].prev = ctx[c].prev /\ (c # Local => ctx'[c] = ctx[c])
    <3>1. \A c \in Ctx : ctx[c] \in CtxCellI
      BY <1>0, CellTypes
    <3> QED BY <1>0, <2>1, <3>1 DEF CtxCellI
  <2>3. ctx[Local].ref # 0
    <3>1. Len(frames) \in DOMAIN frames
      BY <1>0 DEF Types, RootTypes
    <3>2. ~ Unheld(Local)
      BY <3>1 DEF Unheld, Local
    <3> QED BY <1>0, <3>2, Uncounted
  <2>4. PrevKept /\ PoolKept
    BY <2>2, <2>3 DEF PrevKept, PoolKept, CtxKept
  <2>5. Counted'
    BY <1>0, <1>1, <2>1, <2>2, <2>4, NothingCounted
  <2> QED BY <2>4, <2>5, PoolSame
<1>6. ASSUME NEW o \in Obj, NEW n \in Tab, GetObject(o, n) PROVE Done
  <2> DEFINE c == ctx[Local]
             t == IF c.slots = Nil THEN <<n, HeapAt(c.gen)>> ELSE c.slots
  <2>1. t \in TabRef
    BY <1>0, CellTypes, Heaps, Addresses
  <2>2. <<o, 0>> \in ObjRef
    BY <1>0, Addresses
  <2>3. PICK b \in BOOLEAN : b = WBCtxObj(c, [DeadObj EXCEPT !.live = TRUE, !.slots = t])
    BY DEF WBCtxObj
  <2>4. /\ ctx' = [ctx EXCEPT ![Local] = Barred([ctx[Local] EXCEPT !.slots = t, !.obj = <<o, 0>>], b)]
        /\ wbCtx' = Remember(wbCtx, ctx[Local], Local, b)
        /\ frames' = frames /\ desLog' = desLog
    BY <1>6, <2>3 DEF GetObject, CtxBarrier
  <2> DEFINE d == Barred([ctx[Local] EXCEPT !.slots = t, !.obj = <<o, 0>>], b)
  <2>5. ctx[Local] \in CtxCellI
    BY CellTypes, <1>0
  <2> HIDE DEF t
  <2>6. d.prev = ctx[Local].prev /\ d.ref = IF b /\ ~ ctx[Local].wb THEN ctx[Local].ref + 1 ELSE ctx[Local].ref
    <3>1. PICK c0 \in CtxCellI, t0 \in TabRef, a0 \in ObjRef : c0 = ctx[Local] /\ t0 = t /\ a0 = <<o, 0>>
      BY <2>1, <2>2, <2>5
    <3>2. d = Barred([c0 EXCEPT !.slots = t0, !.obj = a0], b)
      BY <3>1
    <3> HIDE DEF d
    <3> QED BY <3>1, <3>2 DEF Barred, CtxCellI
  <2>7. ctx' = [ctx EXCEPT ![Local] = d]
    BY <2>4
  <2> HIDE DEF d
  <2> QED BY <1>0, <1>1, <2>4, <2>6, <2>7, LocalCounted
<1>7. ASSUME NEW a \in stack, NEW n \in Tab, SetObject(a, n) PROVE Done
  <2> DEFINE own == Owned(obj[a], n)
  <2>1. own.at \in TabRef /\ a \in ObjRef
    BY <1>0, OwnedTypes
  <2>3. PICK b \in BOOLEAN : b = WBCtxObj(ctx[Local], obj[a])
    BY DEF WBCtxObj
  <2>4. /\ ctx' = [ctx EXCEPT ![Local] = Barred([ctx[Local] EXCEPT !.slots = own.at, !.obj = a], b)]
        /\ wbCtx' = Remember(wbCtx, ctx[Local], Local, b)
        /\ frames' = frames /\ desLog' = desLog
    BY <1>7, <2>3 DEF SetObject, CtxBarrier, rootVars
  <2> HIDE DEF own
  <2> DEFINE d == Barred([ctx[Local] EXCEPT !.slots = own.at, !.obj = a], b)
  <2>5. ctx[Local] \in CtxCellI
    BY CellTypes, <1>0
  <2>6. d.prev = ctx[Local].prev /\ d.ref = IF b /\ ~ ctx[Local].wb THEN ctx[Local].ref + 1 ELSE ctx[Local].ref
    <3>1. PICK c0 \in CtxCellI, t0 \in TabRef, a0 \in ObjRef : c0 = ctx[Local] /\ t0 = own.at /\ a0 = a
      BY <2>1, <2>5
    <3>2. d = Barred([c0 EXCEPT !.slots = t0, !.obj = a0], b)
      BY <3>1
    <3> HIDE DEF d
    <3> QED BY <3>1, <3>2 DEF Barred, CtxCellI
  <2>7. ctx' = [ctx EXCEPT ![Local] = d]
    BY <2>4
  <2> HIDE DEF d
  <2> QED BY <1>0, <1>1, <2>4, <2>6, <2>7, LocalCounted
<1>8. ASSUME NEW o \in Obj, NewFunction(o) PROVE Done
  <2>1. <<o, 0>> \in ObjAddr /\ Local \in CtxRef
    BY <1>0, Addresses DEF CtxRef
  <2>2. /\ UnusedObj(o) /\ RefScope(Local) /\ LogFunction(<<o, 0>>, Local) /\ frames' = frames /\ wbCtx' = wbCtx
        /\ obj' = [obj EXCEPT ![<<o, 0>>] = [DeadObj EXCEPT !.live = TRUE, !.scope = Local]]
    BY <1>8 DEF NewFunction, wbVars
  <2>3. obj'[<<o, 0>>].scope = Local
    BY <2>1, <2>2, <1>0 DEF DeadObj, Types, HeapTypes
  <2>4. PICK x \in CtxRef : x = Local
    BY <2>1
  <2> QED BY <1>0, <1>1, <2>2, <2>3, <2>4, FunctionMade
<1>9. ASSUME NEW f \in stack, NEW c \in Ctx, Call(f, c) PROVE Done
  <2>0. PICK s \in Ctx : s = obj[f].scope
    BY <1>0, <1>9, CellTypes DEF Call, CtxRef
  <2>1. s # c /\ Unheld(c) /\ ctx[c].ref = 0 /\ ctx[c].prev = Nil
    <3>1. ctx[c].ref = 0 /\ Unheld(c)
      BY <1>9 DEF Call, Ready
    <3>2. f \in desLog
      BY <1>0, <1>9 DEF Ready, Logged, Functions, Call, RunRefs
    <3> QED BY <2>0, <3>1, <3>2 DEF Unheld, Pooled
  <2> DEFINE new == [DeadCtx EXCEPT !.ref = 1, !.prev = s]
  <2>2. ctx' = [ctx EXCEPT ![c] = new, ![s].ref = ctx[s].ref + 1] /\ frames' = Append(frames, c) /\ UNCHANGED <<wbCtx, desLog>>
    BY <1>9, <2>0 DEF Call, wbVars
  <2>3. new.ref = 1 /\ new.prev = s
    BY DEF DeadCtx
  <2>4. \A d \in Ctx : ctx[d] \in CtxCellI
    BY <1>0, CellTypes
  <2> HIDE DEF new
  <2>5. /\ ctx'[c] = new /\ ctx'[s] = [ctx[s] EXCEPT !.ref = @ + 1]
        /\ \A d \in Ctx \ {c, s} : ctx'[d] = ctx[d]
    BY <1>0, <2>1, <2>2
  <2>6. ctx'[s].ref = ctx[s].ref + 1 /\ ctx'[s].prev = ctx[s].prev
    BY <2>4, <2>5 DEF CtxCellI
  <2>7. Counted'
    BY <1>0, <1>1, <2>1, <2>2, <2>3, <2>5, <2>6, CallCounted
  <2>8. Pooled'
    <3>1. ctx[s].ref \in Nat
      BY <1>0, Uncounted
    <3>2. ctx'[s].ref # 0 /\ ctx'[c].ref # 0
      BY <2>3, <2>5, <2>6, <3>1
    <3>3. \A d \in Ctx : ctx'[d].ref = 0 => ctx'[d] = ctx[d]
      BY <2>5, <3>2
    <3> QED BY <3>3 DEF Pooled
  <2>9. Acyclic'
    <3> SUFFICES ASSUME NEW S \in SUBSET Ctx, S # {} PROVE \E d \in S : \A e \in S : ctx'[e].prev # d
      BY DEF Acyclic
    <3>1. \A e \in Ctx \ {c} : ctx'[e].prev = ctx[e].prev
      BY <2>5, <2>6
    <3>2. CASE c \in S
      BY <2>1, <2>3, <2>5, <3>1, <3>2 DEF Unheld
    <3>3. CASE c \notin S
      BY <3>1, <3>3 DEF Acyclic
    <3> QED BY <3>2, <3>3
  <2> QED BY <2>7, <2>8, <2>9
<1>10. ASSUME NEW f \in stack, CallNative(f) PROVE Done
  <2>0. PICK s \in Ctx : s = obj[f].scope
    BY <1>0, <1>10, CellTypes DEF CallNative, CtxRef
  <2>1. RefScope(s) /\ frames' = Append(frames, s) /\ UNCHANGED <<wbCtx, desLog>>
    BY <1>10, <2>0 DEF CallNative, wbVars
  <2>2. Counted'
    BY <1>0, <1>1, <2>1, NativeCounted
  <2>3. s \in CtxRef
    BY DEF CtxRef
  <2>4. \A c \in Ctx : CtxKept(c)
    BY <1>0, <2>1, <2>3, RefKept
  <2>5. \A c \in Ctx : ctx'[c].ref = IF c = s THEN ctx[c].ref + 1 ELSE ctx[c].ref
    <3>1. ctx' = [ctx EXCEPT ![s].ref = @ + 1]
      BY <2>1, CollectorAssumption DEF RefScope
    <3>2. \A c \in Ctx : ctx[c] \in CtxCellI
      BY <1>0, CellTypes
    <3> QED BY <1>0, <3>1, <3>2 DEF CtxCellI
  <2>6. PrevKept /\ PoolKept
    <3>1. \A c \in Ctx : ctx[c].ref \in Nat
      BY <1>0, Uncounted
    <3> QED BY <2>4, <2>5, <3>1 DEF PrevKept, PoolKept, CtxKept
  <2> QED BY <2>2, <2>6, PoolSame
<1> QED BY <1>3, <1>4, <1>5, <1>6, <1>7, <1>8, <1>9, <1>10 DEF Mutate

(***************************************************************************)
(* Steps that pass a count on.                                             *)
(***************************************************************************)

(* A reference that c is about to lose is being freed.                     *)
LEMMA ReturnCounted ==
  ASSUME Types, Counted, Pooled, Acyclic, Return, freeing = Nil, dying' = dying
  PROVE  Counted' /\ Pooled' /\ Acyclic'
<1>1. /\ Len(frames) > 1 /\ frames' = SubSeq(frames, 1, Len(frames) - 1) /\ freeing' = Local
      /\ UNCHANGED <<obj, ctx, wbCtx, desLog>>
  BY DEF Return, heapVars, wbVars
<1>2. frames \in Seq(Ctx) /\ Len(frames) \in Nat /\ DOMAIN frames = 1..Len(frames) /\ Local = frames[Len(frames)]
  BY DEF Types, RootTypes, Local
<1>3. /\ DOMAIN frames' = 1..(Len(frames) - 1)
      /\ \A i \in 1..(Len(frames) - 1) : frames'[i] = frames[i]
  BY <1>1, <1>2
<1>4. Pooled' /\ Acyclic'
  BY <1>1 DEF Pooled, Acyclic
<1>5. ASSUME NEW c \in Ctx PROVE ctx'[c].ref = Holders(c)'
  <2>1. FunctionsOf(c)' = FunctionsOf(c) /\ ScopesIn(c)' = ScopesIn(c)
    BY <1>1 DEF FunctionsOf, ScopesIn
  <2>2. FramesOf(c)' = (IF c = Local THEN FramesOf(c) \ {Len(frames)} ELSE FramesOf(c))
    BY <1>1, <1>2, <1>3 DEF FramesOf
  <2>3. c = Local => Len(frames) \in FramesOf(c)
    BY <1>1, <1>2 DEF FramesOf
  <2>4. Cardinality(FramesOf(c)') = IF c = Local THEN Cardinality(FramesOf(c)) - 1 ELSE Cardinality(FramesOf(c))
    BY <2>2, <2>3, Parts, OneLess
  <2>5. /\ Cardinality(FramesOf(c)) \in Nat /\ Cardinality(FunctionsOf(c)) \in Nat /\ Cardinality(ScopesIn(c)) \in Nat
        /\ ctx[c].ref = Cardinality(FramesOf(c)) + Cardinality(FunctionsOf(c)) + Cardinality(ScopesIn(c))
                          + (IF c \in wbCtx THEN 1 ELSE 0) + (IF freeing = c THEN 1 ELSE 0)
    BY Parts DEF Counted
  <2>6. Cardinality((wbCtx \cap {c})') = IF c \in wbCtx THEN 1 ELSE 0
    BY <1>1, AtMostOne
  <2>7. Holders(c)' = Cardinality(FramesOf(c)') + Cardinality(FunctionsOf(c)) + Cardinality(ScopesIn(c))
                          + (IF c \in wbCtx THEN 1 ELSE 0) + (IF c = Local THEN 1 ELSE 0)
    BY <1>1, <2>1, <2>6 DEF Holders
  <2>8. freeing # c
    BY CollectorAssumption
  <2> QED BY <1>1, <2>4, <2>5, <2>7, <2>8
<1> QED BY <1>4, <1>5 DEF Counted

(* One turn of the loop of ivm_context_free.                               *)
LEMMA FreeCounted ==
  ASSUME Types, Counted, Pooled, Acyclic, ContextFree
  PROVE  /\ Counted' /\ Pooled' /\ Acyclic'
         /\ ctx[freeing].ref = 1 => ctx'[freeing] = DeadCtx
         /\ \A c \in Ctx : c # freeing \/ ctx[freeing].ref # 1 => CtxKept(c)
<1>1. /\ freeing \in Ctx /\ ctx \in [Ctx -> CtxCellI]
      /\ UNCHANGED <<obj, frames, wbCtx, desLog, dying>>
  BY DEF ContextFree, Types, RootTypes, HeapTypes, CtxRef, rootVars, wbVars, gcVars
<1>2. /\ ctx[freeing].ref \in Nat /\ ctx[freeing].ref # 0
      /\ ctx[freeing].ref = 1 =>
              /\ \A i \in DOMAIN frames : frames[i] # freeing
              /\ \A a \in desLog \cup dying : obj[a].scope # freeing
              /\ \A d \in Ctx : ctx[d].prev # freeing
              /\ freeing \notin wbCtx
  BY <1>1, Uncounted
<1>3. CASE ctx[freeing].ref = 1
  <2>1. /\ ctx' = [ctx EXCEPT ![freeing] = DeadCtx] /\ freeing' = ctx[freeing].prev
        /\ DeadCtx.ref = 0 /\ DeadCtx.prev = Nil /\ DeadCtx.slots = Nil /\ DeadCtx.obj = Nil /\ ~ DeadCtx.wb
    BY <1>3 DEF ContextFree, DeadCtx
  <2>2. ctx'[freeing] = DeadCtx /\ \A c \in Ctx \ {freeing} : ctx'[c] = ctx[c]
    BY <1>1, <2>1
  <2>3. Pooled'
    BY <2>1, <2>2 DEF Pooled
  <2>4. Acyclic'
    <3> SUFFICES ASSUME NEW S \in SUBSET Ctx, S # {} PROVE \E d \in S : \A e \in S : ctx'[e].prev # d
      BY DEF Acyclic
    <3>1. PICK d \in S : \A e \in S : ctx[e].prev # d
      BY DEF Acyclic
    <3>2. d # Nil
      BY CollectorAssumption
    <3> QED BY <2>1, <2>2, <3>1, <3>2
  <2>5. ASSUME NEW c \in Ctx PROVE ctx'[c].ref = Holders(c)'
    <3>1. FunctionsOf(c)' = FunctionsOf(c) /\ FramesOf(c)' = FramesOf(c)
      BY <1>1 DEF FunctionsOf, FramesOf
    <3>2. ScopesIn(c)' = IF c = ctx[freeing].prev THEN ScopesIn(c) \ {freeing} ELSE ScopesIn(c)
      BY <2>1, <2>2, CollectorAssumption DEF ScopesIn
    <3>3. c = ctx[freeing].prev => freeing \in ScopesIn(c)
      BY <1>1 DEF ScopesIn
    <3>4. Cardinality(ScopesIn(c)') = IF c = ctx[freeing].prev THEN Cardinality(ScopesIn(c)) - 1 ELSE Cardinality(ScopesIn(c))
      BY <3>2, <3>3, Parts, OneLess
    <3>5. /\ Cardinality(FramesOf(c)) \in Nat /\ Cardinality(FunctionsOf(c)) \in Nat /\ Cardinality(ScopesIn(c)) \in Nat
          /\ ctx[c].ref = Cardinality(FramesOf(c)) + Cardinality(FunctionsOf(c)) + Cardinality(ScopesIn(c))
                          + (IF c \in wbCtx THEN 1 ELSE 0) + (IF freeing = c THEN 1 ELSE 0)
      BY Parts DEF Counted
    <3>6. Cardinality((wbCtx \cap {c})') = IF c \in wbCtx THEN 1 ELSE 0
      BY <1>1, AtMostOne
    <3>7. Holders(c)' = Cardinality(FramesOf(c)) + Cardinality(FunctionsOf(c)) + Cardinality(ScopesIn(c)')
                          + (IF c \in wbCtx THEN 1 ELSE 0) + (IF c = ctx[freeing].prev THEN 1 ELSE 0)
      BY <2>1, <3>1, <3>6 DEF Holders
    <3>8. ctx'[c].ref = IF c = freeing THEN 0 ELSE ctx[c].ref
      BY <2>1, <2>2
    <3>9. ctx[freeing].prev # freeing
      BY <1>1, <1>2, <1>3
    <3> QED BY <1>3, <3>4, <3>5, <3>7, <3>8, <3>9
  <2>6. Counted'
    BY <2>5 DEF Counted
  <2> QED BY <1>3, <2>2, <2>3, <2>4, <2>6 DEF CtxKept
<1>4. CASE ctx[freeing].ref # 1
  <2>1. ctx' = [ctx EXCEPT ![freeing].ref = @ - 1] /\ freeing' = Nil
    BY <1>4 DEF ContextFree
  <2>2. \A c \in Ctx : CtxKept(c) /\ ctx'[c].ref = IF c = freeing THEN ctx[c].ref - 1 ELSE ctx[c].ref
    <3>1. \A c \in Ctx : ctx[c] \in CtxCellI
      BY CellTypes
    <3> QED BY <1>1, <2>1, <3>1 DEF CtxKept, CtxCellI
  <2>3. PrevKept /\ PoolKept
    <3>1. \A c \in Ctx : ctx'[c].ref = 0 => ctx[c].ref = 0
      BY <1>2, <1>4, <2>2
    <3> QED BY <2>2, <3>1 DEF PrevKept, PoolKept, CtxKept
  <2>4. ASSUME NEW c \in Ctx PROVE ctx'[c].ref = Holders(c)'
    <3>1. FunctionsOf(c)' = FunctionsOf(c) /\ FramesOf(c)' = FramesOf(c) /\ ScopesIn(c)' = ScopesIn(c)
      BY <1>1, <2>3 DEF FunctionsOf, FramesOf, ScopesIn, PrevKept
    <3>5. /\ Cardinality(FramesOf(c)) \in Nat /\ Cardinality(FunctionsOf(c)) \in Nat /\ Cardinality(ScopesIn(c)) \in Nat
          /\ ctx[c].ref = Cardinality(FramesOf(c)) + Cardinality(FunctionsOf(c)) + Cardinality(ScopesIn(c))
                          + (IF c \in wbCtx THEN 1 ELSE 0) + (IF freeing = c THEN 1 ELSE 0)
      BY Parts DEF Counted
    <3>6. Cardinality((wbCtx \cap {c})') = IF c \in wbCtx THEN 1 ELSE 0
      BY <1>1, AtMostOne
    <3>7. freeing' # c
      BY <2>1, CollectorAssumption
    <3>8. Holders(c)' = Cardinality(FramesOf(c)) + Cardinality(FunctionsOf(c)) + Cardinality(ScopesIn(c))
                          + (IF c \in wbCtx THEN 1 ELSE 0) + 0
      BY <3>1, <3>6, <3>7 DEF Holders
    <3> QED BY <2>2, <3>5, <3>8
  <2>5. Counted'
    BY <2>4 DEF Counted
  <2> QED BY <1>4, <2>2, <2>3, <2>5, PoolSame
<1> QED BY <1>3, <1>4

(* The write barrier list lets go of a context.                            *)
LEMMA CheckCounted ==
  ASSUME Types, Counted, Pooled, Acyclic, NEW x \in wbCtx, CheckContext(x)
  PROVE  Counted' /\ Pooled' /\ Acyclic'
<1>1. x \in Ctx /\ wbCtx' = wbCtx \ {x} /\ freeing = Nil /\ freeing' = x /\ UNCHANGED <<obj, ctx, frames, desLog, dying>>
  BY DEF CheckContext, Idle, heapVars, rootVars, Types, ListTypes
<1>2. Pooled' /\ Acyclic'
  BY <1>1 DEF Pooled, Acyclic
<1>3. ASSUME NEW c \in Ctx PROVE ctx'[c].ref = Holders(c)'
  <2>1. FunctionsOf(c)' = FunctionsOf(c) /\ FramesOf(c)' = FramesOf(c) /\ ScopesIn(c)' = ScopesIn(c)
    BY <1>1 DEF FunctionsOf, FramesOf, ScopesIn
  <2>2. /\ Cardinality(FramesOf(c)) \in Nat /\ Cardinality(FunctionsOf(c)) \in Nat /\ Cardinality(ScopesIn(c)) \in Nat
        /\ ctx[c].ref = Cardinality(FramesOf(c)) + Cardinality(FunctionsOf(c)) + Cardinality(ScopesIn(c))
                          + (IF c \in wbCtx THEN 1 ELSE 0) + (IF freeing = c THEN 1 ELSE 0)
    BY Parts DEF Counted
  <2>3. Cardinality((wbCtx \cap {c})') = IF c \in wbCtx' THEN 1 ELSE 0
    BY AtMostOne
  <2>4. Holders(c)' = Cardinality(FramesOf(c)) + Cardinality(FunctionsOf(c)) + Cardinality(ScopesIn(c))
                          + (IF c \in wbCtx' THEN 1 ELSE 0) + (IF freeing' = c THEN 1 ELSE 0)
    BY <2>1, <2>3 DEF Holders
  <2>5. freeing # c
    BY <1>1, CollectorAssumption
  <2> QED BY <1>1, <2>2, <2>4, <2>5
<1> QED BY <1>2, <1>3 DEF Counted

(* A function object is destructed.                                        *)
LEMMA DestructCounted ==
  ASSUME Types, Counted, Pooled, Acyclic, NEW x \in dying, Destruct(x), dying \cap desLog = {}, obj[x].scope # Nil
  PROVE  Counted' /\ Pooled' /\ Acyclic'
<1>1. dying' = dying \ {x} /\ freeing = Nil /\ freeing' = obj[x].scope /\ UNCHANGED <<obj, ctx, frames, desLog, wbCtx>>
  BY DEF Destruct, heapVars, rootVars, wbVars
<1>2. Pooled' /\ Acyclic'
  BY <1>1 DEF Pooled, Acyclic
<1>3. ASSUME NEW c \in Ctx PROVE ctx'[c].ref = Holders(c)'
  <2>1. FramesOf(c)' = FramesOf(c) /\ ScopesIn(c)' = ScopesIn(c)
    BY <1>1 DEF FramesOf, ScopesIn
  <2>2. /\ Cardinality(FramesOf(c)) \in Nat /\ Cardinality(FunctionsOf(c)) \in Nat /\ Cardinality(ScopesIn(c)) \in Nat
        /\ ctx[c].ref = Cardinality(FramesOf(c)) + Cardinality(FunctionsOf(c)) + Cardinality(ScopesIn(c))
                          + (IF c \in wbCtx THEN 1 ELSE 0) + (IF freeing = c THEN 1 ELSE 0)
    BY Parts DEF Counted
  <2>3. FunctionsOf(c)' = IF c = obj[x].scope THEN FunctionsOf(c) \ {x} ELSE FunctionsOf(c)
    BY <1>1 DEF FunctionsOf
  <2>4. c = obj[x].scope => x \in FunctionsOf(c)
    BY DEF FunctionsOf
  <2>5. Cardinality(FunctionsOf(c)') = IF c = obj[x].scope THEN Cardinality(FunctionsOf(c)) - 1 ELSE Cardinality(FunctionsOf(c))
    BY <2>3, <2>4, Parts, OneLess
  <2>6. Cardinality((wbCtx \cap {c})') = IF c \in wbCtx THEN 1 ELSE 0
    BY <1>1, AtMostOne
  <2>7. Holders(c)' = Cardinality(FramesOf(c)) + Cardinality(FunctionsOf(c)') + Cardinality(ScopesIn(c))
                          + (IF c \in wbCtx THEN 1 ELSE 0) + (IF freeing' = c THEN 1 ELSE 0)
    BY <2>1, <2>6 DEF Holders
  <2>8. freeing # c
    BY <1>1, CollectorAssumption
  <2> QED BY <1>1, <2>2, <2>5, <2>7, <2>8
<1> QED BY <1>2, <1>3 DEF Counted

(* The destructor log is exchanged for that of the survivors: each entry   *)
(* is still there, as itself or as its copy.                               *)
LEMMA TriggerCounted ==
  ASSUME Types, Counted, Pooled, Acyclic, TriggerDestructor, dying = {},
         \A a, b \in desLog : a[1] = b[1] => a = b,
         \A a \in desLog : obj[a].live,
         Copies
  PROVE  Counted' /\ Pooled' /\ Acyclic'
<1> DEFINE h(a) == IF Dies(a) THEN a ELSE IF Copied(a) THEN To(a) ELSE a
<1>1. /\ UNCHANGED <<obj, ctx, frames, wbCtx, freeing>>
      /\ dying' = {a \in desLog : Dies(a)}
      /\ desLog' = {IF Copied(a) THEN To(a) ELSE a : a \in {b \in desLog : ~ Dies(b)}}
  BY DEF TriggerDestructor, heapVars, rootVars, wbVars, workVars
<1>2. Pooled' /\ Acyclic'
  BY <1>1 DEF Pooled, Acyclic
<1>3. desLog \subseteq ObjAddr
  BY DEF Types, ListTypes
<1>4. desLog' \cup dying' = {h(a) : a \in desLog}
  BY <1>1
<1>5. \A a \in desLog : h(a) \in ObjAddr /\ h(a)[1] = a[1] /\ obj[h(a)].scope = obj[a].scope
  <2> SUFFICES ASSUME NEW a \in desLog PROVE h(a) \in ObjAddr /\ h(a)[1] = a[1] /\ obj[h(a)].scope = obj[a].scope
    OBVIOUS
  <2>1. To(a) \in ObjAddr /\ To(a)[1] = a[1]
    BY <1>3, ForwardTypes DEF To
  <2>2. Copied(a) => obj[To(a)].scope = obj[a].scope
    BY <1>3, <2>1 DEF Copies, SameObj, Copied
  <2> QED BY <1>3, <2>1, <2>2
<1>6. ASSUME NEW c \in Ctx PROVE ctx'[c].ref = Holders(c)'
  <2>1. FramesOf(c)' = FramesOf(c) /\ ScopesIn(c)' = ScopesIn(c)
    BY <1>1 DEF FramesOf, ScopesIn
  <2> DEFINE S == FunctionsOf(c)
             T == FunctionsOf(c)'
             f == [a \in S |-> h(a)]
  <2>2. S = {a \in desLog : obj[a].scope = c}
    BY DEF FunctionsOf
  <2>3. T = {b \in desLog' \cup dying' : obj[b].scope = c}
    BY <1>1 DEF FunctionsOf
  <2> HIDE DEF h, S, T
  <2>4. f \in [S -> T]
    BY <1>4, <1>5, <2>2, <2>3
  <2>5. \A a, b \in S : f[a] = f[b] => a = b
    BY <1>5, <2>2
  <2>6. \A b \in T : \E a \in S : f[a] = b
    BY <1>4, <1>5, <2>2, <2>3
  <2>7. f \in Bijection(S, T)
    BY <2>4, <2>5, <2>6 DEF Bijection, Injection, Surjection, IsInjective
  <2>8. ExistsBijection(S, T)
    BY <2>7 DEF ExistsBijection
  <2>9. IsFiniteSet(S)
    BY Parts DEF S
  <2>10. Cardinality(T) = Cardinality(S)
    BY <2>8, <2>9, FS_Bijection
  <2>11. Cardinality(FunctionsOf(c)') = Cardinality(FunctionsOf(c))
    BY <2>10 DEF S, T
  <2> QED BY <1>1, <2>1, <2>11 DEF Holders, Counted
<1> QED BY <1>2, <1>6 DEF Counted

(***************************************************************************)
(* Steps of a collection.                                                  *)
(***************************************************************************)

(* The invariant while a collection lasts.                                 *)
Collecting == phase # "run" /\ Types /\ Heap /\ CellRefs /\ CtxRefs /\ Reachable

(* A live cell is forwarded to arg.heap, where an old cell of a partial    *)
(* collection is already.                                                  *)
LEMMA Forward ==
  ASSUME Types, Generations
  PROVE  /\ \A a \in ObjAddr : obj[a].live =>
              /\ ForwardObj(a) = To(a)
              /\ FindObj(a) = IF obj[To(a)].live THEN {} ELSE {a}
              /\ a[2] = to => To(a) = a
         /\ \A t \in TabAddr : tab[t].live =>
              /\ ForwardTab(t) = To(t)
              /\ FindTab(t) = IF tab[To(t)].live THEN {} ELSE {t}
              /\ t[2] = to => To(t) = t
         /\ ForwardObj(Nil) = Nil /\ FindObj(Nil) = {} /\ ForwardTab(Nil) = Nil /\ FindTab(Nil) = {}
         /\ \A a \in ObjAddr : To(a) \in ObjAddr /\ To(a)[1] = a[1] /\ To(a)[2] = to
         /\ \A t \in TabAddr : To(t) \in TabAddr /\ To(t)[1] = t[1] /\ To(t)[2] = to
<1>1. /\ \A a \in ObjAddr : To(a) \in ObjAddr /\ To(a)[1] = a[1] /\ To(a)[2] = to
      /\ \A t \in TabAddr : To(t) \in TabAddr /\ To(t)[1] = t[1] /\ To(t)[2] = to
  BY ForwardTypes DEF To
<1>2. /\ \A a \in ObjAddr : a[2] = to => To(a) = a
      /\ \A t \in TabAddr : t[2] = to => To(t) = t
  BY Addresses DEF To
<1>3. ASSUME NEW g, NEW s, InHeap(g, s), ~ Full, g = 1 PROVE s = to
  BY <1>3, Heaps DEF InHeap
<1>4. ASSUME NEW a \in ObjAddr, obj[a].live
      PROVE  ForwardObj(a) = To(a) /\ FindObj(a) = IF obj[To(a)].live THEN {} ELSE {a}
  <2>1. a # Nil
    BY Addresses
  <2>2. CASE Stays(obj[a])
    <3>1. a[2] = to
      BY <1>3, <1>4, <2>2 DEF Stays, Generations
    <3> QED BY <1>2, <1>4, <2>2, <3>1 DEF ForwardObj, FindObj
  <2>3. CASE ~ Stays(obj[a])
    BY <2>1, <2>3 DEF ForwardObj, FindObj
  <2> QED BY <2>2, <2>3
<1>5. ASSUME NEW t \in TabAddr, tab[t].live
      PROVE  ForwardTab(t) = To(t) /\ FindTab(t) = IF tab[To(t)].live THEN {} ELSE {t}
  <2>1. t # Nil
    BY Addresses
  <2>2. CASE Stays(tab[t])
    <3>1. t[2] = to
      BY <1>3, <1>5, <2>2 DEF Stays, Generations
    <3> QED BY <1>2, <1>5, <2>2, <3>1 DEF ForwardTab, FindTab
  <2>3. CASE ~ Stays(tab[t])
    BY <2>1, <2>3 DEF ForwardTab, FindTab
  <2> QED BY <2>2, <2>3
<1>6. ForwardObj(Nil) = Nil /\ FindObj(Nil) = {} /\ ForwardTab(Nil) = Nil /\ FindTab(Nil) = {}
  BY DEF ForwardObj, FindObj, ForwardTab, FindTab
<1> QED BY <1>1, <1>2, <1>4, <1>5, <1>6

(* What is found is a live cell without copy, and has not arg.heap as its  *)
(* space.                                                                  *)
LEMMA Found ==
  ASSUME Types, Generations
  PROVE  /\ \A x \in ObjRef : ObjOk(x) => \A a \in FindObj(x) : a = x /\ a \in ObjAddr /\ obj[a].live /\ a[2] # to /\ ~ obj[To(a)].live
         /\ \A x \in TabRef : TabOk(x) => \A t \in FindTab(x) : t = x /\ t \in TabAddr /\ tab[t].live /\ t[2] # to /\ ~ tab[To(t)].live
         /\ \A x \in ObjRef : ObjOk(x) => Id(ForwardObj(x)) = Id(x)
         /\ \A x \in TabRef : TabOk(x) => Id(ForwardTab(x)) = Id(x)
<1>1. /\ \A x \in ObjRef : x = Nil \/ x \in ObjAddr
      /\ \A x \in TabRef : x = Nil \/ x \in TabAddr
  BY DEF ObjRef, TabRef
<1>2. ASSUME NEW x \in ObjRef, ObjOk(x)
      PROVE  /\ \A a \in FindObj(x) : a = x /\ a \in ObjAddr /\ obj[a].live /\ a[2] # to /\ ~ obj[To(a)].live
             /\ Id(ForwardObj(x)) = Id(x)
  <2>1. CASE x = Nil
    BY <2>1, Forward
  <2>2. CASE x # Nil
    <3>1. x \in ObjAddr /\ obj[x].live
      BY <1>1, <1>2, <2>2 DEF ObjOk
    <3>2. ForwardObj(x) = To(x) /\ To(x) # Nil /\ To(x)[1] = x[1]
      BY <3>1, Forward, Addresses
    <3>3. Id(ForwardObj(x)) = Id(x)
      BY <2>2, <3>2 DEF Id
    <3> QED BY <3>1, <3>3, Forward
  <2> QED BY <2>1, <2>2
<1>3. ASSUME NEW x \in TabRef, TabOk(x)
      PROVE  /\ \A a \in FindTab(x) : a = x /\ a \in TabAddr /\ tab[a].live /\ a[2] # to /\ ~ tab[To(a)].live
             /\ Id(ForwardTab(x)) = Id(x)
  <2>1. CASE x = Nil
    BY <2>1, Forward
  <2>2. CASE x # Nil
    <3>1. x \in TabAddr /\ tab[x].live
      BY <1>1, <1>3, <2>2 DEF TabOk
    <3>2. ForwardTab(x) = To(x) /\ To(x) # Nil /\ To(x)[1] = x[1]
      BY <3>1, Forward, Addresses
    <3>3. Id(ForwardTab(x)) = Id(x)
      BY <2>2, <3>2 DEF Id
    <3> QED BY <3>1, <3>3, Forward
  <2> QED BY <2>1, <2>2
<1> QED BY <1>2, <1>3

(* A forwarded reference that has been kept for copying, or was copied.    *)
Grows ==
  /\ to' = to
  /\ \A a \in ObjAddr : obj[a].live => obj'[a].live
  /\ \A t \in TabAddr : tab[t].live => tab'[t].live
  /\ \A a \in todoObj : a \in todoObj' \/ obj'[To(a)].live
  /\ \A t \in todoTab : t \in todoTab' \/ tab'[To(t)].live

(* What is copied or waits to be copied stays so while a collection adds   *)
(* cells.                                                                  *)
LEMMA HereKept ==
  ASSUME Types, Grows
  PROVE  /\ \A x \in ObjRef : ObjHere(x) => ObjHere(x)'
         /\ \A x \in TabRef : TabHere(x) => TabHere(x)'
<1>1. ASSUME NEW x \in ObjRef, ObjHere(x) PROVE ObjHere(x)'
  <2>1. x = Nil \/ x \in ObjAddr
    BY DEF ObjRef
  <2>2. \A a \in todoObj : a[1] = x[1] /\ x[2] = to /\ x \in ObjAddr => To(a) = x
    BY Addresses DEF To
  <2> QED BY <1>1, <2>1, <2>2 DEF ObjHere, Grows
<1>2. ASSUME NEW x \in TabRef, TabHere(x) PROVE TabHere(x)'
  <2>1. x = Nil \/ x \in TabAddr
    BY DEF TabRef
  <2>2. \A a \in todoTab : a[1] = x[1] /\ x[2] = to /\ x \in TabAddr => To(a) = x
    BY Addresses DEF To
  <2> QED BY <1>2, <2>1, <2>2 DEF TabHere, Grows
<1> QED BY <1>1, <1>2

(* What a forwarded reference means is copied or waits to be copied.       *)
LEMMA ForwardHere ==
  ASSUME Types, Generations, Grows
  PROVE  /\ \A x \in ObjRef : \A y : ObjOk(x) /\ y = ForwardObj(x) /\ (\A a \in FindObj(x) : a \in todoObj' \/ obj'[To(a)].live)
              => ObjHere(y)'
         /\ \A x \in TabRef : \A y : TabOk(x) /\ y = ForwardTab(x) /\ (\A t \in FindTab(x) : t \in todoTab' \/ tab'[To(t)].live)
              => TabHere(y)'
<1>1. ASSUME NEW x \in ObjRef, NEW y, ObjOk(x), y = ForwardObj(x), \A a \in FindObj(x) : a \in todoObj' \/ obj'[To(a)].live
      PROVE  ObjHere(y)'
  <2>1. CASE x = Nil
    BY <1>1, <2>1, Forward DEF ObjHere
  <2>2. CASE x # Nil
    <3>1. x \in ObjAddr /\ obj[x].live
      BY <1>1, <2>2 DEF ObjRef, ObjOk
    <3>2. y = To(x) /\ y \in ObjAddr /\ y[2] = to /\ y[1] = x[1]
      BY <1>1, <3>1, Forward
    <3>3. CASE obj[y].live
      BY <3>2, <3>3 DEF ObjHere, Grows
    <3>4. CASE ~ obj[y].live
      <4>1. x \in FindObj(x)
        BY <3>1, <3>2, <3>4, Forward
      <4> QED BY <1>1, <3>2, <4>1 DEF ObjHere, Grows
    <3> QED BY <3>3, <3>4
  <2> QED BY <2>1, <2>2
<1>2. ASSUME NEW x \in TabRef, NEW y, TabOk(x), y = ForwardTab(x), \A a \in FindTab(x) : a \in todoTab' \/ tab'[To(a)].live
      PROVE  TabHere(y)'
  <2>1. CASE x = Nil
    BY <1>2, <2>1, Forward DEF TabHere
  <2>2. CASE x # Nil
    <3>1. x \in TabAddr /\ tab[x].live
      BY <1>2, <2>2 DEF TabRef, TabOk
    <3>2. y = To(x) /\ y \in TabAddr /\ y[2] = to /\ y[1] = x[1]
      BY <1>2, <3>1, Forward
    <3>3. CASE tab[y].live
      BY <3>2, <3>3 DEF TabHere, Grows
    <3>4. CASE ~ tab[y].live
      <4>1. x \in FindTab(x)
        BY <3>1, <3>2, <3>4, Forward
      <4> QED BY <1>2, <3>2, <4>1 DEF TabHere, Grows
    <3> QED BY <3>3, <3>4
  <2> QED BY <2>1, <2>2
<1> QED BY <1>1, <1>2

(* A context that has been found will be reached.                          *)
LEMMA FoundReached ==
  ASSUME Types, NEW c \in Ctx
  PROVE  c \in FindCtx(c) \/ Settled(c)
<1>1. ctx[c].gen \in {0, 1} /\ gcGen \in {0, 1} /\ c # Nil
  BY CellTypes, Addresses DEF Types, WorkTypes, Bit
<1> QED BY <1>1 DEF FindCtx, Settled, Full

(* Contexts are looked for one at a time, and never again.                 *)
LEMMA FindCtxOnly == \A c : \A d \in FindCtx(c) : d = c /\ c # Nil /\ c \notin visited
BY DEF FindCtx

(* copyObject_c.                                                           *)
LEMMA CopyObjectKeeps ==
  ASSUME Collecting, Types', NEW a \in todoObj, CopyObject(a)
  PROVE  Collecting'
<1> DEFINE x == To(a)
           c == [MovedObj(obj[a]) EXCEPT !.gen = 1]
<1>0. /\ Types /\ Generations /\ Unique /\ Phases /\ Work /\ Copies /\ Lists /\ Logged
      /\ CellRefs /\ CtxRefs /\ Reachable /\ phase # "run"
  BY DEF Collecting, Heap
<1>1. /\ a \in ObjAddr /\ x \in ObjAddr /\ x[1] = a[1] /\ x[2] = to /\ obj[a].live /\ a[2] # to /\ ~ obj[x].live
      /\ obj[a] \in ObjCell
  BY <1>0, Forward, CellTypes DEF Types, WorkTypes, Work
<1>2. /\ tab' = tab /\ ctx' = ctx /\ stack' = stack /\ frames' = frames /\ wbObj' = wbObj /\ wbSlot' = wbSlot
      /\ wbCtx' = wbCtx /\ desLog' = desLog /\ old' = old /\ gcGen' = gcGen /\ phase' = phase
      /\ visited' = visited /\ dying' = dying /\ freeing' = freeing /\ to' = to /\ Full' = Full
      /\ todoObj' = (todoObj \ {a}) \cup (FindObj(obj[a].proto) \ {a})
      /\ todoTab' = todoTab \cup FindTab(obj[a].slots)
      /\ todoCtx' = todoCtx \cup FindCtx(obj[a].scope)
      /\ obj' = [obj EXCEPT ![x] = c]
  BY DEF CopyObject, rootVars, wbVars, to, Full
<1>3. PICK e \in ObjCell : e = c
  <2>1. FALSE \in BOOLEAN
    OBVIOUS
  <2> QED BY <1>0, <1>1, ForwardTypes, CellTypes DEF MovedObj, ObjCell, Bit
<1>e. /\ e.live /\ e.gen = 1 /\ ~ e.wb /\ e.slots = ForwardTab(obj[a].slots) /\ e.proto = ForwardObj(obj[a].proto)
      /\ e.scope = obj[a].scope /\ obj' = [obj EXCEPT ![x] = e]
  BY <1>1, <1>2, <1>3 DEF MovedObj, ObjCell
<1> HIDE DEF x, c
<1>4. /\ obj'[x] = e /\ \A b \in ObjAddr : b # x => obj'[b] = obj[b]
  BY <1>0, <1>1, <1>e DEF Types, HeapTypes
<1>5. \A b \in ObjAddr : obj'[b].live <=> obj[b].live \/ b = x
  BY <1>1, <1>e, <1>4
<1>6. /\ TabOk(obj[a].slots) /\ ObjOk(obj[a].proto) /\ obj[a].slots \in TabRef /\ obj[a].proto \in ObjRef
      /\ obj[a].scope \in CtxRef
  BY <1>0, <1>1, CellTypes DEF CellRefs
<1>7. \A b \in todoObj : b # a => To(b) # x
  BY <1>0, <1>1, Forward DEF Unique, Source, Work, Types, WorkTypes
<1>8. Grows
  <2>1. \A b \in todoObj : b \in todoObj' \/ obj'[To(b)].live
    BY <1>1, <1>2, <1>5 DEF x
  <2> QED BY <1>2, <1>5, <2>1 DEF Grows
<1>9. /\ \A y \in ObjRef : ObjHere(y) => ObjHere(y)'
      /\ \A y \in TabRef : TabHere(y) => TabHere(y)'
      /\ TabHere(e.slots)' /\ ObjHere(e.proto)'
  <2>1. \A b \in FindObj(obj[a].proto) : b \in todoObj' \/ obj'[To(b)].live
    BY <1>1, <1>2, <1>5 DEF x
  <2>2. \A t \in FindTab(obj[a].slots) : t \in todoTab'
    BY <1>2
  <2> QED BY <1>0, <1>e, <1>6, <1>8, <2>1, <2>2, HereKept, ForwardHere
<1>10. /\ \A y \in ObjRef : ObjOk(y) => ObjOk(y)'
       /\ \A y \in TabRef : TabOk(y) => TabOk(y)'
  BY <1>2, <1>5 DEF ObjRef, TabRef, ObjOk, TabOk
<1>11. Generations'
  <2>1. \A s : s = to => InHeap(1, s)'
    BY <1>0, <1>2, Heaps DEF InHeap
  <2>2. \A g, s : InHeap(g, s) => InHeap(g, s)'
    BY <1>2 DEF InHeap
  <2>3. \A b \in ObjAddr : obj'[b].live => InHeap(obj[b].gen, b[2])'
    BY <1>0, <1>1, <1>e, <1>4, <1>5, <2>1, <2>2 DEF Generations
  <2>4. \A t \in TabAddr : tab'[t].live => InHeap(tab[t].gen, t[2])'
    BY <1>0, <1>2, <2>2 DEF Generations
  <2> QED BY <2>3, <2>4 DEF Generations
<1>12. Unique'
  BY <1>0, <1>1, <1>2, <1>5 DEF Unique, Source
<1>13. Phases'
  <2>1. FindCtx(obj[a].scope) \cap visited = {}
    BY FindCtxOnly
  <2> QED BY <1>0, <1>2, <2>1 DEF Phases
<1>14. Work'
  <2>1. \A b : To(b)' = To(b)
    BY <1>2 DEF To
  <2>2. \A b \in todoObj' : obj'[b].live /\ b[2] # to /\ ~ obj'[To(b)].live
    <3>1. ASSUME NEW b \in todoObj, b # a PROVE obj'[b].live /\ b[2] # to /\ ~ obj'[To(b)].live
      BY <1>0, <1>5, <1>7, <3>1, Forward DEF Work, Types, WorkTypes
    <3>2. ASSUME NEW b \in FindObj(obj[a].proto), b # a PROVE obj'[b].live /\ b[2] # to /\ ~ obj'[To(b)].live
      <4>1. b \in ObjAddr /\ obj[b].live /\ b[2] # to /\ ~ obj[To(b)].live
        BY <1>0, <1>6, <3>2, Found
      <4>2. To(b) # x
        BY <1>0, <1>1, <3>2, <4>1, Forward DEF Unique, Source
      <4> QED BY <1>0, <1>5, <4>1, <4>2, Forward
    <3> QED BY <1>2, <3>1, <3>2
  <2>3. \A t \in todoTab' : tab'[t].live /\ t[2] # to /\ ~ tab'[To(t)].live
    BY <1>0, <1>2, <1>6, Found DEF Work
  <2> QED BY <1>2, <2>1, <2>2, <2>3 DEF Work
<1>15. Copies'
  <2>1. SameObj(e, obj[a]) /\ SameObj(obj[a], e)
    BY <1>0, <1>e, <1>6, Found DEF SameObj, SameId
  <2>2. ASSUME NEW b \in ObjAddr, obj[b].live, b[1] = x[1] PROVE SameObj(e, obj[b]) /\ SameObj(obj[b], e)
    <3>1. SameObj(obj[a], obj[b])
      BY <1>0, <1>1, <2>2 DEF Copies
    <3> QED BY <2>1, <3>1 DEF SameObj, SameId
  <2>3. SameObj(e, e)
    BY DEF SameObj, SameId
  <2>4. \A b, d \in ObjAddr : obj'[b].live /\ obj'[d].live /\ b[1] = d[1] => SameObj(obj'[b], obj'[d])
    BY <1>0, <1>4, <1>5, <2>2, <2>3 DEF Copies
  <2> QED BY <1>0, <1>2, <2>4 DEF Copies
<1>16. Lists'
  <2>1. x \notin wbObj
    BY <1>0, <1>1 DEF Lists
  <2>2. wbObj \subseteq ObjAddr
    BY <1>0 DEF Types, ListTypes
  <2> QED BY <1>0, <1>2, <1>e, <1>4, <1>5, <2>1, <2>2 DEF Lists
<1>17. Logged'
  <2>0. \A b : To(b)' = To(b)
    BY <1>2 DEF To
  <2>1. /\ Functions \subseteq Functions'
        /\ \A b \in Functions' : b \in Functions \/ (b = x /\ a \in Functions)
    BY <1>1, <1>e, <1>4, <1>5 DEF Functions
  <2>2. phase \in {"roots", "barrier"}
    BY <1>0 DEF Phases, Types, WorkTypes
  <2>3. a \in Functions => a \in desLog
    BY <1>0, <1>1, <2>2, Forward DEF Logged, Types, ListTypes
  <2>4. \A b \in Functions' : b \in desLog \/ \E d \in desLog : d # b /\ To(d) = b
    BY <1>0, <1>1, <2>1, <2>2, <2>3 DEF Logged, x
  <2> QED BY <1>0, <1>2, <2>0, <2>1, <2>2, <2>4 DEF Logged
<1>18. CellRefs'
  <2>1. \A b \in stack' : ObjHere(b)'
    BY <1>0, <1>2, <1>9 DEF CellRefs, Types, RootTypes, ObjRef
  <2>2. \A b \in ObjAddr : obj'[b].live /\ b[2] # to => TabOk(obj[b].slots)' /\ ObjOk(obj[b].proto)'
    BY <1>0, <1>1, <1>4, <1>5, <1>10, CellTypes DEF CellRefs
  <2>3. \A t \in TabAddr : tab'[t].live /\ t[2] # to => \A k \in Key : ObjOk(tab[t].val[k])'
    BY <1>0, <1>2, <1>10, CellTypes DEF CellRefs
  <2>4. \A b \in ObjAddr : obj'[b].live /\ b[2] = to =>
       \/ TabHere(obj[b].slots)' /\ ObjHere(obj[b].proto)'
       \/ phase = "roots" /\ b \in wbObj /\ TabOk(obj[b].slots)' /\ ObjOk(obj[b].proto)'
    BY <1>0, <1>4, <1>5, <1>9, <1>10, CellTypes DEF CellRefs
  <2>5. \A t \in TabAddr : tab'[t].live /\ t[2] = to =>
       \/ \A k \in Key : ObjHere(tab[t].val[k])'
       \/ phase = "roots" /\ t \in wbSlot /\ \A k \in Key : ObjOk(tab[t].val[k])'
    BY <1>0, <1>2, <1>9, <1>10, CellTypes DEF CellRefs
  <2> QED BY <1>2, <2>1, <2>2, <2>3, <2>4, <2>5 DEF CellRefs
<1>19. CtxRefs'
  BY <1>0, <1>2, <1>9, <1>10, CellTypes DEF CtxRefs, InTo, Types, WorkTypes
<1>20. Reachable'
  <2>1. /\ \A d : Settled(d)' <=> Settled(d)
        /\ \A d : Reached(d) => Reached(d)'
    BY <1>2 DEF Settled, Reached
  <2>2. obj[a].scope # Nil => Reached(obj[a].scope)'
    BY <1>0, <1>1, <1>2, <1>4, <1>6, <2>1, FoundReached DEF Reached, CtxRef
  <2>3. \A b \in ObjAddr : obj'[b].live /\ b[2] = to /\ obj'[b].scope # Nil => Reached(obj[b].scope)'
    BY <1>0, <1>e, <1>4, <1>5, <2>1, <2>2 DEF Reachable
  <2> QED BY <1>0, <1>2, <2>1, <2>3 DEF Reachable
<1>21. phase' # "run"
  BY <1>0, <1>2
<1> QED BY <1>11, <1>12, <1>13, <1>14, <1>15, <1>16, <1>17, <1>18, <1>19, <1>20, <1>21 DEF Collecting, Heap

(* copySlotTable_c.                                                        *)
LEMMA CopySlotTableKeeps ==
  ASSUME Collecting, Types', NEW a \in todoTab, CopySlotTable(a)
  PROVE  Collecting'
<1> DEFINE x == To(a)
           c == [MovedTab(tab[a]) EXCEPT !.gen = 1, !.wb = FALSE]
<1>0. /\ Types /\ Generations /\ Unique /\ Phases /\ Work /\ Copies /\ Lists /\ Logged
      /\ CellRefs /\ CtxRefs /\ Reachable /\ phase # "run"
  BY DEF Collecting, Heap
<1>1. /\ a \in TabAddr /\ x \in TabAddr /\ x[1] = a[1] /\ x[2] = to /\ tab[a].live /\ a[2] # to /\ ~ tab[x].live
      /\ tab[a] \in TabCell
  BY <1>0, Forward, CellTypes DEF Types, WorkTypes, Work
<1>2. /\ obj' = obj /\ ctx' = ctx /\ stack' = stack /\ frames' = frames /\ wbObj' = wbObj /\ wbSlot' = wbSlot
      /\ wbCtx' = wbCtx /\ desLog' = desLog /\ old' = old /\ gcGen' = gcGen /\ phase' = phase
      /\ visited' = visited /\ dying' = dying /\ freeing' = freeing /\ to' = to /\ Full' = Full
      /\ todoObj = {} /\ todoCtx' = todoCtx
      /\ todoTab' = todoTab \ {a}
      /\ todoObj' = UNION {FindObj(v) : v \in Values(tab[a])}
      /\ tab' = [tab EXCEPT ![x] = c]
  BY DEF CopySlotTable, rootVars, wbVars, to, Full
<1>3. PICK e \in TabCell : e = c
  <2>1. MovedTab(tab[a]) \in TabCell
    BY <1>0, <1>1, ForwardTypes
  <2>2. PICK m \in TabCell : m = MovedTab(tab[a])
    BY <2>1
  <2>3. [m EXCEPT !.gen = 1, !.wb = FALSE] \in TabCell
    BY DEF TabCell, Bit
  <2> QED BY <2>2, <2>3
<1>e. /\ e.live /\ e.gen = 1 /\ ~ e.wb /\ e.shared = tab[a].shared /\ e.nocow = tab[a].nocow
      /\ \A k \in Key : e.val[k] = ForwardObj(tab[a].val[k])
      /\ tab' = [tab EXCEPT ![x] = e]
  BY <1>1, <1>2, <1>3 DEF MovedTab, TabCell
<1> HIDE DEF x, c
<1>4. /\ tab'[x] = e /\ \A b \in TabAddr : b # x => tab'[b] = tab[b]
  BY <1>0, <1>1, <1>e DEF Types, HeapTypes
<1>5. \A b \in TabAddr : tab'[b].live <=> tab[b].live \/ b = x
  BY <1>1, <1>e, <1>4
<1>6. \A k \in Key : /\ ObjOk(tab[a].val[k]) /\ tab[a].val[k] \in ObjRef /\ e.val[k] \in ObjRef
                     /\ FindObj(tab[a].val[k]) \subseteq todoObj'
  <2>1. ASSUME NEW k \in Key PROVE FindObj(tab[a].val[k]) \subseteq todoObj'
    <3>1. CASE tab[a].val[k] = Nil
      BY <1>0, <3>1, Forward
    <3>2. CASE tab[a].val[k] # Nil
      BY <1>2, <3>2 DEF Values
    <3> QED BY <3>1, <3>2
  <2> QED BY <1>0, <1>1, <2>1, CellTypes DEF CellRefs, TabCell
<1>7. \A b \in todoTab : b # a => To(b) # x
  BY <1>0, <1>1, Forward DEF Unique, Source, Work, Types, WorkTypes
<1>8. Grows
  <2>1. \A b \in todoTab : b \in todoTab' \/ tab'[To(b)].live
    BY <1>1, <1>2, <1>5 DEF x
  <2> QED BY <1>2, <1>5, <2>1 DEF Grows
<1>9. /\ \A y \in ObjRef : ObjHere(y) => ObjHere(y)'
      /\ \A y \in TabRef : TabHere(y) => TabHere(y)'
      /\ \A k \in Key : ObjHere(e.val[k])'
  <2>1. \A k \in Key : \A b \in FindObj(tab[a].val[k]) : b \in todoObj' \/ obj'[To(b)].live
    BY <1>6
  <2> QED BY <1>0, <1>e, <1>6, <1>8, <2>1, HereKept, ForwardHere
<1>10. /\ \A y \in ObjRef : ObjOk(y) => ObjOk(y)'
       /\ \A y \in TabRef : TabOk(y) => TabOk(y)'
  BY <1>2, <1>5 DEF ObjRef, TabRef, ObjOk, TabOk
<1>11. Generations'
  <2>1. \A s : s = to => InHeap(1, s)'
    BY <1>0, <1>2, Heaps DEF InHeap
  <2>2. \A g, s : InHeap(g, s) => InHeap(g, s)'
    BY <1>2 DEF InHeap
  <2>3. \A b \in TabAddr : tab'[b].live => InHeap(tab[b].gen, b[2])'
    BY <1>0, <1>1, <1>e, <1>4, <1>5, <2>1, <2>2 DEF Generations
  <2>4. \A t \in ObjAddr : obj'[t].live => InHeap(obj[t].gen, t[2])'
    BY <1>0, <1>2, <2>2 DEF Generations
  <2> QED BY <2>3, <2>4 DEF Generations
<1>12. Unique'
  BY <1>0, <1>1, <1>2, <1>5 DEF Unique, Source
<1>13. Phases'
  BY <1>0, <1>2 DEF Phases
<1>14. Work'
  <2>1. \A b : To(b)' = To(b)
    BY <1>2 DEF To
  <2>2. \A b \in todoTab' : tab'[b].live /\ b[2] # to /\ ~ tab'[To(b)].live
    BY <1>0, <1>2, <1>5, <1>7, Forward DEF Work, Types, WorkTypes
  <2>3. \A b \in todoObj' : obj'[b].live /\ b[2] # to /\ ~ obj'[To(b)].live
    <3>1. ASSUME NEW b \in todoObj' PROVE obj'[b].live /\ b[2] # to /\ ~ obj'[To(b)].live
      <4>1. PICK k \in Key : b \in FindObj(tab[a].val[k])
        BY <1>2 DEF Values
      <4> QED BY <1>0, <1>2, <1>6, <4>1, Found
    <3> QED BY <3>1
  <2> QED BY <1>2, <2>1, <2>2, <2>3 DEF Work
<1>15. Copies'
  <2>2. ASSUME NEW b \in TabAddr, tab[b].live, b[1] = x[1] PROVE SameTab(e, tab[b]) /\ SameTab(tab[b], e)
    <3>1. SameTab(tab[a], tab[b])
      BY <1>0, <1>1, <2>2 DEF Copies
    <3>2. \A k \in Key : Id(e.val[k]) = Id(tab[a].val[k])
      BY <1>0, <1>e, <1>6, Found
    <3> QED BY <1>e, <3>1, <3>2 DEF SameTab, SameId
  <2>3. SameTab(e, e)
    BY DEF SameTab, SameId
  <2>4. \A b, d \in TabAddr : tab'[b].live /\ tab'[d].live /\ b[1] = d[1] => SameTab(tab'[b], tab'[d])
    BY <1>0, <1>4, <1>5, <2>2, <2>3 DEF Copies
  <2> QED BY <1>0, <1>2, <2>4 DEF Copies
<1>16. Lists'
  <2>1. x \notin wbSlot
    BY <1>0, <1>1 DEF Lists
  <2>2. wbSlot \subseteq TabAddr
    BY <1>0 DEF Types, ListTypes
  <2> QED BY <1>0, <1>2, <1>e, <1>4, <1>5, <2>1, <2>2 DEF Lists
<1>17. Logged'
  <2>0. \A b : To(b)' = To(b)
    BY <1>2 DEF To
  <2>1. Functions' = Functions
    BY <1>2 DEF Functions
  <2> QED BY <1>0, <1>2, <2>0, <2>1 DEF Logged
<1>18. CellRefs'
  <2>1. \A b \in stack' : ObjHere(b)'
    BY <1>0, <1>2, <1>9 DEF CellRefs, Types, RootTypes, ObjRef
  <2>2. \A b \in ObjAddr : obj'[b].live /\ b[2] # to => TabOk(obj[b].slots)' /\ ObjOk(obj[b].proto)'
    BY <1>0, <1>2, <1>10, CellTypes DEF CellRefs
  <2>3. \A t \in TabAddr : tab'[t].live /\ t[2] # to => \A k \in Key : ObjOk(tab[t].val[k])'
    BY <1>0, <1>1, <1>4, <1>5, <1>10, CellTypes DEF CellRefs
  <2>4. \A b \in ObjAddr : obj'[b].live /\ b[2] = to =>
       \/ TabHere(obj[b].slots)' /\ ObjHere(obj[b].proto)'
       \/ phase = "roots" /\ b \in wbObj /\ TabOk(obj[b].slots)' /\ ObjOk(obj[b].proto)'
    BY <1>0, <1>2, <1>9, <1>10, CellTypes DEF CellRefs
  <2>5. \A t \in TabAddr : tab'[t].live /\ t[2] = to =>
       \/ \A k \in Key : ObjHere(tab[t].val[k])'
       \/ phase = "roots" /\ t \in wbSlot /\ \A k \in Key : ObjOk(tab[t].val[k])'
    BY <1>0, <1>4, <1>5, <1>9, <1>10, CellTypes DEF CellRefs
  <2> QED BY <1>2, <2>1, <2>2, <2>3, <2>4, <2>5 DEF CellRefs
<1>19. CtxRefs'
  BY <1>0, <1>2, <1>9, <1>10, CellTypes DEF CtxRefs, InTo, Types, WorkTypes
<1>20. Reachable'
  <2>1. /\ \A d : Settled(d)' <=> Settled(d)
        /\ \A d : Reached(d) <=> Reached(d)'
    BY <1>2 DEF Settled, Reached
  <2> QED BY <1>0, <1>2, <2>1 DEF Reachable
<1>21. phase' # "run"
  BY <1>0, <1>2
<1> QED BY <1>11, <1>12, <1>13, <1>14, <1>15, <1>16, <1>17, <1>18, <1>19, <1>20, <1>21 DEF Collecting, Heap

(* travSingleContext.                                                      *)
LEMMA TravContextKeeps ==
  ASSUME Collecting, Types', NEW x \in todoCtx, TravContext(x)
  PROVE  /\ Collecting'
         /\ Counted /\ Pooled /\ Acyclic => Counted' /\ Pooled' /\ Acyclic'
<1> DEFINE c == [ctx[x] EXCEPT !.gen = 1, !.wb = FALSE, !.slots = ForwardTab(@), !.obj = ForwardObj(@)]
<1>0. /\ Types /\ Generations /\ Unique /\ Phases /\ Work /\ Copies /\ Lists /\ Logged
      /\ CellRefs /\ CtxRefs /\ Reachable /\ phase # "run"
  BY DEF Collecting, Heap
<1>1. x \in Ctx /\ x \notin visited /\ ctx[x] \in CtxCellI
  BY <1>0, CellTypes DEF Types, WorkTypes, Phases
<1>2. /\ obj' = obj /\ tab' = tab /\ stack' = stack /\ frames' = frames /\ wbObj' = wbObj /\ wbSlot' = wbSlot
      /\ wbCtx' = wbCtx /\ desLog' = desLog /\ old' = old /\ gcGen' = gcGen /\ phase' = phase
      /\ dying' = dying /\ freeing' = freeing /\ to' = to /\ Full' = Full
      /\ todoObj = {} /\ todoTab = {} /\ visited' = visited \cup {x}
      /\ todoObj' = FindObj(ctx[x].obj) /\ todoTab' = FindTab(ctx[x].slots)
      /\ todoCtx' = (todoCtx \cup FindCtx(ctx[x].prev)) \ {x}
  BY DEF TravContext, rootVars, wbVars, to, Full
<1>3. PICK e : e = c
  OBVIOUS
<1>4. /\ e.gen = 1 /\ ~ e.wb /\ e.slots = ForwardTab(ctx[x].slots) /\ e.obj = ForwardObj(ctx[x].obj)
      /\ e.prev = ctx[x].prev /\ e.ref = ctx[x].ref /\ ctx' = [ctx EXCEPT ![x] = e]
  <2>1. ctx' = [ctx EXCEPT ![x] = c]
    BY DEF TravContext
  <2>2. e = [ctx[x] EXCEPT !.gen = 1, !.wb = FALSE, !.slots = ForwardTab(ctx[x].slots), !.obj = ForwardObj(ctx[x].obj)]
    BY <1>1, <1>3 DEF CtxCellI
  <2>3. ctx' = [ctx EXCEPT ![x] = e]
    BY <1>3, <2>1
  <2> QED BY <1>1, <2>2, <2>3 DEF CtxCellI
<1> HIDE DEF c
<1>5. ctx'[x] = e /\ \A d \in Ctx : d # x => ctx'[d] = ctx[d]
  BY <1>0, <1>1, <1>4 DEF Types, HeapTypes
<1>6. /\ TabOk(ctx[x].slots) /\ ObjOk(ctx[x].obj) /\ ctx[x].slots \in TabRef /\ ctx[x].obj \in ObjRef
      /\ ctx[x].prev \in CtxRef
  BY <1>0, <1>1, CellTypes DEF CtxRefs
<1>8. Grows
  BY <1>2 DEF Grows
<1>9. /\ \A y \in ObjRef : ObjHere(y) => ObjHere(y)'
      /\ \A y \in TabRef : TabHere(y) => TabHere(y)'
      /\ ObjHere(e.obj)' /\ TabHere(e.slots)'
  BY <1>0, <1>2, <1>4, <1>6, <1>8, HereKept, ForwardHere
<1>10. /\ \A y \in ObjRef : ObjOk(y) => ObjOk(y)'
       /\ \A y \in TabRef : TabOk(y) => TabOk(y)'
  BY <1>2 DEF ObjRef, TabRef, ObjOk, TabOk
<1>11. Generations' /\ Unique'
  BY <1>0, <1>2 DEF Generations, InHeap, Unique, Source
<1>13. Phases'
  <2>1. FindCtx(ctx[x].prev) \cap visited = {}
    BY FindCtxOnly
  <2> QED BY <1>0, <1>2, <2>1 DEF Phases
<1>14. Work'
  <2>1. \A b : To(b)' = To(b)
    BY <1>2 DEF To
  <2> QED BY <1>0, <1>2, <1>6, <2>1, Found DEF Work
<1>16. Copies' /\ Lists'
  BY <1>0, <1>2 DEF Lists, Copies
<1>17. Logged'
  <2>0. \A b : To(b)' = To(b)
    BY <1>2 DEF To
  <2>1. Functions' = Functions
    BY <1>2 DEF Functions
  <2> QED BY <1>0, <1>2, <2>0, <2>1 DEF Logged
<1>18. CellRefs'
  <2>1. \A b \in stack' : ObjHere(b)'
    BY <1>0, <1>2, <1>9 DEF CellRefs, Types, RootTypes, ObjRef
  <2>2. \A b \in ObjAddr : obj'[b].live /\ b[2] # to => TabOk(obj[b].slots)' /\ ObjOk(obj[b].proto)'
    BY <1>0, <1>2, <1>10, CellTypes DEF CellRefs
  <2>3. \A t \in TabAddr : tab'[t].live /\ t[2] # to => \A k \in Key : ObjOk(tab[t].val[k])'
    BY <1>0, <1>2, <1>10, CellTypes DEF CellRefs
  <2>4. \A b \in ObjAddr : obj'[b].live /\ b[2] = to =>
       \/ TabHere(obj[b].slots)' /\ ObjHere(obj[b].proto)'
       \/ phase = "roots" /\ b \in wbObj /\ TabOk(obj[b].slots)' /\ ObjOk(obj[b].proto)'
    BY <1>0, <1>2, <1>9, <1>10, CellTypes DEF CellRefs
  <2>5. \A t \in TabAddr : tab'[t].live /\ t[2] = to =>
       \/ \A k \in Key : ObjHere(tab[t].val[k])'
       \/ phase = "roots" /\ t \in wbSlot /\ \A k \in Key : ObjOk(tab[t].val[k])'
    BY <1>0, <1>2, <1>9, <1>10, CellTypes DEF CellRefs
  <2> QED BY <1>2, <2>1, <2>2, <2>3, <2>4, <2>5 DEF CellRefs
<1>19. CtxRefs'
  <2>1. \A d \in visited' : /\ TabHere(ctx[d].slots)' /\ ObjHere(ctx[d].obj)' /\ ~ ctx'[d].wb
                            /\ ctx'[d].ref # 0 => ctx'[d].gen = 1
    <3>1. \A d \in visited : /\ TabHere(ctx[d].slots)' /\ ObjHere(ctx[d].obj)' /\ ~ ctx'[d].wb
                             /\ ctx'[d].ref # 0 => ctx'[d].gen = 1
      BY <1>0, <1>1, <1>5, <1>9, CellTypes DEF CtxRefs, Types, WorkTypes
    <3>2. /\ TabHere(ctx[x].slots)' /\ ObjHere(ctx[x].obj)' /\ ~ ctx'[x].wb
          /\ ctx'[x].ref # 0 => ctx'[x].gen = 1
      BY <1>4, <1>5, <1>9
    <3> QED BY <1>2, <3>1, <3>2
  <2>2. \A d \in Ctx \ visited' :
          /\ TabOk(ctx[d].slots)' /\ ObjOk(ctx[d].obj)'
          /\ ~ Full /\ ctx'[d].gen = 1 /\ ~ ctx'[d].wb => InTo(ctx[d].slots)' /\ InTo(ctx[d].obj)'
    BY <1>0, <1>2, <1>5, <1>10, CellTypes DEF CtxRefs, InTo
  <2> QED BY <1>2, <2>1, <2>2 DEF CtxRefs
<1>20. Reachable'
  <2>1. /\ \A d \in Ctx : d # x => (Settled(d)' <=> Settled(d))
        /\ Settled(x)'
        /\ \A d \in Ctx : Reached(d) => Reached(d)'
    BY <1>1, <1>2, <1>5 DEF Settled, Reached
  <2>2. ctx'[x].prev # Nil => Reached(ctx[x].prev)'
    <3>1. SUFFICES ASSUME ctx'[x].prev # Nil PROVE Reached(ctx[x].prev)'
      OBVIOUS
    <3>2. PICK p \in Ctx : p = ctx[x].prev /\ ctx'[x].prev = p
      BY <1>4, <1>5, <1>6, <3>1 DEF CtxRef
    <3>3. SUFFICES Reached(p)'
      BY <3>2
    <3>4. CASE p = x \/ Settled(p)
      BY <2>1, <3>4 DEF Reached
    <3>5. CASE p \in FindCtx(p) /\ p # x
      <4>1. p \in todoCtx'
        BY <1>2, <3>2, <3>5
      <4> QED BY <4>1 DEF Reached
    <3> QED BY <1>0, <3>4, <3>5, FoundReached
  <2>3. \A i \in DOMAIN frames' : Reached(frames[i])'
    BY <1>0, <1>2, <2>1 DEF Reachable, Types, RootTypes
  <2>4. \A b \in ObjAddr : obj'[b].live /\ b[2] = to /\ obj'[b].scope # Nil => Reached(obj[b].scope)'
    BY <1>0, <1>2, <2>1, CellTypes DEF Reachable, CtxRef
  <2>5. \A d \in Ctx : Settled(d)' /\ ctx'[d].prev # Nil => Reached(ctx[d].prev)'
    BY <1>0, <1>4, <1>5, <2>1, <2>2, CellTypes DEF Reachable, CtxRef
  <2>6. ~ Full => \A d \in Ctx : ctx'[d].wb => d \in wbCtx \cup todoCtx' \/ (phase = "barrier" /\ freeing = d /\ ctx'[d].ref = 1)
    BY <1>0, <1>2, <1>4, <1>5 DEF Reachable
  <2> QED BY <1>2, <2>3, <2>4, <2>5, <2>6 DEF Reachable
<1>21. phase' # "run"
  BY <1>0, <1>2
<1>22. Collecting'
  BY <1>11, <1>13, <1>14, <1>16, <1>17, <1>18, <1>19, <1>20, <1>21 DEF Collecting, Heap
<1>23. ASSUME Counted, Pooled, Acyclic PROVE Counted' /\ Pooled' /\ Acyclic'
  <2>1. \A d \in Ctx : ctx'[d].prev = ctx[d].prev /\ ctx'[d].ref = ctx[d].ref
    BY <1>4, <1>5
  <2>2. Counted'
    BY <1>2, <1>23, <2>1, NothingCounted DEF PrevKept, ScopesKept
  <2>3. Pooled'
    BY <1>0, <1>4, <1>5, <1>23, Forward DEF Pooled
  <2>4. Acyclic'
    BY <1>23, <2>1 DEF Acyclic
  <2> QED BY <2>2, <2>3, <2>4
<1> QED BY <1>22, <1>23

(* What the first half of checkWriteBarrier makes of a cell.               *)
LEMMA BarrierCells ==
  ASSUME Collecting, CheckWriteBarrier
  PROVE  /\ todoObj = {} /\ todoTab = {} /\ todoCtx = {} /\ freeing = Nil /\ phase = "roots"
         /\ \A a \in ObjAddr :
              /\ obj'[a].live <=> obj[a].live
              /\ obj[a].live => obj'[a].gen = obj[a].gen /\ SameObj(obj'[a], obj[a])
              /\ Full \/ a \notin wbObj => obj'[a] = obj[a]
              /\ ~ Full /\ a \in wbObj =>
                   /\ TabOk(obj[a].slots) /\ ObjOk(obj[a].proto) /\ a[2] = to
                   /\ obj'[a].slots = ForwardTab(obj[a].slots) /\ obj'[a].proto = ForwardObj(obj[a].proto)
                   /\ ~ obj'[a].wb
                   /\ FindObj(obj[a].proto) \subseteq todoObj' /\ FindTab(obj[a].slots) \subseteq todoTab'
         /\ \A t \in TabAddr :
              /\ tab'[t].live <=> tab[t].live
              /\ tab[t].live => tab'[t].gen = tab[t].gen /\ SameTab(tab'[t], tab[t])
              /\ Full \/ t \notin wbSlot => tab'[t] = tab[t]
              /\ ~ Full /\ t \in wbSlot => /\ ~ tab'[t].wb /\ t[2] = to
                                           /\ \A k \in Key : /\ ObjOk(tab[t].val[k]) /\ tab'[t].val[k] = ForwardObj(tab[t].val[k])
                                                             /\ FindObj(tab[t].val[k]) \subseteq todoObj'
<1>0. /\ Types /\ Generations /\ Lists /\ CellRefs /\ phase = "roots"
      /\ todoObj = {} /\ todoTab = {} /\ todoCtx = {} /\ freeing = Nil
      /\ wbObj \subseteq ObjAddr /\ wbSlot \subseteq TabAddr
  BY DEF Collecting, Heap, CheckWriteBarrier, Idle, Types, ListTypes
<1>1. CASE Full
  <2>1. obj' = obj /\ tab' = tab
    BY <1>1 DEF CheckWriteBarrier
  <2> QED BY <1>0, <1>1, <2>1 DEF SameObj, SameId, SameTab
<1>2. CASE ~ Full
  <2>1. /\ \A a \in ObjAddr : obj'[a] = IF a \in wbObj THEN MovedObj(obj[a]) ELSE obj[a]
        /\ \A t \in TabAddr : tab'[t] = IF t \in wbSlot THEN [MovedTab(tab[t]) EXCEPT !.wb = FALSE] ELSE tab[t]
    BY <1>2 DEF CheckWriteBarrier
  <2>2. /\ todoObj' = UNION ({FindObj(obj[a].proto) : a \in wbObj}
                               \cup {FindObj(v) : v \in UNION {Values(tab[t]) : t \in wbSlot}})
        /\ todoTab' = UNION {FindTab(obj[a].slots) : a \in wbObj}
    BY <1>2 DEF CheckWriteBarrier
  <2>3. ASSUME NEW g, NEW s, InHeap(g, s), g = 1 PROVE s = to
    BY <1>0, <1>2, <2>3, Heaps DEF InHeap
  <2>4. /\ \A x \in ObjRef : ObjHere(x) => ObjOk(x)
        /\ \A x \in TabRef : TabHere(x) => TabOk(x)
    BY <1>0 DEF ObjHere, ObjOk, TabHere, TabOk
  <2>5. ASSUME NEW a \in wbObj
        PROVE  /\ TabOk(obj[a].slots) /\ ObjOk(obj[a].proto) /\ a[2] = to /\ obj[a].live
               /\ obj'[a].slots = ForwardTab(obj[a].slots) /\ obj'[a].proto = ForwardObj(obj[a].proto)
               /\ ~ obj'[a].wb /\ obj'[a].live /\ obj'[a].gen = obj[a].gen /\ obj'[a].scope = obj[a].scope
               /\ FindObj(obj[a].proto) \subseteq todoObj' /\ FindTab(obj[a].slots) \subseteq todoTab'
               /\ SameObj(obj'[a], obj[a])
    <3>1. a \in ObjAddr /\ obj[a].live /\ obj[a].gen = 1 /\ obj[a] \in ObjCell
      BY <1>0, CellTypes DEF Lists
    <3>2. a[2] = to
      BY <1>0, <2>3, <3>1 DEF Generations
    <3>3. TabOk(obj[a].slots) /\ ObjOk(obj[a].proto)
      BY <1>0, <2>4, <3>1, <3>2, CellTypes DEF CellRefs
    <3>4. obj'[a] = MovedObj(obj[a])
      BY <2>1, <3>1
    <3>5. /\ obj'[a].slots = ForwardTab(obj[a].slots) /\ obj'[a].proto = ForwardObj(obj[a].proto)
          /\ ~ obj'[a].wb /\ obj'[a].live /\ obj'[a].gen = obj[a].gen /\ obj'[a].scope = obj[a].scope
      BY <3>1, <3>4 DEF MovedObj, ObjCell
    <3>6. FindObj(obj[a].proto) \subseteq todoObj' /\ FindTab(obj[a].slots) \subseteq todoTab'
      BY <2>2
    <3>7. SameObj(obj'[a], obj[a])
      BY <1>0, <3>1, <3>3, <3>5, Found, CellTypes DEF SameObj, SameId
    <3> QED BY <3>1, <3>2, <3>3, <3>5, <3>6, <3>7
  <2>6. ASSUME NEW t \in wbSlot
        PROVE  /\ ~ tab'[t].wb /\ t[2] = to /\ tab[t].live /\ tab'[t].live /\ tab'[t].gen = tab[t].gen /\ SameTab(tab'[t], tab[t])
               /\ \A k \in Key : /\ ObjOk(tab[t].val[k]) /\ tab'[t].val[k] = ForwardObj(tab[t].val[k])
                                 /\ FindObj(tab[t].val[k]) \subseteq todoObj'
    <3>1. t \in TabAddr /\ tab[t].live /\ tab[t].gen = 1 /\ tab[t] \in TabCell
      BY <1>0, CellTypes DEF Lists
    <3>2. t[2] = to
      BY <1>0, <2>3, <3>1 DEF Generations
    <3>3. \A k \in Key : ObjOk(tab[t].val[k])
      BY <1>0, <2>4, <3>1, <3>2, CellTypes DEF CellRefs
    <3>4. tab'[t] = [MovedTab(tab[t]) EXCEPT !.wb = FALSE]
      BY <2>1, <3>1
    <3>5. /\ ~ tab'[t].wb /\ tab'[t].live /\ tab'[t].gen = tab[t].gen
          /\ tab'[t].shared = tab[t].shared /\ tab'[t].nocow = tab[t].nocow
          /\ \A k \in Key : tab'[t].val[k] = ForwardObj(tab[t].val[k])
      BY <3>1, <3>4 DEF MovedTab, TabCell
    <3>7. \A k \in Key : Id(ForwardObj(tab[t].val[k])) = Id(tab[t].val[k])
      BY <1>0, <3>1, <3>3, Found DEF TabCell
    <3>8. SameTab(tab'[t], tab[t])
      BY <3>5, <3>7 DEF SameTab, SameId
    <3>6. ASSUME NEW k \in Key PROVE FindObj(tab[t].val[k]) \subseteq todoObj'
      <4>1. CASE tab[t].val[k] = Nil
        BY <1>0, <4>1, Forward
      <4>2. CASE tab[t].val[k] # Nil
        <5>1. tab[t].val[k] \in Values(tab[t])
          BY <4>2 DEF Values
        <5> QED BY <2>2, <5>1
      <4> QED BY <4>1, <4>2
    <3> QED BY <3>1, <3>2, <3>3, <3>5, <3>6, <3>8
  <2>7. /\ \A a \in ObjAddr : SameObj(obj[a], obj[a])
        /\ \A t \in TabAddr : SameTab(tab[t], tab[t])
    BY DEF SameObj, SameId, SameTab
  <2> QED BY <1>0, <1>2, <2>1, <2>5, <2>6, <2>7
<1> QED BY <1>1, <1>2

(* The remembered cells are traversed, or forgotten when everything is     *)
(* collected.                                                              *)
LEMMA CheckWriteBarrierKeeps ==
  ASSUME Collecting, Types', CheckWriteBarrier
  PROVE  /\ Collecting'
         /\ Counted /\ Pooled /\ Acyclic => Counted' /\ Pooled' /\ Acyclic'
<1>0. /\ Types /\ Generations /\ Unique /\ Phases /\ Work /\ Copies /\ Lists /\ Logged
      /\ CellRefs /\ CtxRefs /\ Reachable /\ phase = "roots"
      /\ todoObj = {} /\ todoTab = {} /\ todoCtx = {} /\ freeing = Nil
  BY BarrierCells DEF Collecting, Heap
<1>2. /\ ctx' = ctx /\ stack' = stack /\ frames' = frames /\ wbObj' = {} /\ wbSlot' = {}
      /\ wbCtx' = wbCtx /\ desLog' = desLog /\ old' = old /\ gcGen' = gcGen /\ phase' = "barrier"
      /\ visited' = visited /\ dying' = dying /\ freeing' = freeing /\ to' = to /\ Full' = Full
  BY DEF CheckWriteBarrier, rootVars, to, Full
<1>3. \A a \in ObjAddr :
              /\ obj'[a].live <=> obj[a].live
              /\ obj[a].live => obj'[a].gen = obj[a].gen /\ SameObj(obj'[a], obj[a])
              /\ Full \/ a \notin wbObj => obj'[a] = obj[a]
              /\ ~ Full /\ a \in wbObj =>
                   /\ TabOk(obj[a].slots) /\ ObjOk(obj[a].proto) /\ a[2] = to
                   /\ obj'[a].slots = ForwardTab(obj[a].slots) /\ obj'[a].proto = ForwardObj(obj[a].proto)
                   /\ ~ obj'[a].wb
                   /\ FindObj(obj[a].proto) \subseteq todoObj' /\ FindTab(obj[a].slots) \subseteq todoTab'
  BY BarrierCells
<1>4. \A t \in TabAddr :
              /\ tab'[t].live <=> tab[t].live
              /\ tab[t].live => tab'[t].gen = tab[t].gen /\ SameTab(tab'[t], tab[t])
              /\ Full \/ t \notin wbSlot => tab'[t] = tab[t]
              /\ ~ Full /\ t \in wbSlot => /\ ~ tab'[t].wb /\ t[2] = to
                                           /\ \A k \in Key : /\ ObjOk(tab[t].val[k]) /\ tab'[t].val[k] = ForwardObj(tab[t].val[k])
                                                             /\ FindObj(tab[t].val[k]) \subseteq todoObj'
  BY BarrierCells
<1>8. Grows
  BY <1>0, <1>2, <1>3, <1>4 DEF Grows
<1>9. /\ \A y \in ObjRef : ObjHere(y) => ObjHere(y)'
      /\ \A y \in TabRef : TabHere(y) => TabHere(y)'
      /\ \A y \in ObjRef : \A z : ObjOk(y) /\ z = ForwardObj(y) /\ FindObj(y) \subseteq todoObj' => ObjHere(z)'
      /\ \A y \in TabRef : \A z : TabOk(y) /\ z = ForwardTab(y) /\ FindTab(y) \subseteq todoTab' => TabHere(z)'
  BY <1>0, <1>8, HereKept, ForwardHere
<1>10. /\ \A y \in ObjRef : ObjOk(y) => ObjOk(y)'
       /\ \A y \in TabRef : TabOk(y) => TabOk(y)'
  BY <1>3, <1>4 DEF ObjRef, TabRef, ObjOk, TabOk
<1>11. Generations' /\ Unique'
  BY <1>0, <1>2, <1>3, <1>4 DEF Generations, InHeap, Unique, Source
<1>13. Phases'
  <2>1. todoCtx' \cap visited = {}
    BY <1>0, FindCtxOnly DEF CheckWriteBarrier
  <2> QED BY <1>0, <1>2, <2>1 DEF Phases
<1>14. Work'
  <2>1. \A b : To(b)' = To(b)
    BY <1>2 DEF To
  <2>2. ASSUME NEW b \in todoObj'
        PROVE  \E y \in ObjRef : ObjOk(y) /\ b \in FindObj(y)
    <3>1. ~ Full
      BY <1>0, <2>2 DEF CheckWriteBarrier
    <3>2. todoObj' = UNION ({FindObj(obj[a].proto) : a \in wbObj}
                               \cup {FindObj(v) : v \in UNION {Values(tab[t]) : t \in wbSlot}})
      BY <3>1 DEF CheckWriteBarrier
    <3>3. CASE \E a \in wbObj : b \in FindObj(obj[a].proto)
      BY <1>0, <1>3, <3>1, <3>3, CellTypes DEF Types, ListTypes
    <3>4. CASE \E t \in wbSlot : \E k \in Key : b \in FindObj(tab[t].val[k])
      BY <1>0, <1>4, <3>1, <3>4, CellTypes DEF Types, ListTypes
    <3> QED BY <3>2, <3>3, <3>4 DEF Values
  <2>3. ASSUME NEW b \in todoTab'
        PROVE  \E y \in TabRef : TabOk(y) /\ b \in FindTab(y)
    <3>1. ~ Full
      BY <1>0, <2>3 DEF CheckWriteBarrier
    <3>2. todoTab' = UNION {FindTab(obj[a].slots) : a \in wbObj}
      BY <3>1 DEF CheckWriteBarrier
    <3> QED BY <1>0, <1>3, <3>1, <3>2, CellTypes DEF Types, ListTypes
  <2>4. \A b \in todoObj' : obj'[b].live /\ b[2] # to /\ ~ obj'[To(b)].live
    BY <1>0, <1>3, <2>2, Found, Forward
  <2>5. \A b \in todoTab' : tab'[b].live /\ b[2] # to /\ ~ tab'[To(b)].live
    BY <1>0, <1>4, <2>3, Found, Forward
  <2> QED BY <1>2, <2>1, <2>4, <2>5 DEF Work
<1>15. Copies'
  <2>1. \A a, b \in ObjAddr : obj'[a].live /\ obj'[b].live /\ a[1] = b[1] => SameObj(obj'[a], obj'[b])
    <3>1. SUFFICES ASSUME NEW a \in ObjAddr, NEW b \in ObjAddr, obj'[a].live, obj'[b].live, a[1] = b[1]
                   PROVE  SameObj(obj'[a], obj'[b])
      OBVIOUS
    <3>2. SameObj(obj'[a], obj[a]) /\ SameObj(obj'[b], obj[b]) /\ SameObj(obj[a], obj[b])
      BY <1>0, <1>3, <3>1 DEF Copies
    <3> QED BY <3>2 DEF SameObj, SameId
  <2>2. \A a, b \in TabAddr : tab'[a].live /\ tab'[b].live /\ a[1] = b[1] => SameTab(tab'[a], tab'[b])
    <3>1. SUFFICES ASSUME NEW a \in TabAddr, NEW b \in TabAddr, tab'[a].live, tab'[b].live, a[1] = b[1]
                   PROVE  SameTab(tab'[a], tab'[b])
      OBVIOUS
    <3>2. SameTab(tab'[a], tab[a]) /\ SameTab(tab'[b], tab[b]) /\ SameTab(tab[a], tab[b])
      BY <1>0, <1>4, <3>1 DEF Copies
    <3> QED BY <3>2 DEF SameTab, SameId
  <2> QED BY <2>1, <2>2 DEF Copies
<1>16. Lists'
  <2>1. \A a \in ObjAddr : obj'[a].live /\ a[2] = to => ~ obj'[a].wb
    BY <1>0, <1>3 DEF Lists
  <2>2. \A t \in TabAddr : tab'[t].live /\ t[2] = to => ~ tab'[t].wb
    BY <1>0, <1>4 DEF Lists
  <2> QED BY <1>2, <2>1, <2>2 DEF Lists
<1>17. Logged'
  <2>0. \A b : To(b)' = To(b)
    BY <1>2 DEF To
  <2>1. Functions' = Functions
    BY <1>3 DEF Functions, SameObj
  <2> QED BY <1>0, <1>2, <2>0, <2>1 DEF Logged
<1>18. CellRefs'
  <2>1. \A b \in stack' : ObjHere(b)'
    BY <1>0, <1>2, <1>9 DEF CellRefs, Types, RootTypes, ObjRef
  <2>2. \A b \in ObjAddr : obj'[b].live /\ b[2] # to => TabOk(obj[b].slots)' /\ ObjOk(obj[b].proto)'
    BY <1>0, <1>3, <1>10, CellTypes DEF CellRefs
  <2>3. \A t \in TabAddr : tab'[t].live /\ t[2] # to => \A k \in Key : ObjOk(tab[t].val[k])'
    BY <1>0, <1>4, <1>10, CellTypes DEF CellRefs
  <2>4. \A b \in ObjAddr : obj'[b].live /\ b[2] = to => TabHere(obj[b].slots)' /\ ObjHere(obj[b].proto)'
    <3>1. SUFFICES ASSUME NEW b \in ObjAddr, obj'[b].live, b[2] = to PROVE TabHere(obj[b].slots)' /\ ObjHere(obj[b].proto)'
      OBVIOUS
    <3>2. CASE b \in wbObj
      <4>1. ~ Full
        BY <1>0, <3>1, <3>2 DEF Lists
      <4> QED BY <1>0, <1>3, <1>9, <3>2, <4>1, CellTypes
    <3>3. CASE b \notin wbObj
      BY <1>0, <1>3, <1>9, <3>1, <3>3, CellTypes DEF CellRefs
    <3> QED BY <3>2, <3>3
  <2>5. \A t \in TabAddr : tab'[t].live /\ t[2] = to => \A k \in Key : ObjHere(tab[t].val[k])'
    <3>1. SUFFICES ASSUME NEW t \in TabAddr, tab'[t].live, t[2] = to, NEW k \in Key PROVE ObjHere(tab[t].val[k])'
      OBVIOUS
    <3>2. CASE t \in wbSlot
      <4>1. ~ Full
        BY <1>0, <3>1, <3>2 DEF Lists
      <4> QED BY <1>0, <1>4, <1>9, <3>2, <4>1, CellTypes
    <3>3. CASE t \notin wbSlot
      BY <1>0, <1>4, <1>9, <3>1, <3>3, CellTypes DEF CellRefs
    <3> QED BY <3>2, <3>3
  <2> QED BY <1>2, <2>1, <2>2, <2>3, <2>4, <2>5 DEF CellRefs
<1>19. CtxRefs'
  BY <1>0, <1>2, <1>9, <1>10, CellTypes DEF CtxRefs, InTo, Types, WorkTypes
<1>20. Reachable'
  <2>1. /\ \A d : Settled(d)' <=> Settled(d)
        /\ \A d : Reached(d) => Reached(d)'
    BY <1>0, <1>2 DEF Settled, Reached
  <2>3. \A b \in ObjAddr : obj'[b].live /\ b[2] = to /\ obj'[b].scope # Nil => Reached(obj[b].scope)'
    BY <1>0, <1>3, <2>1 DEF Reachable, SameObj
  <2>4. freeing \notin Ctx
    BY <1>0, Addresses
  <2> QED BY <1>0, <1>2, <2>1, <2>3, <2>4 DEF Reachable
<1>21. phase' # "run"
  BY <1>2
<1>22. Collecting'
  BY <1>11, <1>13, <1>14, <1>15, <1>16, <1>17, <1>18, <1>19, <1>20, <1>21 DEF Collecting, Heap
<1>23. ASSUME Counted, Pooled, Acyclic PROVE Counted' /\ Pooled' /\ Acyclic'
  <2>1. ScopesKept
    BY <1>0, <1>3 DEF ScopesKept, Logged, Functions, SameObj
  <2>2. Counted'
    BY <1>2, <1>23, <2>1, NothingCounted DEF PrevKept
  <2> QED BY <1>2, <1>23, <2>2 DEF Pooled, Acyclic
<1> QED BY <1>22, <1>23

(* The steps that move nothing.                                            *)
Unmoved ==
  /\ obj' = obj /\ tab' = tab /\ stack' = stack /\ frames' = frames /\ wbObj' = wbObj /\ wbSlot' = wbSlot
  /\ old' = old /\ gcGen' = gcGen /\ visited' = visited
  /\ todoObj' = todoObj /\ todoTab' = todoTab
  /\ phase' = phase \/ (phase = "barrier" /\ phase' = "destruct")

(* They keep all that the collector knows of cells and copies.             *)
LEMMA UnmovedKept ==
  ASSUME Collecting, Unmoved
  PROVE  /\ Generations' /\ Unique' /\ Work' /\ Copies' /\ Lists' /\ CellRefs' /\ phase' # "run"
         /\ to' = to /\ Full' = Full
         /\ \A b : To(b)' = To(b)
         /\ Functions' = Functions
         /\ \A y : ObjHere(y) <=> ObjHere(y)'
         /\ \A y : TabHere(y) <=> TabHere(y)'
         /\ \A y : ObjOk(y) <=> ObjOk(y)'
         /\ \A y : TabOk(y) <=> TabOk(y)'
<1>0. /\ Types /\ Generations /\ Unique /\ Phases /\ Work /\ Copies /\ Lists /\ CellRefs /\ phase # "run"
  BY DEF Collecting, Heap
<1>1. to' = to /\ Full' = Full /\ phase' # "run" /\ (phase' = "roots" <=> phase = "roots")
  BY <1>0 DEF Unmoved, to, Full
<1>2. /\ \A b : To(b)' = To(b)
      /\ Functions' = Functions
      /\ \A y : ObjOk(y) <=> ObjOk(y)'
      /\ \A y : TabOk(y) <=> TabOk(y)'
  BY <1>1 DEF Unmoved, To, Functions, ObjOk, TabOk
<1>3. /\ \A y : ObjHere(y) <=> ObjHere(y)'
      /\ \A y : TabHere(y) <=> TabHere(y)'
  BY <1>1 DEF Unmoved, ObjHere, TabHere
<1>4. Generations' /\ Unique' /\ Copies'
  BY <1>0, <1>1 DEF Unmoved, Generations, Unique, Copies, InHeap, Source
<1>5. Work'
  BY <1>0, <1>1, <1>2 DEF Unmoved, Work
<1>6. Lists'
  BY <1>0, <1>1 DEF Unmoved, Lists
<1>7. CellRefs'
  BY <1>0, <1>1, <1>2, <1>3 DEF Unmoved, CellRefs
<1> QED BY <1>1, <1>2, <1>3, <1>4, <1>5, <1>6, <1>7

(* The second half of checkWriteBarrier.                                   *)
LEMMA CheckContextKeeps ==
  ASSUME Collecting, NEW x \in wbCtx, CheckContext(x), x \in Ctx
  PROVE  Collecting'
<1>0. /\ Types /\ Phases /\ Logged /\ CtxRefs /\ Reachable /\ phase = "barrier"
      /\ todoObj = {} /\ todoTab = {} /\ todoCtx = {} /\ freeing = Nil
  BY DEF Collecting, Heap, CheckContext, Idle
<1>2. /\ ctx' = ctx /\ desLog' = desLog /\ visited' = visited /\ dying' = dying /\ phase' = phase
      /\ wbCtx' = wbCtx \ {x} /\ freeing' = x /\ frames' = frames /\ obj' = obj
      /\ wbObj' = wbObj /\ wbSlot' = wbSlot /\ todoObj' = todoObj /\ todoTab' = todoTab
      /\ todoCtx' = IF ~ Full /\ ctx[x].ref # 1 THEN FindCtx(x) ELSE {}
  BY DEF CheckContext, heapVars, rootVars
<1>u. Unmoved
  BY DEF CheckContext, heapVars, rootVars, Unmoved
<1>k. /\ Generations' /\ Unique' /\ Work' /\ Copies' /\ Lists' /\ CellRefs' /\ phase' # "run"
      /\ to' = to /\ Full' = Full
      /\ \A b : To(b)' = To(b)
      /\ Functions' = Functions
      /\ \A y : ObjHere(y) <=> ObjHere(y)'
      /\ \A y : TabHere(y) <=> TabHere(y)'
      /\ \A y : ObjOk(y) <=> ObjOk(y)'
      /\ \A y : TabOk(y) <=> TabOk(y)'
  BY <1>u, UnmovedKept
<1>1. Phases'
  BY <1>0, <1>2, FindCtxOnly DEF Phases
<1>3. Logged'
  BY <1>0, <1>2, <1>k DEF Logged
<1>4. CtxRefs'
  BY <1>0, <1>2, <1>k DEF CtxRefs, InTo
<1>5. Reachable'
  <2>1. /\ \A d : Settled(d)' <=> Settled(d)
        /\ \A d : Reached(d) => Reached(d)'
    BY <1>0, <1>2, <1>k DEF Settled, Reached
  <2>2. ~ Full => \A d \in Ctx : ctx[d].wb => d \in wbCtx' \cup todoCtx' \/ (freeing' = d /\ ctx[d].ref = 1)
    <3>1. SUFFICES ASSUME ~ Full, NEW d \in Ctx, ctx[d].wb PROVE d \in wbCtx' \cup todoCtx' \/ (freeing' = d /\ ctx[d].ref = 1)
      OBVIOUS
    <3>2. d \in wbCtx
      BY <1>0, <3>1, Addresses DEF Reachable
    <3>3. CASE d = x
      <4>1. d \notin visited /\ d # Nil
        BY <1>0, <3>1, Addresses DEF CtxRefs
      <4>2. FindCtx(x) = {x}
        BY <3>1, <3>3, <4>1 DEF FindCtx
      <4> QED BY <1>2, <3>1, <3>3, <4>2
    <3>4. CASE d # x
      BY <1>2, <3>2, <3>4
    <3> QED BY <3>3, <3>4
  <2> QED BY <1>0, <1>2, <1>k, <2>1, <2>2 DEF Reachable
<1> QED BY <1>k, <1>1, <1>3, <1>4, <1>5, TypesStep DEF Collecting, Heap, Next, Collect

(* triggerDestructor: the log of the survivors.                            *)
LEMMA TriggerKeeps ==
  ASSUME Collecting, TriggerDestructor
  PROVE  Collecting'
<1>0. /\ Types /\ Generations /\ Copies /\ Phases /\ Logged /\ CtxRefs /\ Reachable /\ phase = "barrier"
      /\ todoObj = {} /\ todoTab = {} /\ todoCtx = {} /\ freeing = Nil /\ wbCtx = {}
      /\ wbObj = {} /\ wbSlot = {}
  BY DEF Collecting, Heap, TriggerDestructor, Idle, Phases
<1>2. /\ ctx' = ctx /\ visited' = visited /\ phase' = "destruct"
      /\ wbCtx' = wbCtx /\ freeing' = freeing /\ frames' = frames /\ obj' = obj
      /\ wbObj' = wbObj /\ wbSlot' = wbSlot /\ todoObj' = todoObj /\ todoTab' = todoTab /\ todoCtx' = todoCtx
      /\ dying' = {a \in desLog : Dies(a)}
      /\ desLog' = {IF Copied(a) THEN To(a) ELSE a : a \in {b \in desLog : ~ Dies(b)}}
  BY DEF TriggerDestructor, heapVars, rootVars, wbVars, workVars
<1>u. Unmoved
  BY <1>0 DEF TriggerDestructor, heapVars, rootVars, wbVars, workVars, Unmoved
<1>k. /\ Generations' /\ Unique' /\ Work' /\ Copies' /\ Lists' /\ CellRefs' /\ phase' # "run"
      /\ to' = to /\ Full' = Full
      /\ \A b : To(b)' = To(b)
      /\ Functions' = Functions
      /\ \A y : ObjHere(y) <=> ObjHere(y)'
      /\ \A y : TabHere(y) <=> TabHere(y)'
      /\ \A y : ObjOk(y) <=> ObjOk(y)'
      /\ \A y : TabOk(y) <=> TabOk(y)'
  BY <1>u, UnmovedKept
<1>1. Phases'
  BY <1>0, <1>2 DEF Phases
<1>3. Logged'
  <2>0. /\ desLog \subseteq Functions /\ \A b \in Functions : b \in desLog \/ \E a \in desLog : a # b /\ To(a) = b
        /\ Full => \A a \in desLog : a[2] # to
        /\ Functions \subseteq ObjAddr
    BY <1>0 DEF Logged, Functions
  <2>1. ASSUME NEW a \in Functions, a[2] = to PROVE ~ Copied(a) /\ (a \in desLog => ~ Dies(a))
    <3>1. ~ Copied(a)
      BY <2>1 DEF Copied
    <3>2. a \in desLog => ~ Full /\ obj[a].gen = 1
      BY <1>0, <2>0, <2>1, Heaps DEF Functions, Generations, InHeap
    <3>3. ~ Full => gcGen = 0
      BY <1>0 DEF Full, Types, WorkTypes, Bit
    <3> QED BY <3>1, <3>2, <3>3 DEF Dies
  <2>2. ASSUME NEW a \in desLog, Copied(a) PROVE To(a) \in Functions /\ To(a)[2] = to /\ ~ Dies(a)
    <3>1. a \in ObjAddr /\ To(a) \in ObjAddr /\ To(a)[1] = a[1] /\ To(a)[2] = to /\ obj[a].live /\ obj[a].scope # Nil
      BY <1>0, <2>0, Forward DEF Functions
    <3>2. obj[To(a)].live /\ obj[To(a)].scope = obj[a].scope
      BY <1>0, <2>2, <3>1 DEF Copies, SameObj, Copied
    <3> QED BY <2>2, <3>1, <3>2 DEF Functions, Dies
  <2>3. ASSUME NEW a \in desLog, ~ Dies(a), ~ Copied(a) PROVE a[2] = to
    <3>1. gcGen = 0 /\ obj[a].gen = 1 /\ a \in ObjAddr /\ obj[a].live
      BY <1>0, <2>0, <2>3, CellTypes DEF Dies, Types, WorkTypes, Bit, Functions
    <3> QED BY <1>0, <3>1, Heaps DEF Generations, InHeap, Full
  <2>4. desLog' \subseteq {b \in Functions : b[2] = to}
    BY <1>2, <2>0, <2>2, <2>3
  <2>5. ASSUME NEW b \in Functions, b[2] = to PROVE b \in desLog'
    <3>1. CASE b \in desLog
      BY <1>2, <2>1, <2>5, <3>1
    <3>2. CASE \E a \in desLog : a # b /\ To(a) = b
      <4>1. PICK a \in desLog : a # b /\ To(a) = b
        BY <3>2
      <4>2. a \in ObjAddr /\ a[2] # to
        BY <1>0, <2>0, <4>1, Forward, Addresses DEF Functions
      <4>3. Copied(a)
        BY <2>5, <4>1, <4>2 DEF Copied, Functions
      <4>4. ~ Dies(a)
        BY <2>2, <4>3
      <4> QED BY <1>2, <4>1, <4>3, <4>4
    <3> QED BY <2>0, <3>1, <3>2
  <2>6. \A a \in dying' : a \in desLog /\ a[2] # to
    BY <1>2, <2>0, <2>1
  <2>7. desLog' = {b \in Functions : b[2] = to}
    BY <2>4, <2>5
  <2>8. phase' = "destruct"
    BY <1>2
  <2> QED BY <1>k, <2>0, <2>6, <2>7, <2>8 DEF Logged
<1>4. CtxRefs'
  BY <1>0, <1>2, <1>k DEF CtxRefs, InTo
<1>5. Reachable'
  <2>1. /\ \A d : Settled(d)' <=> Settled(d)
        /\ \A d : Reached(d) => Reached(d)'
    BY <1>0, <1>2, <1>k DEF Settled, Reached
  <2>2. ~ Full => \A c \in Ctx : ~ ctx[c].wb
    BY <1>0, CollectorAssumption DEF Reachable
  <2> QED BY <1>0, <1>2, <1>k, <2>1, <2>2 DEF Reachable
<1> QED BY <1>k, <1>1, <1>3, <1>4, <1>5, TypesStep DEF Collecting, Heap, Next, Collect

(* A destructor is called.                                                 *)
LEMMA DestructKeeps ==
  ASSUME Collecting, NEW x \in dying, Destruct(x)
  PROVE  Collecting'
<1>0. /\ Types /\ Phases /\ Logged /\ CtxRefs /\ Reachable /\ phase = "destruct"
      /\ todoObj = {} /\ todoTab = {} /\ todoCtx = {} /\ freeing = Nil /\ wbCtx = {}
  BY DEF Collecting, Heap, Destruct, Phases
<1>2. /\ ctx' = ctx /\ visited' = visited /\ phase' = phase
      /\ wbCtx' = wbCtx /\ frames' = frames /\ obj' = obj /\ desLog' = desLog /\ dying' = dying \ {x}
      /\ wbObj' = wbObj /\ wbSlot' = wbSlot /\ todoObj' = todoObj /\ todoTab' = todoTab /\ todoCtx' = todoCtx
  BY DEF Destruct, heapVars, rootVars, wbVars, workVars
<1>u. Unmoved
  BY DEF Destruct, heapVars, rootVars, wbVars, workVars, Unmoved
<1>k. /\ Generations' /\ Unique' /\ Work' /\ Copies' /\ Lists' /\ CellRefs' /\ phase' # "run"
      /\ to' = to /\ Full' = Full
      /\ \A b : To(b)' = To(b)
      /\ Functions' = Functions
      /\ \A y : ObjHere(y) <=> ObjHere(y)'
      /\ \A y : TabHere(y) <=> TabHere(y)'
      /\ \A y : ObjOk(y) <=> ObjOk(y)'
      /\ \A y : TabOk(y) <=> TabOk(y)'
  BY <1>u, UnmovedKept
<1>1. Phases'
  BY <1>0, <1>2 DEF Phases
<1>3. Logged'
  BY <1>0, <1>2, <1>k DEF Logged
<1>4. CtxRefs'
  BY <1>0, <1>2, <1>k DEF CtxRefs, InTo
<1>5. Reachable'
  <2>1. /\ \A d : Settled(d)' <=> Settled(d)
        /\ \A d : Reached(d) => Reached(d)'
    BY <1>0, <1>2, <1>k DEF Settled, Reached
  <2>2. freeing \notin Ctx
    BY <1>0, Addresses
  <2> QED BY <1>0, <1>2, <1>k, <2>1, <2>2 DEF Reachable
<1> QED BY <1>k, <1>1, <1>3, <1>4, <1>5, TypesStep DEF Collecting, Heap, Next, Collect

(* A context is dropped, or returned to the pool: nothing that survives    *)
(* refers to it then.                                                      *)
LEMMA FreeKeeps ==
  ASSUME Collecting, Counted, Pooled, Acyclic, ContextFree
  PROVE  Collecting'
<1>0. /\ Types /\ Phases /\ Logged /\ Copies /\ CtxRefs /\ Reachable /\ phase \in {"barrier", "destruct"}
      /\ freeing \in Ctx
  BY DEF Collecting, Heap, ContextFree, Phases, Types, WorkTypes, RootTypes, CtxRef
<1>2. /\ visited' = visited /\ phase' = phase
      /\ wbCtx' = wbCtx /\ frames' = frames /\ obj' = obj /\ desLog' = desLog /\ dying' = dying
      /\ wbObj' = wbObj /\ wbSlot' = wbSlot /\ todoObj' = todoObj /\ todoTab' = todoTab /\ todoCtx' = todoCtx
  BY DEF ContextFree, rootVars, wbVars, gcVars, workVars
<1>u. Unmoved
  BY DEF ContextFree, rootVars, wbVars, gcVars, workVars, Unmoved
<1>k. /\ Generations' /\ Unique' /\ Work' /\ Copies' /\ Lists' /\ CellRefs' /\ phase' # "run"
      /\ to' = to /\ Full' = Full
      /\ \A b : To(b)' = To(b)
      /\ Functions' = Functions
      /\ \A y : ObjHere(y) <=> ObjHere(y)'
      /\ \A y : TabHere(y) <=> TabHere(y)'
      /\ \A y : ObjOk(y) <=> ObjOk(y)'
      /\ \A y : TabOk(y) <=> TabOk(y)'
  BY <1>u, UnmovedKept
<1>1. Phases'
  BY <1>0, <1>2 DEF Phases
<1>3. Logged'
  BY <1>0, <1>2, <1>k DEF Logged
<1>6. CASE ctx[freeing].ref # 1
  <2>1. \A c \in Ctx : /\ ctx'[c].slots = ctx[c].slots /\ ctx'[c].obj = ctx[c].obj /\ ctx'[c].prev = ctx[c].prev
                       /\ ctx'[c].gen = ctx[c].gen /\ ctx'[c].wb = ctx[c].wb
    BY <1>0, <1>6, FreeCounted DEF CtxKept
  <2>2. \A c \in Ctx : ctx'[c].ref # 0 => ctx[c].ref # 0
    <3>1. ctx[freeing].ref # 0
      BY <1>0, Uncounted
    <3>2. ctx' = [ctx EXCEPT ![freeing].ref = @ - 1]
      BY <1>6 DEF ContextFree
    <3> QED BY <1>0, <3>1, <3>2, CellTypes DEF CtxCellI, Types, HeapTypes
  <2>3. CtxRefs'
    BY <1>0, <1>2, <1>k, <2>1, <2>2 DEF CtxRefs, InTo, Types, WorkTypes
  <2>4. Reachable'
    <3>1. /\ \A d \in Ctx : Settled(d)' <=> Settled(d)
          /\ \A d \in Ctx : Reached(d) => Reached(d)'
      BY <1>0, <1>2, <1>k, <2>1 DEF Settled, Reached
    <3>2. \A i \in DOMAIN frames' : Reached(frames[i])'
      BY <1>0, <1>2, <3>1 DEF Reachable, Types, RootTypes
    <3>3. \A b \in ObjAddr : obj'[b].live /\ b[2] = to /\ obj'[b].scope # Nil => Reached(obj[b].scope)'
      BY <1>0, <1>2, <3>1, CellTypes DEF Reachable, CtxRef
    <3>4. \A d \in Ctx : Settled(d)' /\ ctx'[d].prev # Nil => Reached(ctx[d].prev)'
      BY <1>0, <2>1, <3>1, CellTypes DEF Reachable, CtxRef
    <3>5. ~ Full => \A d \in Ctx : ctx'[d].wb => d \in wbCtx \cup todoCtx
      BY <1>0, <1>6, <2>1 DEF Reachable
    <3> QED BY <1>2, <1>k, <3>2, <3>3, <3>4, <3>5 DEF Reachable
  <2> QED BY <1>k, <1>1, <1>3, <2>3, <2>4, TypesStep DEF Collecting, Heap, Next, Collect
<1>7. CASE ctx[freeing].ref = 1
  <2>0. PICK x \in Ctx : x = freeing
    BY <1>0
  <2>1. /\ ctx'[x] = DeadCtx
        /\ \A c \in Ctx : c # x => ctx'[c] = ctx[c]
    BY <1>0, <1>7, <2>0 DEF ContextFree, Types, HeapTypes
  <2>2. /\ \A i \in DOMAIN frames : frames[i] # x
        /\ \A a \in desLog \cup dying : obj[a].scope # x
        /\ \A d \in Ctx : ctx[d].prev # x
    BY <1>0, <1>7, <2>0, Uncounted
  <2>3. \A b \in ObjAddr : obj[b].live /\ b[2] = to => obj[b].scope # x
    <3>1. SUFFICES ASSUME NEW b \in ObjAddr, obj[b].live, b[2] = to, obj[b].scope # Nil PROVE obj[b].scope # x
      BY <2>0, Addresses
    <3>2. b \in Functions
      BY <3>1 DEF Functions
    <3>3. CASE b \in desLog
      BY <2>2, <3>3
    <3>4. CASE \E a \in desLog : a # b /\ To(a) = b
      <4>1. PICK a \in desLog : a # b /\ To(a) = b
        BY <3>4
      <4>2. a \in ObjAddr /\ obj[a].live
        BY <1>0 DEF Logged, Functions
      <4>3. obj[a].scope = obj[b].scope
        BY <1>0, <3>1, <4>1, <4>2 DEF Copies, SameObj, To
      <4> QED BY <2>2, <4>3
    <3> QED BY <1>0, <3>1, <3>2, <3>3, <3>4 DEF Logged
  <2>4. DeadCtx.slots = Nil /\ DeadCtx.obj = Nil /\ DeadCtx.prev = Nil /\ DeadCtx.ref = 0 /\ DeadCtx.gen = 0 /\ ~ DeadCtx.wb
    BY DEF DeadCtx
  <2>5. CtxRefs'
    <3>1. TabHere(Nil)' /\ ObjHere(Nil)' /\ TabOk(Nil)' /\ ObjOk(Nil)'
      BY DEF TabHere, ObjHere, TabOk, ObjOk
    <3>2. \A d \in visited' : /\ TabHere(ctx[d].slots)' /\ ObjHere(ctx[d].obj)' /\ ~ ctx'[d].wb
                              /\ ctx'[d].ref # 0 => ctx'[d].gen = 1
      BY <1>0, <1>2, <1>k, <2>1, <2>4, <3>1 DEF CtxRefs, Types, WorkTypes
    <3>3. \A d \in Ctx \ visited' :
            /\ TabOk(ctx[d].slots)' /\ ObjOk(ctx[d].obj)'
            /\ ~ Full /\ ctx'[d].gen = 1 /\ ~ ctx'[d].wb => InTo(ctx[d].slots)' /\ InTo(ctx[d].obj)'
      BY <1>0, <1>2, <1>k, <2>1, <2>4, <3>1 DEF CtxRefs, InTo
    <3> QED BY <1>k, <3>2, <3>3 DEF CtxRefs
  <2>6. Reachable'
    <3>1. /\ \A d \in Ctx : d # x => (Settled(d)' <=> Settled(d))
          /\ \A d \in Ctx : d # x /\ Reached(d) => Reached(d)'
      BY <1>0, <1>2, <1>k, <2>1 DEF Settled, Reached
    <3>2. \A i \in DOMAIN frames' : Reached(frames[i])'
      BY <1>0, <1>2, <2>2, <3>1 DEF Reachable, Types, RootTypes
    <3>3. \A b \in ObjAddr : obj'[b].live /\ b[2] = to /\ obj'[b].scope # Nil => Reached(obj[b].scope)'
      BY <1>0, <1>2, <2>3, <3>1, CellTypes DEF Reachable, CtxRef
    <3>4. \A d \in Ctx : Settled(d)' /\ ctx'[d].prev # Nil => Reached(ctx[d].prev)'
      BY <1>0, <2>1, <2>2, <2>4, <3>1, CellTypes DEF Reachable, CtxRef
    <3>5. ~ Full => \A d \in Ctx : ctx'[d].wb => d \in wbCtx \cup todoCtx
      BY <1>0, <2>0, <2>1, <2>4 DEF Reachable
    <3> QED BY <1>2, <1>k, <3>2, <3>3, <3>4, <3>5 DEF Reachable
  <2> QED BY <1>k, <1>1, <1>3, <2>5, <2>6, TypesStep DEF Collecting, Heap, Next, Collect
<1> QED BY <1>6, <1>7

(* A collection begins.                                                    *)
LEMMA TravStateKeeps ==
  ASSUME TravState, Types, Heap, RunRefs, RunOld
  PROVE  /\ Collecting'
         /\ Counted /\ Pooled /\ Acyclic => Counted' /\ Pooled' /\ Acyclic'
<1>0. /\ Generations /\ Unique /\ Phases /\ Copies /\ Lists /\ Logged /\ phase = "run"
      /\ todoObj = {} /\ todoTab = {} /\ todoCtx = {} /\ visited = {} /\ dying = {} /\ freeing = Nil
      /\ wbObj \subseteq ObjAddr /\ wbSlot \subseteq TabAddr /\ stack \subseteq ObjAddr
  BY DEF Heap, Phases, TravState, Running, Types, ListTypes, RootTypes
<1>2. /\ obj' = obj /\ tab' = tab /\ ctx' = ctx /\ frames' = frames /\ wbObj' = wbObj /\ wbSlot' = wbSlot
      /\ wbCtx' = wbCtx /\ desLog' = desLog /\ old' = old /\ gcGen' = gcGen /\ phase' = "roots"
      /\ visited' = visited /\ dying' = dying /\ freeing' = freeing /\ to' = to /\ Full' = Full
      /\ todoTab' = todoTab
      /\ stack' = {ForwardObj(a) : a \in stack}
      /\ todoObj' = UNION {FindObj(a) : a \in stack}
      /\ todoCtx' = UNION {FindCtx(frames[i]) : i \in DOMAIN frames}
  BY DEF TravState, heapVars, wbVars, to, Full
<1>3. \A g, s : InHeap(g, s) => (s = to => ~ Full) /\ (~ Full /\ g = 1 => s = to) /\ (s = to => g = 1)
  BY <1>0, Heaps DEF InHeap
<1>4. /\ \A x \in ObjRef : ObjOk(x) => YoungObj(x) \/ (~ Full => InTo(x) /\ ObjHere(x))
      /\ \A x \in TabRef : TabOk(x) => YoungTab(x) \/ (~ Full => InTo(x) /\ TabHere(x))
  <2>1. ASSUME NEW x \in ObjRef, ObjOk(x), ~ YoungObj(x), ~ Full PROVE InTo(x) /\ ObjHere(x)
    <3>1. CASE x = Nil
      BY <3>1 DEF InTo, ObjHere
    <3>2. CASE x # Nil
      <4>1. x \in ObjAddr /\ obj[x].live /\ obj[x].gen = 1
        BY <1>0, <2>1, <3>2, CellTypes DEF ObjRef, ObjOk, YoungObj, Bit
      <4> QED BY <1>0, <1>3, <2>1, <4>1 DEF Generations, InTo, ObjHere
    <3> QED BY <3>1, <3>2
  <2>2. ASSUME NEW x \in TabRef, TabOk(x), ~ YoungTab(x), ~ Full PROVE InTo(x) /\ TabHere(x)
    <3>1. CASE x = Nil
      BY <3>1 DEF InTo, TabHere
    <3>2. CASE x # Nil
      <4>1. x \in TabAddr /\ tab[x].live /\ tab[x].gen = 1
        BY <1>0, <2>2, <3>2, CellTypes DEF TabRef, TabOk, YoungTab, Bit
      <4> QED BY <1>0, <1>3, <2>2, <4>1 DEF Generations, InTo, TabHere
    <3> QED BY <3>1, <3>2
  <2> QED BY <2>1, <2>2
<1>8. Grows
  BY <1>0, <1>2 DEF Grows
<1>9. /\ \A y \in ObjRef : ObjHere(y) => ObjHere(y)'
      /\ \A y \in TabRef : TabHere(y) => TabHere(y)'
      /\ \A y \in ObjRef : \A z : ObjOk(y) /\ z = ForwardObj(y) /\ FindObj(y) \subseteq todoObj' => ObjHere(z)'
  BY <1>0, <1>8, HereKept, ForwardHere
<1>10. /\ \A y : ObjOk(y) <=> ObjOk(y)'
       /\ \A y : TabOk(y) <=> TabOk(y)'
       /\ \A b : To(b)' = To(b)
       /\ Functions' = Functions
  BY <1>2 DEF ObjOk, TabOk, To, Functions
<1>11. Generations' /\ Unique'
  BY <1>0, <1>2 DEF Generations, InHeap, Unique, Source
<1>12. Copies'
  BY <1>0, <1>2 DEF Copies
<1>13. Phases'
  <2>1. todoCtx' \cap visited = {}
    BY <1>0
  <2> QED BY <1>0, <1>2, <2>1 DEF Phases
<1>14. Work'
  <2>1. ASSUME NEW b \in todoObj' PROVE obj'[b].live /\ b[2] # to /\ ~ obj'[To(b)].live
    <3>1. PICK a \in stack : b \in FindObj(a)
      BY <1>2
    <3>2. a \in ObjRef /\ ObjOk(a)
      BY <1>0 DEF RunRefs, ObjOk, ObjRef
    <3> QED BY <1>0, <1>2, <3>1, <3>2, Found
  <2> QED BY <1>0, <1>2, <1>10, <2>1 DEF Work
<1>16. Lists'
  <2>1. Full => (\A a \in wbObj : a[2] # to) /\ (\A t \in wbSlot : t[2] # to)
    BY <1>0, <1>3 DEF Lists, Generations
  <2> QED BY <1>0, <1>2, <2>1 DEF Lists
<1>17. Logged'
  <2>1. Full => \A a \in desLog : a[2] # to
    BY <1>0, <1>3 DEF Logged, Functions, Generations
  <2>2. \A a, b \in desLog : a[1] = b[1] => a = b
    BY <1>0 DEF Logged, Functions, Unique, Source
  <2> QED BY <1>0, <1>2, <1>10, <2>1, <2>2 DEF Logged
<1>18. CellRefs'
  <2>1. \A b \in stack' : ObjHere(b)'
    <3>1. SUFFICES ASSUME NEW b \in stack' PROVE ObjHere(b)'
      OBVIOUS
    <3>2. PICK a \in stack : b = ForwardObj(a)
      BY <1>2
    <3>3. a \in ObjRef /\ ObjOk(a) /\ FindObj(a) \subseteq todoObj'
      BY <1>0, <1>2 DEF RunRefs, ObjOk, ObjRef
    <3>4. PICK z : z = b
      OBVIOUS
    <3> QED BY <1>9, <3>2, <3>3
  <2>2. \A b \in ObjAddr : obj'[b].live /\ b[2] # to => TabOk(obj[b].slots)' /\ ObjOk(obj[b].proto)'
    BY <1>2, <1>10 DEF RunRefs
  <2>3. \A t \in TabAddr : tab'[t].live /\ t[2] # to => \A k \in Key : ObjOk(tab[t].val[k])'
    BY <1>2, <1>10 DEF RunRefs
  <2>4. \A b \in ObjAddr : obj'[b].live /\ b[2] = to =>
          \/ TabHere(obj[b].slots)' /\ ObjHere(obj[b].proto)'
          \/ b \in wbObj /\ TabOk(obj[b].slots)' /\ ObjOk(obj[b].proto)'
    <3>1. SUFFICES ASSUME NEW b \in ObjAddr, obj[b].live, b[2] = to, b \notin wbObj
                   PROVE  TabHere(obj[b].slots)' /\ ObjHere(obj[b].proto)'
      BY <1>2, <1>10 DEF RunRefs
    <3>2. ~ Full /\ obj[b].gen = 1
      BY <1>0, <1>3, <3>1 DEF Generations
    <3>3. /\ ~ YoungTab(obj[b].slots) /\ ~ YoungObj(obj[b].proto) /\ TabOk(obj[b].slots) /\ ObjOk(obj[b].proto)
          /\ obj[b].slots \in TabRef /\ obj[b].proto \in ObjRef
      BY <3>1, <3>2, CellTypes DEF RunOld, RunRefs
    <3>4. TabHere(obj[b].slots) /\ ObjHere(obj[b].proto)
      BY <1>4, <3>2, <3>3
    <3> QED BY <1>2, <1>9, <3>3, <3>4
  <2>5. \A t \in TabAddr : tab'[t].live /\ t[2] = to =>
          \/ \A k \in Key : ObjHere(tab[t].val[k])'
          \/ t \in wbSlot /\ \A k \in Key : ObjOk(tab[t].val[k])'
    <3>1. SUFFICES ASSUME NEW b \in TabAddr, tab[b].live, b[2] = to, b \notin wbSlot, NEW k \in Key
                   PROVE  ObjHere(tab[b].val[k])'
      BY <1>2, <1>10 DEF RunRefs
    <3>2. ~ Full /\ tab[b].gen = 1
      BY <1>0, <1>3, <3>1 DEF Generations
    <3>3. ~ YoungObj(tab[b].val[k]) /\ ObjOk(tab[b].val[k]) /\ tab[b].val[k] \in ObjRef
      BY <3>1, <3>2, CellTypes DEF RunOld, RunRefs
    <3>4. ObjHere(tab[b].val[k])
      BY <1>4, <3>2, <3>3
    <3> QED BY <1>2, <1>9, <3>3, <3>4
  <2> QED BY <1>2, <2>1, <2>2, <2>3, <2>4, <2>5 DEF CellRefs
<1>19. CtxRefs'
  <2>1. \A c \in Ctx : /\ TabOk(ctx[c].slots) /\ ObjOk(ctx[c].obj)
                       /\ ~ Full /\ ctx[c].gen = 1 /\ ~ ctx[c].wb => InTo(ctx[c].slots) /\ InTo(ctx[c].obj)
    <3>1. \A c \in Ctx : /\ TabOk(ctx[c].slots) /\ ObjOk(ctx[c].obj) /\ ctx[c].slots \in TabRef /\ ctx[c].obj \in ObjRef
                         /\ ctx[c].gen = 1 /\ ~ ctx[c].wb => ~ YoungTab(ctx[c].slots) /\ ~ YoungObj(ctx[c].obj)
      BY CellTypes DEF RunRefs, RunOld
    <3> QED BY <1>4, <3>1
  <2> QED BY <1>0, <1>2, <1>10, <2>1 DEF CtxRefs, InTo
<1>20. Reachable'
  <2>1. \A d \in Ctx : /\ Settled(d)' <=> Settled(d)
                       /\ Settled(d) => Reached(d)'
                       /\ Settled(d) <=> ~ Full /\ ctx[d].gen = 1
    BY <1>0, <1>2 DEF Settled, Reached
  <2>2. \A i \in DOMAIN frames' : Reached(frames[i])'
    <3>1. SUFFICES ASSUME NEW i \in DOMAIN frames PROVE Reached(frames[i])'
      BY <1>2
    <3>2. PICK c \in Ctx : c = frames[i]
      BY DEF Types, RootTypes
    <3>3. SUFFICES Reached(c)'
      BY <1>2, <3>2
    <3>4. CASE Settled(c)
      BY <2>1, <3>4
    <3>5. CASE c \in FindCtx(c)
      BY <1>2, <3>2, <3>5 DEF Reached
    <3> QED BY <3>4, <3>5, FoundReached
  <2>3. \A b \in ObjAddr : obj'[b].live /\ b[2] = to /\ obj'[b].scope # Nil => Reached(obj[b].scope)'
    <3>1. SUFFICES ASSUME NEW b \in ObjAddr, obj[b].live, b[2] = to, obj[b].scope # Nil PROVE Reached(obj[b].scope)'
      BY <1>2
    <3>2. ~ Full /\ obj[b].gen = 1
      BY <1>0, <1>3, <3>1 DEF Generations
    <3>3. PICK c \in Ctx : c = obj[b].scope
      BY <3>1, CellTypes DEF CtxRef
    <3>4. Settled(c)
      BY <2>1, <3>1, <3>2, <3>3 DEF RunOld
    <3> QED BY <1>2, <2>1, <3>3, <3>4
  <2>4. \A d \in Ctx : Settled(d)' /\ ctx'[d].prev # Nil => Reached(ctx[d].prev)'
    <3>1. SUFFICES ASSUME NEW d \in Ctx, Settled(d), ctx[d].prev # Nil PROVE Reached(ctx[d].prev)'
      BY <1>2, <2>1
    <3>2. PICK c \in Ctx : c = ctx[d].prev
      BY <3>1, CellTypes DEF CtxRef
    <3>3. Settled(c)
      BY <2>1, <3>1, <3>2 DEF RunOld
    <3> QED BY <1>2, <2>1, <3>2, <3>3
  <2> QED BY <1>2, <2>2, <2>3, <2>4 DEF Reachable, RunOld
<1>21. phase' # "run"
  BY <1>2
<1>22. Collecting'
  BY <1>11, <1>12, <1>13, <1>14, <1>16, <1>17, <1>18, <1>19, <1>20, <1>21, TypesStep DEF Collecting, Heap, Next
<1>23. ASSUME Counted, Pooled, Acyclic PROVE Counted' /\ Pooled' /\ Acyclic'
  <2>1. Counted'
    BY <1>2, <1>23, NothingCounted DEF PrevKept, ScopesKept
  <2> QED BY <1>2, <1>23, <2>1 DEF Pooled, Acyclic
<1> QED BY <1>22, <1>23

(* A context that nothing refers to has no count.                          *)
LEMMA UnheldZero ==
  ASSUME Types, Counted, NEW c \in Ctx, Unheld(c)
  PROVE  ctx[c].ref = 0
<1>1. FramesOf(c) = {} /\ FunctionsOf(c) = {} /\ ScopesIn(c) = {}
  BY DEF Unheld, FramesOf, FunctionsOf, ScopesIn
<1>2. Cardinality({}) = 0
  BY FS_EmptySet
<1>3. c \notin wbCtx /\ freeing # c
  BY DEF Unheld
<1>4. Holders(c) = 0
  <2>1. Holders(c) = Cardinality(FramesOf(c)) + Cardinality(FunctionsOf(c)) + Cardinality(ScopesIn(c))
                      + (IF c \in wbCtx THEN 1 ELSE 0) + (IF freeing = c THEN 1 ELSE 0)
    BY Parts
  <2>2. Cardinality(FramesOf(c)) = 0 /\ Cardinality(FunctionsOf(c)) = 0 /\ Cardinality(ScopesIn(c)) = 0
    BY <1>1, <1>2
  <2> QED BY <1>3, <2>1, <2>2
<1> QED BY <1>4 DEF Counted

(* At the end of a collection every context in use has been traversed, or  *)
(* is old: one that was not would be held by one that was not, and scopes  *)
(* are not enclosed in a circle.                                           *)
LEMMA AllSettled ==
  ASSUME Types, Phases, Logged, Reachable, Counted, Pooled, Acyclic, ResetHeaps
  PROVE  \A c \in Ctx : ctx[c].ref # 0 => Settled(c)
<1>0. /\ phase = "destruct" /\ dying = {} /\ freeing = Nil /\ todoCtx = {} /\ wbCtx = {}
  BY DEF ResetHeaps, Phases
<1>1. \A c : Reached(c) => Settled(c)
  BY <1>0 DEF Reached
<1> DEFINE U == {c \in Ctx : ctx[c].ref # 0 /\ ~ Settled(c)}
<1>2. SUFFICES ASSUME U # {} PROVE FALSE
  OBVIOUS
<1>3. U \in SUBSET Ctx
  OBVIOUS
<1>4. PICK c \in U : \A d \in U : ctx[d].prev # c
  <2> HIDE DEF U
  <2> QED BY <1>2, <1>3 DEF Acyclic
<1>5. c \in Ctx /\ ctx[c].ref # 0 /\ ~ Settled(c)
  OBVIOUS
<1>6. \A i \in DOMAIN frames : frames[i] # c
  BY <1>1, <1>5 DEF Reachable
<1>7. \A a \in desLog \cup dying : obj[a].scope # c
  BY <1>0, <1>1, <1>5 DEF Reachable, Logged, Functions
<1>8. \A d \in Ctx : ctx[d].prev # c
  <2>1. SUFFICES ASSUME NEW d \in Ctx, ctx[d].prev = c PROVE FALSE
    OBVIOUS
  <2>2. c # Nil
    BY <1>5, Addresses
  <2>3. ctx[d].ref # 0
    BY <2>1, <2>2 DEF Pooled
  <2>4. Settled(d)
    BY <1>4, <2>1, <2>3
  <2> QED BY <1>1, <1>5, <2>1, <2>2, <2>4 DEF Reachable
<1>9. Unheld(c)
  BY <1>0, <1>5, <1>6, <1>7, <1>8, Addresses DEF Unheld
<1> QED BY <1>5, <1>9, UnheldZero

(* The collection ends: what the program has again is whole, and all old.  *)
LEMMA ResetKeeps ==
  ASSUME Collecting, Counted, Pooled, Acyclic, ResetHeaps
  PROVE  /\ Heap' /\ RunRefs' /\ RunOld'
         /\ Counted' /\ Pooled' /\ Acyclic' /\ phase' = "run"
<1>0. /\ Types /\ Generations /\ Unique /\ Phases /\ Work /\ Copies /\ Lists /\ Logged
      /\ CellRefs /\ CtxRefs /\ Reachable /\ phase = "destruct"
      /\ dying = {} /\ freeing = Nil /\ todoObj = {} /\ todoTab = {} /\ todoCtx = {}
      /\ wbObj = {} /\ wbSlot = {} /\ wbCtx = {}
  BY DEF Collecting, Heap, ResetHeaps, Phases
<1>1. \A c \in Ctx : ctx[c].ref # 0 => Settled(c)
  BY <1>0, AllSettled
<1>2. /\ ctx' = ctx /\ stack' = stack /\ frames' = frames /\ wbObj' = wbObj /\ wbSlot' = wbSlot
      /\ wbCtx' = wbCtx /\ desLog' = desLog /\ phase' = "run" /\ visited' = {} /\ dying' = dying /\ freeing' = freeing
      /\ todoTab' = todoTab /\ todoObj' = todoObj /\ todoCtx' = todoCtx
  BY DEF ResetHeaps, rootVars, wbVars
<1>3. old' = to
  BY <1>0, Heaps DEF ResetHeaps
<1>4. /\ \A a \in ObjAddr : /\ obj'[a].live <=> obj[a].live /\ a[2] = to
                            /\ obj'[a].live => obj'[a] = obj[a]
      /\ \A t \in TabAddr : /\ tab'[t].live <=> tab[t].live /\ t[2] = to
                            /\ tab'[t].live => tab'[t] = tab[t]
  <2> DEFINE reset == IF Full THEN {0, old} ELSE {0}
  <2>1. /\ \A a \in ObjAddr : obj'[a] = IF a[2] \in reset THEN DeadObj ELSE obj[a]
        /\ \A t \in TabAddr : tab'[t] = IF t[2] \in reset THEN DeadTab ELSE tab[t]
    BY DEF ResetHeaps
  <2>2. ~ DeadObj.live /\ ~ DeadTab.live
    BY DEF DeadObj, DeadTab
  <2>3. \A g, s : InHeap(g, s) => (s = to <=> s \notin reset)
    BY <1>0, Heaps DEF InHeap
  <2> HIDE DEF reset
  <2> QED BY <1>0, <2>1, <2>2, <2>3 DEF Generations
<1>5. \A g : InHeap(g, to) => g = 1
  BY <1>0, Heaps DEF InHeap
<1>6. /\ \A a \in ObjAddr : obj'[a].live => obj'[a].gen = 1 /\ a[2] = to
      /\ \A t \in TabAddr : tab'[t].live => tab'[t].gen = 1 /\ t[2] = to
  BY <1>0, <1>4, <1>5 DEF Generations
<1>7. /\ \A x \in ObjRef : ObjHere(x) \/ (ObjOk(x) /\ InTo(x)) => x = Nil \/ obj'[x].live
      /\ \A x \in TabRef : TabHere(x) \/ (TabOk(x) /\ InTo(x)) => x = Nil \/ tab'[x].live
  BY <1>0, <1>4 DEF ObjRef, TabRef, ObjHere, TabHere, ObjOk, TabOk, InTo
<1>11. Generations'
  <2>1. /\ \A a \in ObjAddr : obj'[a].live => InHeap(obj[a].gen, a[2])'
        /\ \A t \in TabAddr : tab'[t].live => InHeap(tab[t].gen, t[2])'
    BY <1>3, <1>0, <1>6, Heaps DEF InHeap
  <2> QED BY <2>1 DEF Generations
<1>12. Unique'
  BY <1>6, Addresses DEF Unique
<1>13. Phases' /\ Work'
  BY <1>0, <1>2 DEF Phases, Work
<1>14. Copies'
  BY <1>0, <1>4 DEF Copies
<1>16. Lists'
  BY <1>0, <1>2, <1>4 DEF Lists
<1>17. Logged'
  <2>1. Functions' = desLog
    <3>1. \A a \in ObjAddr : a \in Functions' <=> a \in Functions /\ a[2] = to
      BY <1>4 DEF Functions
    <3>2. Functions' \subseteq ObjAddr /\ Functions \subseteq ObjAddr
      BY DEF Functions
    <3> QED BY <1>0, <3>1, <3>2 DEF Logged
  <2> QED BY <1>0, <1>2, <2>1 DEF Logged
<1>18. \A c \in Ctx : ~ ctx[c].wb
  <2>1. SUFFICES ASSUME NEW c \in Ctx, ctx[c].wb PROVE FALSE
    OBVIOUS
  <2>2. Settled(c)
    BY <1>1, <2>1 DEF Pooled
  <2>3. c \notin visited /\ freeing # c
    BY <1>0, <2>1, Addresses DEF CtxRefs
  <2> QED BY <1>0, <2>1, <2>2, <2>3 DEF Settled, Reachable
<1>19. \A c \in Ctx : (ctx[c].slots = Nil \/ tab'[ctx[c].slots].live) /\ (ctx[c].obj = Nil \/ obj'[ctx[c].obj].live)
  <2>1. SUFFICES ASSUME NEW c \in Ctx
                 PROVE  (ctx[c].slots = Nil \/ tab'[ctx[c].slots].live) /\ (ctx[c].obj = Nil \/ obj'[ctx[c].obj].live)
    OBVIOUS
  <2>2. CASE ctx[c].ref = 0
    BY <2>2 DEF Pooled
  <2>3. CASE c \in visited
    BY <1>0, <1>7, <2>3, CellTypes DEF CtxRefs
  <2>4. CASE ctx[c].ref # 0 /\ c \notin visited
    BY <1>0, <1>1, <1>7, <1>18, <2>4, CellTypes DEF CtxRefs, Settled
  <2> QED BY <2>2, <2>3, <2>4
<1>20. RunRefs'
  <2>1. \A a \in stack' : obj'[a].live
    BY <1>0, <1>2, <1>7, Addresses DEF CellRefs, Types, RootTypes, ObjRef
  <2>2. \A a \in ObjAddr : obj'[a].live => TabOk(obj[a].slots)' /\ ObjOk(obj[a].proto)'
    BY <1>0, <1>4, <1>7, CellTypes DEF CellRefs, TabOk, ObjOk
  <2>3. \A t \in TabAddr : tab'[t].live => \A k \in Key : ObjOk(tab[t].val[k])'
    BY <1>0, <1>4, <1>7, CellTypes DEF CellRefs, ObjOk
  <2>4. \A c \in Ctx : TabOk(ctx[c].slots)' /\ ObjOk(ctx[c].obj)'
    BY <1>2, <1>19 DEF TabOk, ObjOk
  <2> QED BY <2>1, <2>2, <2>3, <2>4 DEF RunRefs
<1>21. \A c \in Ctx : ctx[c].ref # 0 => ctx[c].gen = 1
  BY <1>0, <1>1 DEF CtxRefs, Settled
<1>22. \A c \in Ctx : ctx[c].ref = 0 => Unheld(c)
  BY <1>0, Uncounted
<1>23. RunOld'
  <2>1. /\ \A x \in ObjRef : ObjOk(x)' => ~ YoungObj(x)'
        /\ \A x \in TabRef : TabOk(x)' => ~ YoungTab(x)'
    BY <1>6 DEF ObjRef, TabRef, ObjOk, TabOk, YoungObj, YoungTab
  <2>2. \A a \in ObjAddr : obj'[a].live => ~ YoungTab(obj[a].slots)' /\ ~ YoungObj(obj[a].proto)'
    BY <1>4, <1>20, <2>1, <1>0, CellTypes DEF RunRefs
  <2>3. \A t \in TabAddr : tab'[t].live => \A k \in Key : ~ YoungObj(tab[t].val[k])'
    BY <1>4, <1>20, <2>1, <1>0, CellTypes DEF RunRefs
  <2>4. \A c \in Ctx : ~ YoungTab(ctx[c].slots)' /\ ~ YoungObj(ctx[c].obj)'
    BY <1>2, <1>20, <2>1, <1>0, CellTypes DEF RunRefs
  <2>5. ASSUME NEW a \in ObjAddr, obj'[a].live, obj'[a].scope # Nil PROVE ctx'[obj'[a].scope].gen = 1
    <3>1. PICK c \in Ctx : c = obj[a].scope
      BY <1>0, <1>4, <2>5, CellTypes DEF CtxRef
    <3>2. obj'[a].scope = c /\ a \in desLog
      BY <1>0, <1>4, <2>5, <3>1 DEF Logged, Functions
    <3>3. ctx[c].ref # 0
      BY <1>22, <3>1, <3>2 DEF Unheld
    <3> QED BY <1>2, <1>21, <3>2, <3>3
  <2>6. ASSUME NEW d \in Ctx, ctx[d].prev # Nil PROVE ctx[ctx[d].prev].gen = 1
    <3>1. PICK c \in Ctx : c = ctx[d].prev
      BY <1>0, <2>6, CellTypes DEF CtxRef
    <3>2. ctx[c].ref # 0
      BY <1>22, <3>1 DEF Unheld
    <3> QED BY <1>21, <3>1, <3>2
  <2> QED BY <1>0, <1>2, <1>18, <2>2, <2>3, <2>4, <2>5, <2>6 DEF RunOld
<1>24. Counted' /\ Pooled' /\ Acyclic'
  <2>1. ScopesKept
    BY <1>0, <1>4 DEF ScopesKept, Logged, Functions
  <2>2. Counted'
    BY <1>2, <2>1, NothingCounted DEF PrevKept
  <2> QED BY <1>2, <2>2 DEF Pooled, Acyclic
<1> QED BY <1>2, <1>11, <1>12, <1>13, <1>14, <1>16, <1>17, <1>20, <1>23, <1>24 DEF Heap

(***************************************************************************)
(* Every step preserves the invariant.                                     *)
(***************************************************************************)

(* Between two collections the heap only depends on what it holds.         *)
LEMMA HeapStays ==
  ASSUME Heap, phase = "run", UNCHANGED <<obj, tab, wbVars, desLog, old, phase, workVars, dying>>
  PROVE  Heap'
<1>1. /\ obj' = obj /\ tab' = tab /\ wbObj' = wbObj /\ wbSlot' = wbSlot /\ wbCtx' = wbCtx /\ desLog' = desLog
      /\ old' = old /\ phase' = phase /\ todoObj' = todoObj /\ todoTab' = todoTab /\ todoCtx' = todoCtx
      /\ visited' = visited /\ dying' = dying
  BY DEF wbVars, workVars
<1>2. todoObj = {} /\ todoTab = {} /\ Generations /\ Unique /\ Phases /\ Copies /\ Lists /\ Logged
  BY DEF Heap, Phases
<1>3. Generations' /\ Unique'
  BY <1>1, <1>2 DEF Generations, InHeap, Unique, Source
<1>4. Phases' /\ Work' /\ Copies'
  BY <1>1, <1>2 DEF Phases, Work, Copies
<1>5. Lists' /\ Logged'
  BY <1>1, <1>2 DEF Lists, Logged, Functions
<1> QED BY <1>3, <1>4, <1>5 DEF Heap

(* The steps that write no cell change no count.                           *)
LEMMA CountsStay ==
  ASSUME Counts, UNCHANGED <<obj, ctx, frames, freeing, wbCtx, desLog, dying>>
  PROVE  Counts'
<1>1. ScopesKept /\ PrevKept
  BY DEF ScopesKept, PrevKept
<1>2. Counted'
  BY <1>1, NothingCounted DEF Counts
<1> QED BY <1>2 DEF Counts, Pooled, Acyclic

(* copyObject_c and copySlotTable: a copy is not yet in the log.           *)
LEMMA CopyCounts ==
  ASSUME Collecting, Types', Counts, (\E a \in todoObj : CopyObject(a)) \/ (\E t \in todoTab : CopySlotTable(t))
  PROVE  Counts'
<1>1. /\ ctx' = ctx /\ frames' = frames /\ freeing' = freeing /\ wbCtx' = wbCtx
      /\ desLog' = desLog /\ dying' = dying
  BY DEF CopyObject, CopySlotTable, rootVars, wbVars
<1>2. ScopesKept
  <2>1. CASE \E t \in todoTab : CopySlotTable(t)
    BY <2>1 DEF CopySlotTable, ScopesKept
  <2>2. ASSUME NEW a \in todoObj, CopyObject(a) PROVE ScopesKept
    <3>1. ~ obj[To(a)].live
      BY DEF Collecting, Heap, Work
    <3>2. \A b \in desLog \cup dying : b \in ObjAddr /\ obj[b].live
      BY DEF Collecting, Heap, Logged, Functions
    <3>3. \A b \in ObjAddr : b # To(a) => obj'[b] = obj[b]
      BY <2>2 DEF CopyObject, Collecting, Types, HeapTypes
    <3> QED BY <3>1, <3>2, <3>3 DEF ScopesKept
  <2> QED BY <2>1, <2>2
<1>3. PrevKept
  BY <1>1 DEF PrevKept
<1>4. Counted'
  BY <1>1, <1>2, <1>3, NothingCounted DEF Counts
<1> QED BY <1>1, <1>4 DEF Counts, Pooled, Acyclic

(* A turn of the loop of ivm_context_free after a return.                  *)
LEMMA RunFrees ==
  ASSUME Types, Heap, Counts, RunRefs, RunOld, phase = "run", ContextFree
  PROVE  Heap' /\ Counts' /\ RunRefs' /\ RunOld'
<1>1. /\ obj' = obj /\ tab' = tab /\ stack' = stack /\ frames' = frames /\ wbObj' = wbObj /\ wbSlot' = wbSlot
      /\ wbCtx' = wbCtx /\ desLog' = desLog /\ UNCHANGED gcVars /\ freeing \in Ctx
  BY DEF ContextFree, rootVars, wbVars, Types, RootTypes, CtxRef
<1>2. Heap'
  BY <1>1, HeapStays DEF gcVars, wbVars
<1>3. /\ Counts'
      /\ ctx[freeing].ref = 1 => ctx'[freeing] = DeadCtx
      /\ \A c \in Ctx : c # freeing \/ ctx[freeing].ref # 1 => CtxKept(c)
  BY FreeCounted DEF Counts
<1>4. /\ DeadCtx.slots = Nil /\ DeadCtx.obj = Nil /\ DeadCtx.prev = Nil /\ ~ DeadCtx.wb /\ DeadCtx.gen = 0
  BY DEF DeadCtx
<1>5. ctx[freeing].ref = 1 =>
        /\ \A a \in desLog \cup dying : obj[a].scope # freeing
        /\ \A d \in Ctx : ctx[d].prev # freeing
        /\ freeing \notin wbCtx
  BY <1>1, Uncounted DEF Counts
<1>6. \A c \in Ctx : ctx'[c].prev # Nil => ctx'[c].prev \in Ctx
  <2>1. \A c \in Ctx : ctx[c].prev \in CtxRef
    BY CellTypes
  <2> QED BY <1>3, <1>4, <2>1 DEF CtxKept, CtxRef
<1>7. RunRefs'
  <2>1. /\ \A x : TabOk(x)' <=> TabOk(x)
        /\ \A x : ObjOk(x)' <=> ObjOk(x)
    BY <1>1 DEF TabOk, ObjOk
  <2>2. \A c \in Ctx : TabOk(ctx'[c].slots) /\ ObjOk(ctx'[c].obj)
    BY <1>3, <1>4 DEF RunRefs, CtxKept, TabOk, ObjOk
  <2>3. \A c \in Ctx : TabOk(ctx[c].slots)' /\ ObjOk(ctx[c].obj)'
    BY <1>1, <2>2 DEF TabOk, ObjOk
  <2>4. /\ \A a \in ObjAddr : obj'[a].live => TabOk(obj[a].slots)' /\ ObjOk(obj[a].proto)'
        /\ \A t \in TabAddr : tab'[t].live => \A k \in Key : ObjOk(tab[t].val[k])'
    BY <1>1 DEF RunRefs, TabOk, ObjOk
  <2>5. \A a \in stack' : obj'[a].live
    BY <1>1 DEF RunRefs
  <2> QED BY <2>3, <2>4, <2>5 DEF RunRefs
<1>8. RunOld'
  <2>1. ASSUME NEW a \in ObjAddr, obj'[a].live, obj'[a].gen = 1
        PROVE  /\ YoungTab(obj[a].slots)' \/ YoungObj(obj[a].proto)' => a \in wbObj'
               /\ obj'[a].scope # Nil => ctx'[obj'[a].scope].gen = 1
    <3>1. YoungTab(obj[a].slots)' \/ YoungObj(obj[a].proto)' => a \in wbObj'
      BY <1>1, <2>1 DEF RunOld, YoungTab, YoungObj
    <3>2. ASSUME obj[a].scope # Nil PROVE ctx'[obj[a].scope].gen = 1
      <4>1. obj[a].scope \in Ctx /\ a \in desLog
        BY <1>1, <2>1, <3>2, CellTypes DEF CtxRef, Heap, Logged, Functions
      <4>2. ctx[obj[a].scope].gen = 1
        BY <1>1, <2>1, <3>2 DEF RunOld
      <4> QED BY <1>3, <1>5, <4>1, <4>2 DEF CtxKept
    <3> QED BY <1>1, <3>1, <3>2
  <2>2. \A t \in TabAddr : tab'[t].live /\ tab'[t].gen = 1 =>
          \A k \in Key : YoungObj(tab[t].val[k])' => t \in wbSlot'
    BY <1>1 DEF RunOld, YoungObj
  <2>3. ASSUME NEW c \in Ctx
        PROVE  /\ ctx'[c].wb <=> c \in wbCtx'
               /\ ctx'[c].gen = 1 /\ (YoungTab(ctx[c].slots)' \/ YoungObj(ctx[c].obj)') => c \in wbCtx'
               /\ ctx'[c].gen = 1 /\ ctx'[c].prev # Nil => ctx'[ctx'[c].prev].gen = 1
    <3>1. CASE c = freeing /\ ctx[freeing].ref = 1
      BY <1>1, <1>3, <1>4, <1>5, <3>1
    <3>2. CASE c # freeing \/ ctx[freeing].ref # 1
      <4>1. CtxKept(c)
        BY <1>3, <3>2
      <4>2. ctx'[c].gen = 1 /\ (YoungTab(ctx[c].slots)' \/ YoungObj(ctx[c].obj)') => c \in wbCtx'
        BY <1>1, <4>1 DEF RunOld, CtxKept, YoungTab, YoungObj
      <4>3. ASSUME ctx'[c].gen = 1, ctx'[c].prev # Nil PROVE ctx'[ctx'[c].prev].gen = 1
        <5>1. ctx'[c].prev = ctx[c].prev /\ ctx[c].prev \in Ctx /\ ctx[ctx[c].prev].gen = 1
          BY <1>6, <4>1, <4>3 DEF CtxKept, RunOld
        <5>2. CtxKept(ctx[c].prev)
          BY <1>3, <1>5, <5>1
        <5> QED BY <5>1, <5>2 DEF CtxKept
      <4>4. ctx'[c].wb <=> c \in wbCtx'
        BY <1>1, <4>1 DEF RunOld, CtxKept
      <4> QED BY <4>2, <4>3, <4>4
    <3> QED BY <3>1, <3>2
  <2> QED BY <2>1, <2>2, <2>3 DEF RunOld
<1> QED BY <1>2, <1>3, <1>7, <1>8

(* A step that moves nothing between two collections.                      *)
LEMMA RunStays ==
  ASSUME RunRefs, RunOld, UNCHANGED <<obj, tab, ctx, stack, wbVars>>
  PROVE  RunRefs' /\ RunOld'
BY DEF RunRefs, RunOld, TabOk, ObjOk, YoungTab, YoungObj, wbVars

(* An instruction.                                                         *)
LEMMA MutateKeeps ==
  ASSUME Inv, ~ AnyLoc, Running, Mutate, UNCHANGED <<gcVars, freeing>>, Types'
  PROVE  phase' = "run" /\ Heap' /\ Counts' /\ RunRefs' /\ RunOld'
<1>1. phase = "run" /\ phase' = "run" /\ Types /\ Heap /\ Counts /\ RunRefs /\ RunOld
  BY DEF Inv, Running, Program, gcVars
<1>2. Ready
  <2>1. \A c \in Ctx : ctx[c].ref = 0 => Unheld(c)
    BY <1>1, Uncounted DEF Counts
  <2> QED BY <1>1, <2>1 DEF Ready, Heap
<1>3. Effect
  BY <1>2, MutateEffect
<1>4. Generations' /\ Unique' /\ Lists' /\ Logged' /\ RunRefs' /\ RunOld'
  BY <1>2, <1>3, EffectHeap, EffectRefs
<1>5. Counts'
  BY <1>1, <1>2, MutateCounted DEF Counts
<1>6. Copies'
  <2>1. /\ \A a, b \in ObjAddr : obj'[a].live /\ obj'[b].live /\ a[1] = b[1] => a = b
        /\ \A t, u \in TabAddr : tab'[t].live /\ tab'[u].live /\ t[1] = u[1] => t = u
    BY <1>1, <1>4 DEF Unique, Source
  <2> QED BY <2>1 DEF Copies, SameObj, SameTab, SameId
<1>7. Phases' /\ Work'
  <2>1. /\ phase' = phase /\ todoObj' = todoObj /\ todoTab' = todoTab /\ todoCtx' = todoCtx
        /\ visited' = visited /\ dying' = dying
    BY DEF gcVars, workVars
  <2>2. todoObj = {} /\ todoTab = {}
    BY <1>1 DEF Heap, Phases
  <2> QED BY <1>1, <2>1, <2>2 DEF Heap, Phases, Work
<1> QED BY <1>1, <1>4, <1>5, <1>6, <1>7 DEF Heap

(* The initial state.                                                      *)
LEMMA InitInv == Init => Inv
<1> SUFFICES ASSUME Init PROVE Inv
  OBVIOUS
<1>1. /\ \A a \in ObjAddr : obj[a] = DeadObj
      /\ \A t \in TabAddr : tab[t] = DeadTab
      /\ stack = {} /\ frames = <<Global>>
      /\ wbObj = {} /\ wbSlot = {} /\ wbCtx = {} /\ desLog = {} /\ dying = {}
      /\ old = 1 /\ gcGen = 0 /\ phase = "run"
      /\ todoObj = {} /\ todoTab = {} /\ todoCtx = {} /\ visited = {}
      /\ freeing = Nil
  BY DEF Init
<1>2. /\ ~ DeadObj.live /\ ~ DeadTab.live
      /\ DeadCtx.slots = Nil /\ DeadCtx.obj = Nil /\ DeadCtx.prev = Nil /\ ~ DeadCtx.wb /\ DeadCtx.gen = 0
      /\ DeadCtx.ref = 0
  BY DEF DeadObj, DeadTab, DeadCtx
<1>3. \A c \in Ctx : /\ ctx[c].slots = Nil /\ ctx[c].obj = Nil /\ ctx[c].prev = Nil /\ ~ ctx[c].wb /\ ctx[c].gen = 0
                     /\ ctx[c].ref = IF c = Global THEN 1 ELSE 0
                     /\ ctx[c] \in CtxCellI
  <2>1. DeadCtx \in CtxCellI
    BY Cells
  <2>2. [DeadCtx EXCEPT !.ref = 1] \in CtxCellI
    BY <2>1 DEF CtxCellI
  <2>3. LET d == [DeadCtx EXCEPT !.ref = 1] IN
        d.slots = Nil /\ d.obj = Nil /\ d.prev = Nil /\ ~ d.wb /\ d.gen = 0 /\ d.ref = 1
    BY DEF DeadCtx
  <2>4. \A c \in Ctx : ctx[c] = IF c = Global THEN [DeadCtx EXCEPT !.ref = 1] ELSE DeadCtx
    BY DEF Init
  <2> QED BY <1>2, <2>1, <2>2, <2>3, <2>4
<1>4. Types
  <2>1. obj \in [ObjAddr -> ObjCell] /\ tab \in [TabAddr -> TabCell]
    BY Cells DEF Init
  <2>2. ctx \in [Ctx -> CtxCellI]
    <3>1. ctx = [c \in Ctx |-> ctx[c]]
      BY DEF Init
    <3> QED BY <1>3, <3>1
  <2>3. frames \in Seq(Ctx) /\ Len(frames) \in 1..MaxFrames
    BY <1>1, CollectorAssumption
  <2> QED BY <1>1, <2>1, <2>2, <2>3 DEF Types, HeapTypes, RootTypes, ListTypes, WorkTypes, CtxRef, Bit
<1>5. Heap
  <2>1. Functions = {}
    BY <1>1, <1>2 DEF Functions
  <2> QED BY <1>1, <1>2, <2>1 DEF Heap, Generations, Unique, Phases, Work, Copies, Lists, Logged
<1>6. Program /\ Collection
  BY <1>1, <1>2, <1>3, CollectorAssumption DEF Program, Collection, RunRefs, RunOld, TabOk, ObjOk, YoungTab, YoungObj
<1>7. Counted
  <2>1. SUFFICES ASSUME NEW c \in Ctx PROVE ctx[c].ref = Holders(c)
    BY DEF Counted
  <2>2. FunctionsOf(c) = {} /\ wbCtx \cap {c} = {} /\ freeing # c
    BY <1>1, CollectorAssumption DEF FunctionsOf
  <2>3. ScopesIn(c) = {}
    BY <1>3, CollectorAssumption DEF ScopesIn
  <2>4. FramesOf(c) = IF c = Global THEN {1} ELSE {}
    <3>1. DOMAIN frames = {1} /\ frames[1] = Global
      BY <1>1
    <3> QED BY <3>1 DEF FramesOf
  <2>5. Cardinality({}) = 0 /\ Cardinality({1}) = 1
    BY FS_EmptySet, FS_Singleton
  <2>6. Holders(c) = (IF c = Global THEN 1 ELSE 0) + 0 + 0 + 0 + 0
    BY <2>2, <2>3, <2>4, <2>5 DEF Holders
  <2> QED BY <1>3, <2>6
<1>8. Pooled /\ Acyclic
  BY <1>3, CollectorAssumption DEF Pooled, Acyclic
<1> QED BY <1>4, <1>5, <1>6, <1>7, <1>8 DEF Inv, Counts

(* Every step.  Programs that assign any object to "loc" are left out.     *)
LEMMA InvStep ==
  ASSUME ~ AnyLoc
  PROVE  Inv /\ [Next]_vars => Inv'
<1> SUFFICES ASSUME Inv, [Next]_vars PROVE Inv'
  OBVIOUS
<1>1. Types /\ Heap /\ Counts /\ Types'
  BY TypesStep DEF Inv
<1>2. /\ phase = "run" => RunRefs /\ RunOld
      /\ phase # "run" => Collecting
  BY DEF Inv, Program, Collection, Collecting
<1>3. ASSUME phase' = "run", Heap', Counts', RunRefs', RunOld' PROVE Inv'
  BY <1>1, <1>3 DEF Inv, Program, Collection
<1>4. ASSUME Collecting', Counts' PROVE Inv'
  BY <1>4 DEF Inv, Program, Collection, Collecting
<1>5. CASE UNCHANGED vars
  <2>1. UNCHANGED <<obj, tab, ctx, stack, frames, wbObj, wbSlot, wbCtx, desLog, old, gcGen, phase,
                    todoObj, todoTab, todoCtx, visited, dying, freeing>>
    BY <1>5 DEF vars, heapVars, rootVars, wbVars, gcVars, workVars
  <2>2. Counts'
    BY <1>1, <2>1, CountsStay
  <2>3. CASE phase = "run"
    <3>1. Heap' /\ RunRefs' /\ RunOld'
      BY <1>1, <1>2, <2>1, <2>3, HeapStays, RunStays DEF wbVars, workVars
    <3> QED BY <1>3, <2>1, <2>2, <2>3, <3>1
  <2>4. CASE phase # "run"
    <3>1. Unmoved /\ Collecting
      BY <1>2, <2>1, <2>4 DEF Unmoved
    <3>2. /\ Generations' /\ Unique' /\ Work' /\ Copies' /\ Lists' /\ CellRefs' /\ phase' # "run"
          /\ to' = to /\ Full' = Full
          /\ \A b : To(b)' = To(b)
          /\ Functions' = Functions
          /\ \A y : ObjHere(y) <=> ObjHere(y)'
          /\ \A y : TabHere(y) <=> TabHere(y)'
          /\ \A y : ObjOk(y) <=> ObjOk(y)'
          /\ \A y : TabOk(y) <=> TabOk(y)'
      BY <3>1, UnmovedKept
    <3>3. Phases' /\ Logged'
      BY <1>1, <2>1, <3>2 DEF Heap, Phases, Logged
    <3>4. CtxRefs'
      <4>1. CtxRefs
        BY <3>1 DEF Collecting
      <4>2. \A c \in visited' : /\ TabHere(ctx[c].slots)' /\ ObjHere(ctx[c].obj)' /\ ~ ctx'[c].wb
                                /\ ctx'[c].ref # 0 => ctx'[c].gen = 1
        BY <2>1, <4>1 DEF CtxRefs, TabHere, ObjHere, to, Full
      <4>3. \A c \in Ctx \ visited' :
              /\ TabOk(ctx[c].slots)' /\ ObjOk(ctx[c].obj)'
              /\ ~ Full' /\ ctx'[c].gen = 1 /\ ~ ctx'[c].wb => InTo(ctx[c].slots)' /\ InTo(ctx[c].obj)'
        BY <2>1, <3>2, <4>1 DEF CtxRefs, TabOk, ObjOk, InTo
      <4> QED BY <4>2, <4>3 DEF CtxRefs
    <3>5. Reachable'
      BY <2>1, <3>1, <3>2 DEF Collecting, Reachable, Reached, Settled
    <3>6. Collecting'
      BY <1>1, <3>2, <3>3, <3>4, <3>5 DEF Collecting, Heap
    <3> QED BY <1>4, <2>2, <3>6
  <2> QED BY <2>3, <2>4
<1>6. CASE Running /\ Mutate /\ UNCHANGED <<gcVars, freeing>>
  BY <1>1, <1>3, <1>6, MutateKeeps
<1>7. CASE Running /\ Return /\ UNCHANGED gcVars
  <2>1. /\ UNCHANGED <<obj, tab, ctx, stack, wbVars, desLog, gcVars>> /\ phase = "run" /\ phase' = "run"
        /\ freeing = Nil /\ dying' = dying
    BY <1>7 DEF Running, Return, heapVars, gcVars
  <2>2. Counts'
    BY <1>1, <1>7, <2>1, ReturnCounted DEF Counts
  <2>3. Heap' /\ RunRefs' /\ RunOld'
    BY <1>1, <1>2, <2>1, HeapStays, RunStays DEF gcVars
  <2> QED BY <1>3, <2>1, <2>2, <2>3
<1>8. CASE Running /\ AddWildSize /\ UNCHANGED freeing
  <2>1. /\ UNCHANGED <<obj, tab, ctx, stack, frames, wbVars, desLog, old, phase, workVars, dying, freeing>>
        /\ phase = "run" /\ phase' = "run" /\ wbCtx' = wbCtx
    BY <1>8 DEF Running, AddWildSize, heapVars, rootVars, wbVars
  <2>2. Counts'
    BY <1>1, <2>1, CountsStay
  <2>3. Heap' /\ RunRefs' /\ RunOld'
    BY <1>1, <1>2, <2>1, HeapStays, RunStays
  <2> QED BY <1>3, <2>1, <2>2, <2>3
<1>9. CASE TravState
  <2>1. phase = "run"
    BY <1>9 DEF TravState, Running
  <2>2. Collecting' /\ Counts'
    BY <1>1, <1>2, <1>9, <2>1, TravStateKeeps DEF Counts
  <2> QED BY <1>4, <2>2
<1>10. CASE Collect
  <2>1. CASE \E a \in todoObj : CopyObject(a)
    <3>1. Collecting
      BY <1>1, <1>2, <2>1 DEF Heap, Phases
    <3>2. Collecting' /\ Counts'
      BY <1>1, <2>1, <3>1, CopyObjectKeeps, CopyCounts
    <3> QED BY <1>4, <3>2
  <2>2. CASE \E t \in todoTab : CopySlotTable(t)
    <3>1. Collecting
      BY <1>1, <1>2, <2>2 DEF Heap, Phases
    <3>2. Collecting' /\ Counts'
      BY <1>1, <2>2, <3>1, CopySlotTableKeeps, CopyCounts
    <3> QED BY <1>4, <3>2
  <2>3. CASE \E c \in todoCtx : TravContext(c)
    <3>1. Collecting
      BY <1>1, <1>2, <2>3 DEF Heap, Phases
    <3>2. Collecting' /\ Counts'
      BY <1>1, <2>3, <3>1, TravContextKeeps DEF Counts
    <3> QED BY <1>4, <3>2
  <2>4. CASE CheckWriteBarrier
    <3>1. Collecting
      BY <1>2, <2>4 DEF CheckWriteBarrier
    <3>2. Collecting' /\ Counts'
      BY <1>1, <2>4, <3>1, CheckWriteBarrierKeeps DEF Counts
    <3> QED BY <1>4, <3>2
  <2>5. ASSUME NEW c \in wbCtx, CheckContext(c) PROVE Inv'
    <3>1. Collecting /\ c \in Ctx
      BY <1>1, <1>2, <2>5 DEF CheckContext, Types, ListTypes
    <3>2. Collecting'
      BY <2>5, <3>1, CheckContextKeeps
    <3>3. Counts'
      BY <1>1, <2>5, CheckCounted DEF Counts
    <3> QED BY <1>4, <3>2, <3>3
  <2>6. CASE TriggerDestructor
    <3>1. Collecting /\ phase = "barrier"
      BY <1>2, <2>6 DEF TriggerDestructor
    <3>2. Collecting'
      BY <2>6, <3>1, TriggerKeeps
    <3>3. /\ dying = {} /\ Copies
          /\ \A a, b \in desLog : a[1] = b[1] => a = b
          /\ \A a \in desLog : obj[a].live
      BY <1>1, <3>1 DEF Heap, Phases, Logged, Functions
    <3>4. Counts'
      BY <1>1, <2>6, <3>3, TriggerCounted DEF Counts
    <3> QED BY <1>4, <3>2, <3>4
  <2>7. ASSUME NEW a \in dying, Destruct(a) PROVE Inv'
    <3>1. Collecting
      BY <1>2, <2>7 DEF Destruct
    <3>2. Collecting'
      BY <2>7, <3>1, DestructKeeps
    <3>3. dying \cap desLog = {} /\ obj[a].scope # Nil
      BY <1>1 DEF Heap, Logged, Functions
    <3>4. Counts'
      BY <1>1, <2>7, <3>3, DestructCounted DEF Counts
    <3> QED BY <1>4, <3>2, <3>4
  <2>8. CASE ResetHeaps
    <3>1. Collecting
      BY <1>2, <2>8 DEF ResetHeaps
    <3>2. phase' = "run" /\ Heap' /\ Counts' /\ RunRefs' /\ RunOld'
      BY <1>1, <2>8, <3>1, ResetKeeps DEF Counts
    <3> QED BY <1>3, <3>2
  <2>9. CASE ContextFree
    <3>1. CASE phase = "run"
      <4>1. phase' = "run"
        BY <2>9, <3>1 DEF ContextFree, gcVars
      <4>2. Heap' /\ Counts' /\ RunRefs' /\ RunOld'
        BY <1>1, <1>2, <2>9, <3>1, RunFrees
      <4> QED BY <1>3, <4>1, <4>2
    <3>2. CASE phase # "run"
      <4>1. Collecting'
        BY <1>1, <1>2, <2>9, <3>2, FreeKeeps DEF Counts
      <4>2. Counts'
        BY <1>1, <2>9, FreeCounted DEF Counts
      <4> QED BY <1>4, <4>1, <4>2
    <3> QED BY <3>1, <3>2
  <2> QED BY <1>10, <2>1, <2>2, <2>3, <2>4, <2>5, <2>6, <2>7, <2>8, <2>9 DEF Collect
<1> QED BY <1>5, <1>6, <1>7, <1>8, <1>9, <1>10 DEF Next
=============================================================================
