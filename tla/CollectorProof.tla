--------------------------- MODULE CollectorProof ---------------------------
(***************************************************************************)
(* What the collector and the instructions guarantee together, for any     *)
(* number of objects, tables, contexts and slots: the types, generations,  *)
(* write barriers, reference counts and destructors, that nothing dangles, *)
(* that copy on write is invisible, and that a program sees plain objects: *)
(* Collector implements ObjectModel.                                       *)
(***************************************************************************)
EXTENDS CollectorHeapProof

(***************************************************************************)
(* Copy on write.                                                          *)
(***************************************************************************)

(* Two objects have a table only when it is shared.  A context whose       *)
(* object was made has the table of that object, which no clone will       *)
(* share; before, it has a table of its own.  This says it of identities,  *)
(* and so of a cell and its copy.                                          *)
Sharing ==
  /\ \A a, b \in ObjAddr :
       obj[a].live /\ obj[b].live /\ a[1] # b[1] /\ obj[a].slots # Nil /\ SameId(obj[a].slots, obj[b].slots) =>
         \A t \in TabAddr : tab[t].live /\ t[1] = Id(obj[a].slots) => tab[t].shared
  /\ \A c \in Ctx : ctx[c].obj # Nil =>
       /\ ctx[c].slots # Nil
       /\ \A a \in ObjAddr : obj[a].live /\ a[1] = Id(ctx[c].obj) => SameId(obj[a].slots, ctx[c].slots)
       /\ \A t \in TabAddr : tab[t].live /\ t[1] = Id(ctx[c].slots) => tab[t].nocow /\ ~ tab[t].shared
  /\ \A c \in Ctx : ctx[c].obj = Nil /\ ctx[c].slots # Nil =>
       /\ \A a \in ObjAddr : obj[a].live => ~ SameId(obj[a].slots, ctx[c].slots)
       /\ \A t \in TabAddr : tab[t].live /\ t[1] = Id(ctx[c].slots) => ~ tab[t].shared
       /\ \A d \in Ctx \ {c} : ~ SameId(ctx[d].slots, ctx[c].slots)

(* The same of addresses, while the program runs.                          *)
OneTable ==
  \A a, b \in ObjAddr :
    obj[a].live /\ obj[b].live /\ a # b /\ obj[a].slots # Nil /\ obj[a].slots = obj[b].slots =>
      tab[obj[a].slots].shared
ObjTables ==
  \A c \in Ctx : ctx[c].obj # Nil =>
    /\ ctx[c].slots # Nil /\ obj[ctx[c].obj].slots = ctx[c].slots
    /\ tab[ctx[c].slots].nocow /\ ~ tab[ctx[c].slots].shared
OwnTables ==
  \A c \in Ctx : ctx[c].obj = Nil /\ ctx[c].slots # Nil =>
    /\ \A a \in ObjAddr : obj[a].live => obj[a].slots # ctx[c].slots
    /\ ~ tab[ctx[c].slots].shared
    /\ \A d \in Ctx \ {c} : ctx[d].slots # ctx[c].slots
Tables == OneTable /\ ObjTables /\ OwnTables

(* While the program runs there is one cell for each identity.             *)
LEMMA RunIds ==
  ASSUME Types, phase = "run", Unique, RunRefs
  PROVE  /\ \A a, b \in ObjAddr : obj[a].live /\ obj[b].live /\ a[1] = b[1] => a = b
         /\ \A x, y \in TabRef : TabOk(x) /\ TabOk(y) => (SameId(x, y) <=> x = y)
         /\ \A x \in TabRef : TabOk(x) /\ x # Nil => \A t \in TabAddr : tab[t].live /\ t[1] = Id(x) <=> t = x
         /\ \A x \in ObjRef : ObjOk(x) /\ x # Nil => \A a \in ObjAddr : obj[a].live /\ a[1] = Id(x) <=> a = x
<1>1. /\ \A a, b \in ObjAddr : obj[a].live /\ obj[b].live /\ a[1] = b[1] => a = b
      /\ \A t, u \in TabAddr : tab[t].live /\ tab[u].live /\ t[1] = u[1] => t = u
  BY DEF Unique, Source
<1>2. \A t \in TabAddr : t[1] # Nil /\ t # Nil
  BY Addresses, CollectorAssumption
<1> QED BY <1>1, <1>2 DEF SameId, Id, TabRef, ObjRef, TabOk, ObjOk

(* The two ways to say it agree.                                           *)
LEMMA SharingTables ==
  ASSUME Types, phase = "run", Unique, RunRefs
  PROVE  Sharing <=> Tables
<1>1. /\ \A a, b \in ObjAddr : obj[a].live /\ obj[b].live /\ a[1] = b[1] => a = b
      /\ \A x, y \in TabRef : TabOk(x) /\ TabOk(y) => (SameId(x, y) <=> x = y)
      /\ \A x \in TabRef : TabOk(x) /\ x # Nil => \A t \in TabAddr : tab[t].live /\ t[1] = Id(x) <=> t = x
      /\ \A x \in ObjRef : ObjOk(x) /\ x # Nil => \A a \in ObjAddr : obj[a].live /\ a[1] = Id(x) <=> a = x
  BY RunIds
<1>2. /\ \A a \in ObjAddr : obj[a].live => obj[a].slots \in TabRef /\ TabOk(obj[a].slots)
      /\ \A c \in Ctx : /\ ctx[c].slots \in TabRef /\ TabOk(ctx[c].slots)
                        /\ ctx[c].obj \in ObjRef /\ ObjOk(ctx[c].obj)
  BY CellTypes DEF RunRefs
<1>3. /\ \A c \in Ctx : ctx[c].slots # Nil => ctx[c].slots \in TabAddr
      /\ \A c \in Ctx : ctx[c].obj # Nil => ctx[c].obj \in ObjAddr /\ obj[ctx[c].obj].live
      /\ \A a \in ObjAddr : obj[a].live /\ obj[a].slots # Nil => obj[a].slots \in TabAddr
  BY <1>2 DEF TabRef, ObjRef, ObjOk
<1>4. (\A a, b \in ObjAddr :
       obj[a].live /\ obj[b].live /\ a[1] # b[1] /\ obj[a].slots # Nil /\ SameId(obj[a].slots, obj[b].slots) =>
         \A t \in TabAddr : tab[t].live /\ t[1] = Id(obj[a].slots) => tab[t].shared) <=> OneTable
  <2>1. ASSUME NEW a \in ObjAddr, obj[a].live, obj[a].slots # Nil
        PROVE  (\A t \in TabAddr : tab[t].live /\ t[1] = Id(obj[a].slots) => tab[t].shared) <=> tab[obj[a].slots].shared
    BY <1>1, <1>2, <1>3, <2>1
  <2>2. ASSUME NEW a \in ObjAddr, NEW b \in ObjAddr, obj[a].live, obj[b].live
        PROVE  (a[1] # b[1] <=> a # b) /\ (SameId(obj[a].slots, obj[b].slots) <=> obj[a].slots = obj[b].slots)
    BY <1>1, <1>2, <2>2
  <2> QED BY <2>1, <2>2 DEF OneTable
<1>5. (\A c \in Ctx : ctx[c].obj # Nil =>
       /\ ctx[c].slots # Nil
       /\ \A a \in ObjAddr : obj[a].live /\ a[1] = Id(ctx[c].obj) => SameId(obj[a].slots, ctx[c].slots)
       /\ \A t \in TabAddr : tab[t].live /\ t[1] = Id(ctx[c].slots) => tab[t].nocow /\ ~ tab[t].shared) <=> ObjTables
  <2>1. ASSUME NEW c \in Ctx, ctx[c].obj # Nil
        PROVE  (\A a \in ObjAddr : obj[a].live /\ a[1] = Id(ctx[c].obj) => SameId(obj[a].slots, ctx[c].slots))
                 <=> obj[ctx[c].obj].slots = ctx[c].slots
    BY <1>1, <1>2, <1>3, <2>1
  <2>2. ASSUME NEW c \in Ctx, ctx[c].slots # Nil
        PROVE  (\A t \in TabAddr : tab[t].live /\ t[1] = Id(ctx[c].slots) => tab[t].nocow /\ ~ tab[t].shared)
                 <=> tab[ctx[c].slots].nocow /\ ~ tab[ctx[c].slots].shared
    BY <1>1, <1>2, <1>3, <2>2
  <2> QED BY <2>1, <2>2 DEF ObjTables
<1>6. (\A c \in Ctx : ctx[c].obj = Nil /\ ctx[c].slots # Nil =>
       /\ \A a \in ObjAddr : obj[a].live => ~ SameId(obj[a].slots, ctx[c].slots)
       /\ \A t \in TabAddr : tab[t].live /\ t[1] = Id(ctx[c].slots) => ~ tab[t].shared
       /\ \A d \in Ctx \ {c} : ~ SameId(ctx[d].slots, ctx[c].slots)) <=> OwnTables
  <2>1. ASSUME NEW c \in Ctx, NEW a \in ObjAddr, obj[a].live
        PROVE  SameId(obj[a].slots, ctx[c].slots) <=> obj[a].slots = ctx[c].slots
    BY <1>1, <1>2, <2>1
  <2>2. ASSUME NEW c \in Ctx, ctx[c].slots # Nil
        PROVE  (\A t \in TabAddr : tab[t].live /\ t[1] = Id(ctx[c].slots) => ~ tab[t].shared)
                 <=> ~ tab[ctx[c].slots].shared
    BY <1>1, <1>2, <1>3, <2>2
  <2>3. \A c, d \in Ctx : SameId(ctx[d].slots, ctx[c].slots) <=> ctx[d].slots = ctx[c].slots
    BY <1>1, <1>2
  <2> QED BY <2>1, <2>2, <2>3 DEF OwnTables
<1> QED BY <1>4, <1>5, <1>6 DEF Sharing, Tables

(* A step that only moves, copies and drops cells.                         *)
Moves ==
  /\ \A a \in ObjAddr : obj'[a].live =>
       \E b \in ObjAddr : obj[b].live /\ b[1] = a[1] /\ SameObj(obj'[a], obj[b])
  /\ \A t \in TabAddr : tab'[t].live =>
       \E u \in TabAddr : tab[u].live /\ u[1] = t[1] /\ SameTab(tab'[t], tab[u])
  /\ \A c \in Ctx : \/ /\ SameId(ctx'[c].slots, ctx[c].slots) /\ SameId(ctx'[c].obj, ctx[c].obj)
                       /\ ctx'[c].prev = ctx[c].prev
                    \/ ctx'[c].slots = Nil /\ ctx'[c].obj = Nil /\ ctx'[c].ref = 0

(* Such a step is not seen by the identities.                              *)
LEMMA MovesShare ==
  ASSUME Types, Types', Sharing, Moves
  PROVE  Sharing'
<1>1. /\ \A x \in TabRef : (Id(x) = Nil <=> x = Nil)
      /\ \A x \in ObjRef : (Id(x) = Nil <=> x = Nil)
  BY Addresses, CollectorAssumption DEF Id, TabRef, ObjRef
<1>2. /\ \A a \in ObjAddr : obj[a].slots \in TabRef /\ obj'[a].slots \in TabRef
      /\ \A c \in Ctx : ctx[c].slots \in TabRef /\ ctx'[c].slots \in TabRef /\ ctx[c].obj \in ObjRef /\ ctx'[c].obj \in ObjRef
  BY DEF Types, HeapTypes, ObjCell, CtxCellI
<1>3. ASSUME NEW a \in ObjAddr, NEW b \in ObjAddr, obj'[a].live, obj'[b].live, a[1] # b[1], obj'[a].slots # Nil,
             SameId(obj'[a].slots, obj'[b].slots), NEW t \in TabAddr, tab'[t].live, t[1] = Id(obj'[a].slots)
      PROVE  tab'[t].shared
  <2>1. PICK x \in ObjAddr : obj[x].live /\ x[1] = a[1] /\ SameId(obj'[a].slots, obj[x].slots)
    BY <1>3 DEF Moves, SameObj
  <2>2. PICK y \in ObjAddr : obj[y].live /\ y[1] = b[1] /\ SameId(obj'[b].slots, obj[y].slots)
    BY <1>3 DEF Moves, SameObj
  <2>3. PICK u \in TabAddr : tab[u].live /\ u[1] = t[1] /\ SameTab(tab'[t], tab[u])
    BY <1>3 DEF Moves
  <2>4. obj[x].slots # Nil /\ SameId(obj[x].slots, obj[y].slots) /\ u[1] = Id(obj[x].slots) /\ x[1] # y[1]
    BY <1>1, <1>2, <1>3, <2>1, <2>2, <2>3 DEF SameId
  <2> QED BY <2>1, <2>2, <2>3, <2>4 DEF Sharing, SameTab
<1>4. ASSUME NEW c \in Ctx, ctx'[c].obj # Nil \/ ctx'[c].slots # Nil
      PROVE  /\ Id(ctx'[c].slots) = Id(ctx[c].slots) /\ Id(ctx'[c].obj) = Id(ctx[c].obj)
             /\ ctx'[c].slots = Nil <=> ctx[c].slots = Nil
             /\ ctx'[c].obj = Nil <=> ctx[c].obj = Nil
  BY <1>1, <1>2, <1>4 DEF Moves, SameId
<1>5. ASSUME NEW c \in Ctx, ctx'[c].obj # Nil
      PROVE  /\ ctx'[c].slots # Nil
             /\ \A a \in ObjAddr : obj'[a].live /\ a[1] = Id(ctx'[c].obj) => SameId(obj'[a].slots, ctx'[c].slots)
             /\ \A t \in TabAddr : tab'[t].live /\ t[1] = Id(ctx'[c].slots) => tab'[t].nocow /\ ~ tab'[t].shared
  <2>1. /\ ctx[c].slots # Nil
        /\ \A a \in ObjAddr : obj[a].live /\ a[1] = Id(ctx[c].obj) => SameId(obj[a].slots, ctx[c].slots)
        /\ \A t \in TabAddr : tab[t].live /\ t[1] = Id(ctx[c].slots) => tab[t].nocow /\ ~ tab[t].shared
    BY <1>4, <1>5 DEF Sharing
  <2>2. \A a \in ObjAddr : obj'[a].live /\ a[1] = Id(ctx'[c].obj) => SameId(obj'[a].slots, ctx'[c].slots)
    BY <1>4, <1>5, <2>1 DEF Moves, SameObj, SameId
  <2>3. \A t \in TabAddr : tab'[t].live /\ t[1] = Id(ctx'[c].slots) => tab'[t].nocow /\ ~ tab'[t].shared
    BY <1>4, <1>5, <2>1 DEF Moves, SameTab
  <2> QED BY <1>4, <1>5, <2>1, <2>2, <2>3
<1>6. ASSUME NEW c \in Ctx, ctx'[c].obj = Nil, ctx'[c].slots # Nil
      PROVE  /\ \A a \in ObjAddr : obj'[a].live => ~ SameId(obj'[a].slots, ctx'[c].slots)
             /\ \A t \in TabAddr : tab'[t].live /\ t[1] = Id(ctx'[c].slots) => ~ tab'[t].shared
             /\ \A d \in Ctx \ {c} : ~ SameId(ctx'[d].slots, ctx'[c].slots)
  <2>1. /\ \A a \in ObjAddr : obj[a].live => ~ SameId(obj[a].slots, ctx[c].slots)
        /\ \A t \in TabAddr : tab[t].live /\ t[1] = Id(ctx[c].slots) => ~ tab[t].shared
        /\ \A d \in Ctx \ {c} : ~ SameId(ctx[d].slots, ctx[c].slots)
    BY <1>4, <1>6 DEF Sharing
  <2>2. \A a \in ObjAddr : obj'[a].live => ~ SameId(obj'[a].slots, ctx'[c].slots)
    BY <1>4, <1>6, <2>1 DEF Moves, SameObj, SameId
  <2>3. \A t \in TabAddr : tab'[t].live /\ t[1] = Id(ctx'[c].slots) => ~ tab'[t].shared
    BY <1>4, <1>6, <2>1 DEF Moves, SameTab
  <2>4. ASSUME NEW d \in Ctx \ {c}, SameId(ctx'[d].slots, ctx'[c].slots) PROVE FALSE
    <3>1. Id(ctx'[c].slots) # Nil /\ Id(ctx'[d].slots) # Nil
      BY <1>1, <1>2, <1>6, <2>4 DEF SameId
    <3>2. ctx'[d].slots # Nil
      BY <1>1, <1>2, <3>1
    <3> QED BY <1>4, <1>6, <2>1, <2>4, <3>2 DEF SameId
  <2> QED BY <2>2, <2>3, <2>4
<1>7. \A a, b \in ObjAddr :
       obj'[a].live /\ obj'[b].live /\ a[1] # b[1] /\ obj'[a].slots # Nil /\ SameId(obj'[a].slots, obj'[b].slots) =>
         \A t \in TabAddr : tab'[t].live /\ t[1] = Id(obj'[a].slots) => tab'[t].shared
  BY <1>3
<1>8. /\ \A x, y : SameId(x, y)' <=> SameId(x, y)
      /\ \A x : Id(x)' = Id(x)
  BY DEF SameId, Id
<1> QED BY <1>5, <1>6, <1>7 DEF Sharing, SameId, Id

(* Everything is the same as itself.                                       *)
LEMMA Same == \A c : SameId(c, c) /\ SameObj(c, c) /\ SameTab(c, c)
BY DEF SameId, SameObj, SameTab

(* A step that moves no cell.                                              *)
LEMMA StillShare ==
  ASSUME obj' = obj, tab' = tab,
         \A c \in Ctx : \/ ctx'[c].slots = ctx[c].slots /\ ctx'[c].obj = ctx[c].obj /\ ctx'[c].prev = ctx[c].prev
                        \/ ctx'[c].slots = Nil /\ ctx'[c].obj = Nil /\ ctx'[c].ref = 0
  PROVE  Moves
BY Same DEF Moves

(* copyObject_c and copySlotTable.                                         *)
LEMMA CopiesShare ==
  ASSUME Types, Heap, Copies',
         (\E a \in todoObj : CopyObject(a)) \/ (\E t \in todoTab : CopySlotTable(t))
  PROVE  Moves
<1>1. ctx' = ctx
  BY DEF CopyObject, CopySlotTable
<1>2. \A c \in Ctx : /\ SameId(ctx'[c].slots, ctx[c].slots) /\ SameId(ctx'[c].obj, ctx[c].obj)
                    /\ ctx'[c].prev = ctx[c].prev
  BY <1>1, Same
<1>3. ASSUME NEW a \in todoObj, CopyObject(a) PROVE Moves
  <2>1. /\ tab' = tab /\ a \in ObjAddr /\ obj[a].live /\ a # To(a) /\ To(a)[1] = a[1] /\ To(a) \in ObjAddr
        /\ \A b \in ObjAddr : b # To(a) => obj'[b] = obj[b]
    BY <1>3, ForwardTypes DEF CopyObject, Types, HeapTypes, WorkTypes, Heap, Work, To
  <2>2. \A t \in TabAddr : tab'[t].live => tab[t].live /\ SameTab(tab'[t], tab[t])
    BY <2>1, Same
  <2>3. \A b \in ObjAddr : b # To(a) /\ obj'[b].live => obj[b].live /\ SameObj(obj'[b], obj[b])
    BY <2>1, Same
  <2>4. obj'[To(a)].live => SameObj(obj'[To(a)], obj[a])
    <3>1. \A b \in ObjAddr : obj'[a].live /\ obj'[b].live /\ a[1] = b[1] => SameObj(obj'[b], obj'[a])
      BY <2>1 DEF Copies, SameObj, SameId, Id
    <3>2. PICK b \in ObjAddr : b = To(a)
      BY <2>1
    <3> QED BY <2>1, <3>1, <3>2
  <2> QED BY <1>2, <2>1, <2>2, <2>3, <2>4 DEF Moves
<1>4. ASSUME NEW t \in todoTab, CopySlotTable(t) PROVE Moves
  <2>1. /\ obj' = obj /\ t \in TabAddr /\ tab[t].live /\ t # To(t) /\ To(t)[1] = t[1] /\ To(t) \in TabAddr
        /\ \A u \in TabAddr : u # To(t) => tab'[u] = tab[u]
    BY <1>4, ForwardTypes DEF CopySlotTable, Types, HeapTypes, WorkTypes, Heap, Work, To
  <2>2. \A u \in TabAddr : u # To(t) /\ tab'[u].live => tab[u].live /\ SameTab(tab'[u], tab[u])
    BY <2>1, Same
  <2>3. \A b \in ObjAddr : obj'[b].live => obj[b].live /\ SameObj(obj'[b], obj[b])
    BY <2>1, Same
  <2>4. tab'[To(t)].live => SameTab(tab'[To(t)], tab[t])
    <3>1. \A u \in TabAddr : tab'[t].live /\ tab'[u].live /\ t[1] = u[1] => SameTab(tab'[u], tab'[t])
      BY <2>1 DEF Copies, SameTab, SameId, Id
    <3>2. PICK u \in TabAddr : u = To(t)
      BY <2>1
    <3> QED BY <2>1, <3>1, <3>2
  <2> QED BY <1>2, <2>1, <2>2, <2>3, <2>4 DEF Moves
<1> QED BY <1>3, <1>4

(* travSingleContext.                                                      *)
LEMMA TravShares ==
  ASSUME Collecting, NEW x \in todoCtx, TravContext(x)
  PROVE  Moves
<1>1. /\ Types /\ Generations /\ CtxRefs /\ x \in Ctx /\ x \notin visited /\ obj' = obj /\ tab' = tab
  BY DEF Collecting, Heap, Phases, TravContext, Types, WorkTypes
<1>2. /\ ctx[x] \in CtxCellI /\ ctx[x].slots \in TabRef /\ ctx[x].obj \in ObjRef
      /\ TabOk(ctx[x].slots) /\ ObjOk(ctx[x].obj)
  BY <1>1, CellTypes DEF CtxRefs
<1>3. /\ ctx'[x].slots = ForwardTab(ctx[x].slots) /\ ctx'[x].obj = ForwardObj(ctx[x].obj)
      /\ ctx'[x].prev = ctx[x].prev
  BY <1>1, <1>2 DEF TravContext, CtxCellI, Types, HeapTypes
<1>4. SameId(ctx'[x].slots, ctx[x].slots) /\ SameId(ctx'[x].obj, ctx[x].obj)
  BY <1>1, <1>2, <1>3, Found DEF SameId
<1>5. \A c \in Ctx \ {x} : /\ SameId(ctx'[c].slots, ctx[c].slots) /\ SameId(ctx'[c].obj, ctx[c].obj)
                          /\ ctx'[c].prev = ctx[c].prev
  BY <1>1 DEF TravContext, Types, HeapTypes, SameId
<1>6. /\ \A a \in ObjAddr : obj'[a].live => obj[a].live /\ SameObj(obj'[a], obj[a])
      /\ \A t \in TabAddr : tab'[t].live => tab[t].live /\ SameTab(tab'[t], tab[t])
  BY <1>1, Same
<1> QED BY <1>3, <1>4, <1>5, <1>6 DEF Moves

(* Every step that is not one of an instruction.                           *)
LEMMA CollectShares ==
  ASSUME Inv, Inv', ~ (Running /\ Mutate /\ UNCHANGED <<gcVars, freeing>>), [Next]_vars
  PROVE  Moves
<1>1. /\ Types /\ Heap /\ Counts /\ Copies'
      /\ phase # "run" => Collecting
  BY DEF Inv, Heap, Collection, Collecting
<1>2. CASE UNCHANGED vars
  BY <1>2, StillShare DEF vars, heapVars
<1>3. CASE Running /\ Return /\ UNCHANGED gcVars
  BY <1>3, StillShare DEF Return, heapVars
<1>4. CASE Running /\ AddWildSize /\ UNCHANGED freeing
  BY <1>4, StillShare DEF AddWildSize, heapVars
<1>5. CASE TravState
  BY <1>5, StillShare DEF TravState, heapVars
<1>6. CASE \E a \in todoObj : CopyObject(a)
  BY <1>1, <1>6, CopiesShare
<1>7. CASE \E t \in todoTab : CopySlotTable(t)
  BY <1>1, <1>7, CopiesShare
<1>8. ASSUME NEW c \in todoCtx, TravContext(c) PROVE Moves
  BY <1>1, <1>8, TravShares DEF Heap, Phases
<1>9. CASE CheckWriteBarrier
  <2>1. /\ \A a \in ObjAddr : obj'[a].live => obj[a].live /\ SameObj(obj'[a], obj[a])
        /\ \A t \in TabAddr : tab'[t].live => tab[t].live /\ SameTab(tab'[t], tab[t])
    <3>1. Collecting
      BY <1>1, <1>9 DEF CheckWriteBarrier
    <3> QED BY <1>9, <3>1, BarrierCells
  <2>2. ctx' = ctx
    BY <1>9 DEF CheckWriteBarrier
  <2>3. \A c \in Ctx : /\ SameId(ctx'[c].slots, ctx[c].slots) /\ SameId(ctx'[c].obj, ctx[c].obj)
                      /\ ctx'[c].prev = ctx[c].prev
    BY <2>2, Same
  <2> QED BY <2>1, <2>3 DEF Moves
<1>10. CASE \E c \in wbCtx : CheckContext(c)
  BY <1>10, StillShare DEF CheckContext, heapVars
<1>11. CASE TriggerDestructor
  BY <1>11, StillShare DEF TriggerDestructor, heapVars
<1>12. CASE \E a \in dying : Destruct(a)
  BY <1>12, StillShare DEF Destruct, heapVars
<1>13. CASE ResetHeaps
  <2> DEFINE reset == IF Full THEN {0, old} ELSE {0}
  <2>1. /\ \A a \in ObjAddr : obj'[a] = IF a[2] \in reset THEN DeadObj ELSE obj[a]
        /\ \A t \in TabAddr : tab'[t] = IF t[2] \in reset THEN DeadTab ELSE tab[t]
        /\ ctx' = ctx
    BY <1>13 DEF ResetHeaps
  <2>2. ~ DeadObj.live /\ ~ DeadTab.live
    BY DEF DeadObj, DeadTab
  <2> HIDE DEF reset
  <2>3. \A a \in ObjAddr : obj'[a].live => obj[a].live /\ SameObj(obj'[a], obj[a])
    BY <2>1, <2>2, Same
  <2>4. \A t \in TabAddr : tab'[t].live => tab[t].live /\ SameTab(tab'[t], tab[t])
    BY <2>1, <2>2, Same
  <2>5. \A c \in Ctx : /\ SameId(ctx'[c].slots, ctx[c].slots) /\ SameId(ctx'[c].obj, ctx[c].obj)
                      /\ ctx'[c].prev = ctx[c].prev
    BY <2>1, Same
  <2> QED BY <2>3, <2>4, <2>5 DEF Moves
<1>14. CASE ContextFree
  <2>1. obj' = obj /\ tab' = tab
    BY <1>14 DEF ContextFree
  <2>2. /\ ctx[freeing].ref = 1 => ctx'[freeing] = DeadCtx
        /\ \A c \in Ctx : c # freeing \/ ctx[freeing].ref # 1 => CtxKept(c)
    BY <1>1, <1>14, FreeCounted DEF Counts
  <2>3. DeadCtx.slots = Nil /\ DeadCtx.obj = Nil /\ DeadCtx.ref = 0
    BY DEF DeadCtx
  <2>4. \A c \in Ctx : \/ ctx'[c].slots = ctx[c].slots /\ ctx'[c].obj = ctx[c].obj /\ ctx'[c].prev = ctx[c].prev
                       \/ ctx'[c].slots = Nil /\ ctx'[c].obj = Nil /\ ctx'[c].ref = 0
    BY <2>2, <2>3 DEF CtxKept
  <2> QED BY <2>1, <2>4, StillShare
<1> QED BY <1>2, <1>3, <1>4, <1>5, <1>6, <1>7, <1>8, <1>9, <1>10, <1>11, <1>12, <1>13, <1>14 DEF Next, Collect

(***************************************************************************)
(* Copy on write: the instructions.                                        *)
(***************************************************************************)

ObjKept(a)   == obj'[a].live = obj[a].live /\ obj'[a].slots = obj[a].slots
TabKept(t)   == tab'[t].shared = tab[t].shared /\ tab'[t].nocow = tab[t].nocow
ScopeKept(c) == ctx'[c].slots = ctx[c].slots /\ ctx'[c].obj = ctx[c].obj

(* While the program runs nothing has a table that is not live.            *)
LEMMA LiveTables ==
  ASSUME Ready, NEW t \in TabAddr, ~ tab[t].live
  PROVE  /\ \A a \in ObjAddr : obj[a].live => obj[a].slots # t
         /\ \A c \in Ctx : ctx[c].slots # t
BY Addresses DEF Ready, RunRefs, TabOk

(* An object is written in a table of its own, new or not, and the running *)
(* context may become that object.                                         *)
LEMMA TakeShares ==
  ASSUME Ready, Tables, NEW a \in ObjAddr, obj[a].live, NEW t \in TabAddr,
         \/ ~ tab[t].live /\ NeedsTable(obj[a])
         \/ obj[a].slots = t /\ ~ tab[t].shared /\ (tab[t].nocow => tab'[t].nocow),
         ~ tab'[t].shared, \A u \in TabAddr \ {t} : TabKept(u),
         obj'[a].live, obj'[a].slots = t, \A b \in ObjAddr \ {a} : ObjKept(b),
         \/ \A c \in Ctx : ScopeKept(c)
         \/ /\ tab'[t].nocow
            /\ \E x \in Ctx : ctx'[x].slots = t /\ ctx'[x].obj = a /\ \A c \in Ctx \ {x} : ScopeKept(c)
  PROVE  Tables'
<1>1. /\ t # Nil /\ a # Nil
      /\ \A b \in ObjAddr : obj[b].live => obj[b].slots = Nil \/ obj[b].slots \in TabAddr
      /\ \A c \in Ctx : /\ ctx[c].slots = Nil \/ ctx[c].slots \in TabAddr
                        /\ ctx[c].obj = Nil \/ (ctx[c].obj \in ObjAddr /\ obj[ctx[c].obj].live)
  BY Addresses, CellTypes DEF Ready, RunRefs, ObjOk, TabRef, ObjRef
<1>2. \A b \in ObjAddr \ {a} : obj[b].live => obj[b].slots # t
  <2>1. CASE ~ tab[t].live
    BY <2>1, LiveTables
  <2>2. CASE obj[a].slots = t /\ ~ tab[t].shared
    BY <1>1, <2>2 DEF Tables, OneTable
  <2> QED BY <2>1, <2>2
<1>3. \A c \in Ctx : ctx[c].slots = t => ctx[c].obj # Nil
  <2>1. CASE ~ tab[t].live
    BY <2>1, LiveTables
  <2>2. CASE obj[a].slots = t
    BY <1>1, <2>2 DEF Tables, OwnTables
  <2> QED BY <2>1, <2>2
<1>4. \A c \in Ctx : ctx[c].obj # Nil /\ ctx[c].slots = t => tab'[t].nocow
  <2>1. CASE ~ tab[t].live
    BY <2>1, LiveTables
  <2>2. CASE tab[t].nocow => tab'[t].nocow
    BY <2>2 DEF Tables, ObjTables
  <2> QED BY <2>1, <2>2
<1>5. \A c \in Ctx : ctx[c].obj = a => ctx[c].slots = t
  <2>1. CASE NeedsTable(obj[a])
    BY <1>1, <2>1 DEF NeedsTable, Shared, Tables, ObjTables
  <2>2. CASE obj[a].slots = t
    BY <1>1, <2>2 DEF Tables, ObjTables
  <2> QED BY <2>1, <2>2
<1>6. OneTable'
  <2>1. SUFFICES ASSUME NEW b \in ObjAddr, NEW d \in ObjAddr, obj'[b].live, obj'[d].live, b # d,
                        obj'[b].slots # Nil, obj'[b].slots = obj'[d].slots
                 PROVE  tab'[obj'[b].slots].shared
    BY DEF OneTable
  <2>2. b # a /\ d # a
    BY <1>2, <2>1 DEF ObjKept
  <2>3. obj[b].live /\ obj[d].live /\ obj[b].slots = obj'[b].slots /\ obj[b].slots = obj[d].slots
    BY <2>1, <2>2 DEF ObjKept
  <2>4. tab[obj[b].slots].shared /\ obj[b].slots \in TabAddr \ {t}
    BY <1>1, <1>2, <2>1, <2>2, <2>3 DEF Tables, OneTable
  <2> QED BY <2>3, <2>4 DEF TabKept
<1>7. ASSUME NEW c \in Ctx, ScopeKept(c), ctx[c].obj # Nil
      PROVE  /\ ctx[c].slots # Nil /\ obj'[ctx[c].obj].slots = ctx[c].slots
             /\ tab'[ctx[c].slots].nocow /\ ~ tab'[ctx[c].slots].shared
  <2>1. /\ ctx[c].slots # Nil /\ obj[ctx[c].obj].slots = ctx[c].slots
        /\ tab[ctx[c].slots].nocow /\ ~ tab[ctx[c].slots].shared
    BY <1>7 DEF Tables, ObjTables
  <2>2. CASE ctx[c].obj = a
    BY <1>1, <1>4, <1>5, <2>2
  <2>3. CASE ctx[c].obj # a
    <3>1. ctx[c].slots \in TabAddr \ {t} /\ ctx[c].obj \in ObjAddr \ {a}
      BY <1>1, <1>2, <1>7, <2>1, <2>3
    <3> QED BY <2>1, <3>1 DEF TabKept, ObjKept
  <2> QED BY <2>2, <2>3
<1>8. ASSUME NEW c \in Ctx, ScopeKept(c), ctx[c].obj = Nil, ctx[c].slots # Nil
      PROVE  /\ \A b \in ObjAddr : obj'[b].live => obj'[b].slots # ctx[c].slots
             /\ ~ tab'[ctx[c].slots].shared
             /\ \A d \in Ctx \ {c} : ctx'[d].slots # ctx[c].slots
  <2>1. /\ \A b \in ObjAddr : obj[b].live => obj[b].slots # ctx[c].slots
        /\ ~ tab[ctx[c].slots].shared
        /\ \A d \in Ctx \ {c} : ctx[d].slots # ctx[c].slots
    BY <1>8 DEF Tables, OwnTables
  <2>2. ctx[c].slots \in TabAddr \ {t}
    BY <1>1, <1>3, <1>8
  <2>3. \A b \in ObjAddr : obj'[b].live => obj'[b].slots # ctx[c].slots
    BY <2>1, <2>2 DEF ObjKept
  <2>4. ~ tab'[ctx[c].slots].shared
    BY <2>1, <2>2 DEF TabKept
  <2>5. \A d \in Ctx \ {c} : ctx'[d].slots # ctx[c].slots
    BY <2>1, <2>2 DEF ScopeKept
  <2> QED BY <2>3, <2>4, <2>5
<1>9. CASE \A c \in Ctx : ScopeKept(c)
  <2>1. ObjTables'
    BY <1>7, <1>9 DEF ObjTables, ScopeKept
  <2>2. OwnTables'
    BY <1>8, <1>9 DEF OwnTables, ScopeKept
  <2> QED BY <1>6, <2>1, <2>2 DEF Tables
<1>10. ASSUME tab'[t].nocow, NEW x \in Ctx, ctx'[x].slots = t, ctx'[x].obj = a, \A c \in Ctx \ {x} : ScopeKept(c)
       PROVE  Tables'
  <2>1. ObjTables'
    BY <1>1, <1>7, <1>10 DEF ObjTables, ScopeKept
  <2>2. OwnTables'
    BY <1>1, <1>8, <1>10 DEF OwnTables, ScopeKept
  <2> QED BY <1>6, <2>1, <2>2 DEF Tables
<1> QED BY <1>9, <1>10

(* Nothing but new objects without a table.                                *)
LEMMA NewShares ==
  ASSUME Ready, Tables, \A t \in TabAddr : TabKept(t),
         \A a \in ObjAddr : ObjKept(a) \/ (~ obj[a].live /\ obj'[a].slots = Nil),
         \A c \in Ctx : ScopeKept(c) \/ (ctx'[c].slots = Nil /\ ctx'[c].obj = Nil)
  PROVE  Tables'
<1>1. /\ \A b \in ObjAddr : obj[b].live => obj[b].slots = Nil \/ obj[b].slots \in TabAddr
      /\ \A c \in Ctx : /\ ctx[c].slots = Nil \/ ctx[c].slots \in TabAddr
                        /\ ctx[c].obj = Nil \/ (ctx[c].obj \in ObjAddr /\ obj[ctx[c].obj].live)
  BY CellTypes DEF Ready, RunRefs, ObjOk, TabRef, ObjRef
<1>2. OneTable'
  <2>1. SUFFICES ASSUME NEW b \in ObjAddr, NEW d \in ObjAddr, obj'[b].live, obj'[d].live, b # d,
                        obj'[b].slots # Nil, obj'[b].slots = obj'[d].slots
                 PROVE  tab'[obj'[b].slots].shared
    BY DEF OneTable
  <2>2. obj[b].live /\ obj[d].live /\ obj[b].slots = obj'[b].slots /\ obj[b].slots = obj[d].slots
    BY <2>1 DEF ObjKept
  <2> QED BY <1>1, <2>1, <2>2 DEF Tables, OneTable, TabKept
<1>3. ASSUME NEW c \in Ctx, ctx'[c].obj # Nil
      PROVE  /\ ctx'[c].slots # Nil /\ obj'[ctx'[c].obj].slots = ctx'[c].slots
             /\ tab'[ctx'[c].slots].nocow /\ ~ tab'[ctx'[c].slots].shared
  <2>1. ctx'[c].slots = ctx[c].slots /\ ctx'[c].obj = ctx[c].obj
    BY <1>3 DEF ScopeKept
  <2>2. /\ ctx[c].slots # Nil /\ obj[ctx[c].obj].slots = ctx[c].slots
        /\ tab[ctx[c].slots].nocow /\ ~ tab[ctx[c].slots].shared
    BY <1>3, <2>1 DEF Tables, ObjTables
  <2>3. ctx[c].slots \in TabAddr /\ ctx[c].obj \in ObjAddr /\ obj[ctx[c].obj].live
    BY <1>1, <1>3, <2>1, <2>2
  <2> QED BY <2>1, <2>2, <2>3 DEF TabKept, ObjKept
<1>4. ASSUME NEW c \in Ctx, ctx'[c].obj = Nil, ctx'[c].slots # Nil
      PROVE  /\ \A a \in ObjAddr : obj'[a].live => obj'[a].slots # ctx'[c].slots
             /\ ~ tab'[ctx'[c].slots].shared
             /\ \A d \in Ctx \ {c} : ctx'[d].slots # ctx'[c].slots
  <2>1. ctx'[c].slots = ctx[c].slots /\ ctx'[c].obj = ctx[c].obj
    BY <1>4 DEF ScopeKept
  <2>2. /\ \A b \in ObjAddr : obj[b].live => obj[b].slots # ctx[c].slots
        /\ ~ tab[ctx[c].slots].shared
        /\ \A d \in Ctx \ {c} : ctx[d].slots # ctx[c].slots
    BY <1>4, <2>1 DEF Tables, OwnTables
  <2>3. ctx[c].slots \in TabAddr
    BY <1>1, <1>4, <2>1
  <2>4. \A a \in ObjAddr : obj'[a].live => obj'[a].slots # ctx'[c].slots
    BY <1>4, <2>1, <2>2 DEF ObjKept
  <2>5. \A d \in Ctx \ {c} : ctx'[d].slots # ctx'[c].slots
    BY <1>4, <2>1, <2>2 DEF ScopeKept
  <2> QED BY <2>1, <2>2, <2>3, <2>4, <2>5 DEF TabKept
<1> QED BY <1>2, <1>3, <1>4 DEF Tables, ObjTables, OwnTables

(* A clone: it has a copy of the table, or both have it shared.            *)
LEMMA CloneShares ==
  ASSUME Ready, Tables, NEW a \in ObjAddr, obj[a].live, NEW x \in ObjAddr, ~ obj[x].live, NEW t \in TabAddr,
         \/ ~ tab[t].live /\ ~ tab'[t].shared
         \/ obj[a].slots = t /\ ~ tab[t].nocow /\ tab'[t].shared /\ ~ tab'[t].nocow,
         \A u \in TabAddr \ {t} : TabKept(u),
         obj'[x].live, obj'[x].slots = t, \A b \in ObjAddr \ {x} : ObjKept(b),
         \A c \in Ctx : ScopeKept(c)
  PROVE  Tables'
<1>1. /\ \A b \in ObjAddr : obj[b].live => obj[b].slots = Nil \/ obj[b].slots \in TabAddr
      /\ \A c \in Ctx : /\ ctx[c].slots = Nil \/ ctx[c].slots \in TabAddr
                        /\ ctx[c].obj = Nil \/ (ctx[c].obj \in ObjAddr /\ obj[ctx[c].obj].live)
  BY CellTypes DEF Ready, RunRefs, ObjOk, TabRef, ObjRef
<1>2. \A c \in Ctx : ctx[c].slots # t
  <2>1. CASE ~ tab[t].live
    BY <2>1, LiveTables
  <2>2. CASE obj[a].slots = t /\ ~ tab[t].nocow
    <3>1. \A c \in Ctx : ctx[c].obj # Nil => ctx[c].slots # t
      BY <2>2 DEF Tables, ObjTables
    <3>2. t # Nil
      BY Addresses
    <3> QED BY <2>2, <3>1, <3>2 DEF Tables, OwnTables
  <2> QED BY <2>1, <2>2
<1>3. OneTable'
  <2>1. SUFFICES ASSUME NEW b \in ObjAddr, NEW d \in ObjAddr, obj'[b].live, obj'[d].live, b # d,
                        obj'[b].slots # Nil, obj'[b].slots = obj'[d].slots
                 PROVE  tab'[obj'[b].slots].shared
    BY DEF OneTable
  <2>2. CASE obj'[b].slots = t
    <3>1. PICK y \in ObjAddr : y # x /\ (y = b \/ y = d)
      BY <2>1
    <3>2. obj[y].live /\ obj[y].slots = t
      BY <2>1, <2>2, <3>1 DEF ObjKept
    <3>3. tab[t].live
      BY <3>2, LiveTables
    <3> QED BY <2>2, <3>3
  <2>3. CASE obj'[b].slots # t
    <3>1. b # x /\ d # x
      BY <2>1, <2>3
    <3>2. obj[b].live /\ obj[d].live /\ obj[b].slots = obj'[b].slots /\ obj[b].slots = obj[d].slots
      BY <2>1, <3>1 DEF ObjKept
    <3>3. tab[obj[b].slots].shared /\ obj[b].slots \in TabAddr \ {t}
      BY <1>1, <2>1, <2>3, <3>2 DEF Tables, OneTable
    <3> QED BY <3>2, <3>3 DEF TabKept
  <2> QED BY <2>2, <2>3
<1>4. ASSUME NEW c \in Ctx, ctx[c].obj # Nil
      PROVE  /\ ctx[c].slots # Nil /\ obj'[ctx[c].obj].slots = ctx[c].slots
             /\ tab'[ctx[c].slots].nocow /\ ~ tab'[ctx[c].slots].shared
  <2>1. /\ ctx[c].slots # Nil /\ obj[ctx[c].obj].slots = ctx[c].slots
        /\ tab[ctx[c].slots].nocow /\ ~ tab[ctx[c].slots].shared
    BY <1>4 DEF Tables, ObjTables
  <2>2. ctx[c].slots \in TabAddr \ {t} /\ ctx[c].obj \in ObjAddr \ {x}
    BY <1>1, <1>2, <1>4, <2>1
  <2> QED BY <2>1, <2>2 DEF TabKept, ObjKept
<1>5. ASSUME NEW c \in Ctx, ctx[c].obj = Nil, ctx[c].slots # Nil
      PROVE  /\ \A b \in ObjAddr : obj'[b].live => obj'[b].slots # ctx[c].slots
             /\ ~ tab'[ctx[c].slots].shared
             /\ \A d \in Ctx \ {c} : ctx[d].slots # ctx[c].slots
  <2>1. /\ \A b \in ObjAddr : obj[b].live => obj[b].slots # ctx[c].slots
        /\ ~ tab[ctx[c].slots].shared
        /\ \A d \in Ctx \ {c} : ctx[d].slots # ctx[c].slots
    BY <1>5 DEF Tables, OwnTables
  <2>2. ctx[c].slots \in TabAddr \ {t}
    BY <1>1, <1>2, <1>5
  <2>3. \A b \in ObjAddr : obj'[b].live => obj'[b].slots # ctx[c].slots
    BY <1>2, <2>1 DEF ObjKept
  <2> QED BY <2>1, <2>2, <2>3 DEF TabKept
<1>6. ObjTables' /\ OwnTables'
  BY <1>4, <1>5 DEF ObjTables, OwnTables, ScopeKept
<1> QED BY <1>3, <1>6 DEF Tables

(* A context gets its first table, or its object, which has its table.     *)
LEMMA LocalShares ==
  ASSUME Ready, Tables, NEW x \in Ctx, ctx[x].obj = Nil, NEW t \in TabAddr,
         \/ ~ tab[t].live /\ ctx[x].slots = Nil
         \/ ctx[x].slots = t,
         ~ tab'[t].shared, \A u \in TabAddr \ {t} : TabKept(u),
         ctx'[x].slots = t, \A c \in Ctx \ {x} : ScopeKept(c),
         \/ ctx'[x].obj = Nil /\ \A b \in ObjAddr : ObjKept(b)
         \/ /\ tab'[t].nocow /\ ctx'[x].obj \in ObjAddr /\ ~ obj[ctx'[x].obj].live
            /\ obj'[ctx'[x].obj].slots = t /\ \A b \in ObjAddr \ {ctx'[x].obj} : ObjKept(b)
  PROVE  Tables'
<1>0. t # Nil
  BY Addresses
<1>1. /\ \A b \in ObjAddr : obj[b].live => obj[b].slots = Nil \/ obj[b].slots \in TabAddr
      /\ \A c \in Ctx : /\ ctx[c].slots = Nil \/ ctx[c].slots \in TabAddr
                        /\ ctx[c].obj = Nil \/ (ctx[c].obj \in ObjAddr /\ obj[ctx[c].obj].live)
  BY CellTypes DEF Ready, RunRefs, ObjOk, TabRef, ObjRef
<1>2. /\ \A b \in ObjAddr : obj[b].live => obj[b].slots # t
      /\ \A c \in Ctx \ {x} : ctx[c].slots # t
  <2>1. CASE ~ tab[t].live
    BY <2>1, LiveTables
  <2>2. CASE ctx[x].slots = t
    BY <1>0, <2>2 DEF Tables, OwnTables
  <2> QED BY <2>1, <2>2
<1>3. \A b \in ObjAddr : ObjKept(b) \/ (b = ctx'[x].obj /\ b # Nil /\ ~ obj[b].live /\ obj'[b].slots = t)
  BY Addresses
<1>4. OneTable'
  <2>1. SUFFICES ASSUME NEW b \in ObjAddr, NEW d \in ObjAddr, obj'[b].live, obj'[d].live, b # d,
                        obj'[b].slots # Nil, obj'[b].slots = obj'[d].slots
                 PROVE  tab'[obj'[b].slots].shared
    BY DEF OneTable
  <2>2. ObjKept(b) /\ ObjKept(d)
    <3>1. \A y \in ObjAddr : ObjKept(y) /\ obj'[y].live => obj'[y].slots # t
      BY <1>2 DEF ObjKept
    <3>2. \A y \in ObjAddr : ~ ObjKept(y) => y = ctx'[x].obj /\ obj'[y].slots = t
      BY <1>3
    <3> QED BY <2>1, <3>1, <3>2
  <2>3. obj[b].live /\ obj[d].live /\ obj[b].slots = obj'[b].slots /\ obj[b].slots = obj[d].slots
    BY <2>1, <2>2 DEF ObjKept
  <2>4. tab[obj[b].slots].shared /\ obj[b].slots \in TabAddr \ {t}
    BY <1>1, <1>2, <2>1, <2>3 DEF Tables, OneTable
  <2> QED BY <2>3, <2>4 DEF TabKept
<1>5. ASSUME NEW c \in Ctx, ctx'[c].obj # Nil
      PROVE  /\ ctx'[c].slots # Nil /\ obj'[ctx'[c].obj].slots = ctx'[c].slots
             /\ tab'[ctx'[c].slots].nocow /\ ~ tab'[ctx'[c].slots].shared
  <2>1. CASE c = x
    BY <1>0, <1>5, <2>1
  <2>2. CASE c # x
    <3>1. ctx'[c].slots = ctx[c].slots /\ ctx'[c].obj = ctx[c].obj
      BY <2>2 DEF ScopeKept
    <3>2. /\ ctx[c].slots # Nil /\ obj[ctx[c].obj].slots = ctx[c].slots
          /\ tab[ctx[c].slots].nocow /\ ~ tab[ctx[c].slots].shared
      BY <1>5, <3>1 DEF Tables, ObjTables
    <3>3. ctx[c].slots \in TabAddr \ {t} /\ ctx[c].obj \in ObjAddr /\ obj[ctx[c].obj].live
      BY <1>1, <1>2, <1>5, <2>2, <3>1, <3>2
    <3>4. ObjKept(ctx[c].obj)
      BY <1>3, <3>3
    <3> QED BY <3>1, <3>2, <3>3, <3>4 DEF TabKept, ObjKept
  <2> QED BY <2>1, <2>2
<1>6. ASSUME NEW c \in Ctx, ctx'[c].obj = Nil, ctx'[c].slots # Nil
      PROVE  /\ \A b \in ObjAddr : obj'[b].live => obj'[b].slots # ctx'[c].slots
             /\ ~ tab'[ctx'[c].slots].shared
             /\ \A d \in Ctx \ {c} : ctx'[d].slots # ctx'[c].slots
  <2>1. CASE c = x
    <3>1. \A b \in ObjAddr : ObjKept(b)
      BY <1>3, <1>6, <2>1
    <3>2. \A b \in ObjAddr : obj'[b].live => obj'[b].slots # t
      BY <1>2, <3>1 DEF ObjKept
    <3>3. \A d \in Ctx \ {c} : ctx'[d].slots # t
      BY <1>2, <2>1 DEF ScopeKept
    <3> QED BY <2>1, <3>2, <3>3
  <2>2. CASE c # x
    <3>1. ctx'[c].slots = ctx[c].slots /\ ctx'[c].obj = ctx[c].obj
      BY <2>2 DEF ScopeKept
    <3>2. /\ \A b \in ObjAddr : obj[b].live => obj[b].slots # ctx[c].slots
          /\ ~ tab[ctx[c].slots].shared
          /\ \A d \in Ctx \ {c} : ctx[d].slots # ctx[c].slots
      BY <1>6, <3>1 DEF Tables, OwnTables
    <3>3. ctx[c].slots \in TabAddr \ {t}
      BY <1>1, <1>2, <1>6, <2>2, <3>1
    <3>4. \A b \in ObjAddr : obj'[b].live => obj'[b].slots # ctx[c].slots
      BY <1>3, <3>2, <3>3 DEF ObjKept
    <3>5. \A d \in Ctx \ {c} : ctx'[d].slots # ctx[c].slots
      BY <3>2, <3>3 DEF ScopeKept
    <3> QED BY <3>1, <3>2, <3>3, <3>4, <3>5 DEF TabKept
  <2> QED BY <2>1, <2>2
<1> QED BY <1>4, <1>5, <1>6 DEF Tables, ObjTables, OwnTables

(* What ivm_object_setSlot may write is shared with no object.             *)
LEMMA OwnedShares ==
  ASSUME Ready, NEW a \in ObjAddr, obj[a].live, NEW n \in Tab, NeedsTable(obj[a]) => UnusedTab(n)
  PROVE  LET own == Owned(obj[a], n) IN
         /\ own.at \in TabAddr /\ own.cell \in TabCell /\ ~ own.cell.shared
         /\ \/ ~ tab[own.at].live /\ NeedsTable(obj[a])
            \/ obj[a].slots = own.at /\ own.cell = tab[own.at]
<1> DEFINE own == Owned(obj[a], n)
<1>1. own.at \in TabAddr /\ own.cell \in TabCell
  BY OwnedTypes DEF Ready
<1>2. obj[a].slots \in TabRef /\ obj[a].gen \in Bit /\ Types
  BY CellTypes DEF Ready
<1>3. CASE obj[a].slots = Nil
  <2>1. own.at = <<n, HeapAt(obj[a].gen)>> /\ own.cell = NewTabAt(obj[a].gen) /\ NeedsTable(obj[a])
    BY <1>3 DEF Owned, NeedsTable
  <2>2. ~ own.cell.shared
    BY <2>1 DEF NewTabAt, DeadTab
  <2>3. ~ tab[own.at].live
    BY <1>2, <2>1, Heaps DEF UnusedTab
  <2> QED BY <1>1, <2>1, <2>2, <2>3
<1>4. CASE obj[a].slots # Nil /\ Shared(obj[a])
  <2>1. own.at = <<n, 0>> /\ own.cell = CopyState(tab[obj[a].slots]) /\ NeedsTable(obj[a])
    BY <1>4 DEF Owned, NeedsTable
  <2>2. tab[obj[a].slots] \in TabCell
    BY <1>2, <1>4, CellTypes DEF TabRef
  <2>3. ~ own.cell.shared
    BY <2>1, <2>2 DEF CopyState, TabCell
  <2>4. ~ tab[own.at].live
    BY <1>2, <2>1, Heaps DEF UnusedTab
  <2> QED BY <1>1, <2>1, <2>3, <2>4
<1>5. CASE obj[a].slots # Nil /\ ~ Shared(obj[a])
  <2>1. own.at = obj[a].slots /\ own.cell = tab[obj[a].slots]
    BY <1>5 DEF Owned
  <2>2. ~ own.cell.shared
    BY <1>5, <2>1 DEF Shared
  <2> QED BY <1>1, <2>1, <2>2
<1> QED BY <1>3, <1>4, <1>5

(* What an object is written besides its table is not seen here.           *)
LEMMA TakeSeen ==
  ASSUME Types, NEW a \in ObjAddr, NEW t \in TabAddr, NEW b, obj' = [obj EXCEPT ![a].slots = t, ![a].wb = @ \/ b]
  PROVE  /\ obj'[a].live = obj[a].live /\ obj'[a].slots = t
         /\ \A x \in ObjAddr \ {a} : ObjKept(x)
<1>1. obj[a] \in ObjCell
  BY CellTypes
<1>2. PICK w \in BOOLEAN : w = (obj[a].wb \/ b)
  OBVIOUS
<1> DEFINE c == [obj[a] EXCEPT !.slots = t, !.wb = w]
<1>3. obj' = [obj EXCEPT ![a] = c]
  BY <1>2 DEF Types, HeapTypes
<1>4. c.live = obj[a].live /\ c.slots = t
  BY <1>1 DEF ObjCell
<1> HIDE DEF c
<1>5. obj'[a] = c /\ \A x \in ObjAddr \ {a} : obj'[x] = obj[x]
  BY <1>3 DEF Types, HeapTypes
<1> QED BY <1>4, <1>5 DEF ObjKept

(* Storing values in a table leaves its marks.                             *)
LEMMA StoreSeen ==
  ASSUME Types, NEW own, own.at \in TabAddr, own.cell \in TabCell, NEW K, NEW vals, StoreSlots(own, K, vals)
  PROVE  /\ tab'[own.at].shared = own.cell.shared /\ tab'[own.at].nocow = own.cell.nocow
         /\ \A u \in TabAddr \ {own.at} : TabKept(u)
<1> DEFINE v == [k \in Key |-> IF k \in K THEN vals[k] ELSE own.cell.val[k]]
           barrier == \E k \in DOMAIN vals : WBSlot(own.cell, vals[k])
<1>1. tab' = [tab EXCEPT ![own.at] = [own.cell EXCEPT !.val = v, !.wb = (own.cell.wb \/ barrier)]]
  BY DEF StoreSlots
<1> HIDE DEF v, barrier
<1>2. tab'[own.at] = [own.cell EXCEPT !.val = v, !.wb = (own.cell.wb \/ barrier)]
  BY <1>1 DEF Types, HeapTypes
<1>3. \A u \in TabAddr \ {own.at} : tab'[u] = tab[u]
  BY <1>1 DEF Types, HeapTypes
<1> QED BY <1>2, <1>3 DEF TabCell, TabKept

(* A function or an instruction that takes a reference.                    *)
LEMMA RefSeen ==
  ASSUME Types, NEW s \in CtxRef, RefScope(s)
  PROVE  \A c \in Ctx : ScopeKept(c)
BY RefKept DEF CtxKept, ScopeKept

(* Every instruction keeps copy on write invisible.                        *)
LEMMA MutateShares ==
  ASSUME Ready, Tables, Mutate
  PROVE  Tables'
<1>z. /\ Types /\ Local \in Ctx /\ 0 \in Space /\ stack \subseteq ObjAddr
      /\ \A a \in stack : obj[a].live
      /\ \A o \in Obj : <<o, 0>> \in ObjAddr /\ (UnusedObj(o) => ~ obj[<<o, 0>>].live)
      /\ obj \in [ObjAddr -> ObjCell] /\ tab \in [TabAddr -> TabCell] /\ ctx \in [Ctx -> CtxCellI]
  BY CellTypes, Addresses, Heaps DEF Ready, RunRefs, UnusedObj, Types, HeapTypes, RootTypes
<1>y. ASSUME obj' = obj, tab' = tab, ctx' = ctx PROVE Tables'
  BY <1>y, NewShares DEF ObjKept, TabKept, ScopeKept
<1>1. ASSUME NEW o \in Obj, NewObject(o) PROVE Tables'
  <2> DEFINE c == [DeadObj EXCEPT !.live = TRUE]
  <2>1. obj' = [obj EXCEPT ![<<o, 0>>] = c] /\ ~ obj[<<o, 0>>].live /\ tab' = tab /\ ctx' = ctx
    BY <1>z, <1>1 DEF NewObject
  <2>2. c.slots = Nil
    BY DEF DeadObj
  <2> HIDE DEF c
  <2>3. obj'[<<o, 0>>] = c /\ \A a \in ObjAddr \ {<<o, 0>>} : obj'[a] = obj[a]
    BY <1>z, <2>1
  <2> QED BY <2>1, <2>2, <2>3, NewShares DEF ObjKept, TabKept, ScopeKept
<1>2. ASSUME NEW v \in stack, Pop(v) PROVE Tables'
  BY <1>2, <1>y DEF Pop, heapVars
<1>3. ASSUME NEW a \in stack, NEW p \in stack, SetProto(a, p) PROVE Tables'
  <2>1. PICK b : b = WBObj(obj[a], obj[p])
    OBVIOUS
  <2>2. obj' = [obj EXCEPT ![a].proto = p, ![a].wb = @ \/ b] /\ tab' = tab /\ ctx' = ctx
    BY <1>3, <2>1 DEF SetProto
  <2>3. obj'[a] = [obj[a] EXCEPT !.proto = p, !.wb = (obj[a].wb \/ b)] /\ \A x \in ObjAddr \ {a} : obj'[x] = obj[x]
    BY <1>z, <2>2
  <2>4. \A x \in ObjAddr : ObjKept(x)
    <3>1. obj[a] \in ObjCell
      BY <1>z
    <3> QED BY <2>3, <3>1 DEF ObjKept, ObjCell
  <2> QED BY <2>2, <2>4, NewShares DEF TabKept, ScopeKept
<1>4. ASSUME NEW a \in stack, NEW k \in Key, NEW v \in stack \cup {Nil}, NEW n \in Tab, SetSlot(a, k, v, n)
      PROVE  Tables'
  <2> DEFINE own == Owned(obj[a], n)
             vals == [x \in {k} |-> v]
  <2>1. /\ own.at \in TabAddr /\ own.cell \in TabCell /\ ~ own.cell.shared
        /\ \/ ~ tab[own.at].live /\ NeedsTable(obj[a])
           \/ obj[a].slots = own.at /\ own.cell = tab[own.at]
    BY <1>z, <1>4, OwnedShares DEF SetSlot
  <2>2. TakeTable(a, own) /\ StoreSlots(own, {k}, vals) /\ ctx' = ctx
    BY <1>4 DEF SetSlot, StoreSlot
  <2> HIDE DEF own, vals
  <2>3. PICK b : b = CopiedBarrier(obj[a], own)
    OBVIOUS
  <2>4. obj' = [obj EXCEPT ![a].slots = own.at, ![a].wb = @ \/ b]
    BY <2>2, <2>3 DEF TakeTable
  <2>5. obj'[a].live /\ obj'[a].slots = own.at /\ \A x \in ObjAddr \ {a} : ObjKept(x)
    BY <1>z, <2>1, <2>4, TakeSeen
  <2>6. /\ tab'[own.at].shared = own.cell.shared /\ tab'[own.at].nocow = own.cell.nocow
        /\ \A u \in TabAddr \ {own.at} : TabKept(u)
    BY <1>z, <2>1, <2>2, StoreSeen
  <2>7. \A c \in Ctx : ScopeKept(c)
    BY <2>2 DEF ScopeKept
  <2> QED BY <1>z, <2>1, <2>5, <2>6, <2>7, TakeShares
<1>5. ASSUME NEW a \in stack, NEW k \in Key, GetSlot(a, k) PROVE Tables'
  BY <1>5, <1>y DEF GetSlot, heapVars
<1>6. ASSUME NEW a \in stack, NEW b \in stack, NEW K \in SUBSET Key, NEW n \in Tab, Merge(a, b, K, n)
      PROVE  Tables'
  <2> DEFINE from == tab[obj[b].slots]
             own  == IF obj[a].slots = Nil THEN [at |-> <<n, 0>>, cell |-> CopyState(from)] ELSE Owned(obj[a], n)
             barrier == NeedsTable(obj[a]) /\ WBObjSlot(obj[a], own.cell)
             vals == from.val
  <2>0. obj[b].slots \in TabAddr /\ from \in TabCell /\ (NeedsTable(obj[a]) => UnusedTab(n))
    BY <1>6, <1>z, CellTypes DEF Merge, TabRef
  <2>1. /\ own.at \in TabAddr /\ own.cell \in TabCell /\ ~ own.cell.shared
        /\ \/ ~ tab[own.at].live /\ NeedsTable(obj[a])
           \/ obj[a].slots = own.at /\ own.cell = tab[own.at]
    <3>1. CASE obj[a].slots = Nil
      <4>1. own.at = <<n, 0>> /\ own.cell = CopyState(from) /\ NeedsTable(obj[a])
        BY <3>1 DEF NeedsTable
      <4>2. own.at \in TabAddr /\ UnusedTab(n)
        BY <2>0, <3>1, <4>1, <1>z, Addresses DEF NeedsTable
      <4>5. own.cell \in TabCell
        BY <2>0, <4>1 DEF CopyState, TabCell, Bit
      <4>3. ~ own.cell.shared
        BY <2>0, <4>1 DEF CopyState, TabCell
      <4>4. ~ tab[own.at].live
        BY <4>1, <4>2, <1>z DEF UnusedTab
      <4> QED BY <4>1, <4>2, <4>3, <4>4, <4>5
    <3>2. CASE obj[a].slots # Nil
      <4>1. own = Owned(obj[a], n)
        BY <3>2
      <4> HIDE DEF own
      <4> QED BY <1>z, <2>0, <4>1, OwnedShares
    <3> QED BY <3>1, <3>2
  <2>2. /\ obj' = [obj EXCEPT ![a].slots = own.at, ![a].wb = @ \/ barrier]
        /\ IF obj[a].slots = Nil THEN tab' = [tab EXCEPT ![own.at] = own.cell]
           ELSE StoreSlots(own, K, vals)
        /\ ctx' = ctx
    BY <1>6 DEF Merge
  <2> HIDE DEF own, barrier, vals
  <2>5. obj'[a].live /\ obj'[a].slots = own.at /\ \A x \in ObjAddr \ {a} : ObjKept(x)
    <3>1. PICK w : w = barrier
      OBVIOUS
    <3>2. obj' = [obj EXCEPT ![a].slots = own.at, ![a].wb = @ \/ w]
      BY <2>2, <3>1
    <3> QED BY <1>z, <2>1, <3>2, TakeSeen
  <2>6. /\ tab'[own.at].shared = own.cell.shared /\ tab'[own.at].nocow = own.cell.nocow
        /\ \A u \in TabAddr \ {own.at} : TabKept(u)
    <3>1. CASE obj[a].slots = Nil
      BY <1>z, <2>1, <2>2, <3>1 DEF TabKept
    <3>2. CASE obj[a].slots # Nil
      <4>1. StoreSlots(own, K, vals)
        BY <2>2, <3>2
      <4> QED BY <1>z, <2>1, <4>1, StoreSeen
    <3> QED BY <3>1, <3>2
  <2>7. \A c \in Ctx : ScopeKept(c)
    BY <2>2 DEF ScopeKept
  <2> QED BY <1>z, <2>1, <2>5, <2>6, <2>7, TakeShares
<1>7. ASSUME NEW a \in stack, NEW o \in Obj, NEW n \in Tab, Clone(a, o, n) PROVE Tables'
  <2> DEFINE t == obj[a].slots
             nocow == t # Nil /\ tab[t].nocow
             s == IF nocow THEN <<n, 0>> ELSE t
             c == [obj[a] EXCEPT !.gen = 0, !.wb = FALSE, !.slots = s]
  <2>1. t \in TabRef /\ obj[a].scope \in CtxRef /\ obj[a] \in ObjCell /\ obj[a].live /\ <<n, 0>> \in TabAddr
    BY <1>z, CellTypes, Addresses
  <2>2. /\ obj' = [obj EXCEPT ![<<o, 0>>] = c]
        /\ UnusedObj(o) /\ (nocow => UnusedTab(n)) /\ RefScope(obj[a].scope)
        /\ tab' = IF t = Nil THEN tab
            ELSE IF nocow THEN [tab EXCEPT ![<<n, 0>>] = CopyState(tab[t])]
            ELSE [tab EXCEPT ![t].shared = TRUE]
    BY <1>7 DEF Clone
  <2>3. c.live /\ c.slots = s
    BY <2>1 DEF ObjCell
  <2> HIDE DEF c
  <2>4. /\ obj'[<<o, 0>>].live /\ obj'[<<o, 0>>].slots = s /\ ~ obj[<<o, 0>>].live
        /\ \A x \in ObjAddr \ {<<o, 0>>} : ObjKept(x)
    BY <1>z, <2>2, <2>3 DEF ObjKept
  <2>5. \A x \in Ctx : ScopeKept(x)
    BY <1>z, <2>1, <2>2, RefSeen
  <2>6. CASE t = Nil
    BY <1>z, <2>2, <2>4, <2>5, <2>6, NewShares DEF TabKept
  <2>7. CASE t # Nil /\ nocow
    <3>1. tab'[<<n, 0>>] = CopyState(tab[t]) /\ tab[t] \in TabCell /\ s = <<n, 0>>
      BY <1>z, <2>1, <2>2, <2>7 DEF TabRef
    <3>2. ~ tab'[<<n, 0>>].shared /\ \A u \in TabAddr \ {<<n, 0>>} : TabKept(u)
      BY <1>z, <2>1, <2>2, <2>7, <3>1 DEF TabKept, CopyState, TabCell
    <3>3. ~ tab[<<n, 0>>].live
      BY <1>z, <2>2, <2>7 DEF UnusedTab
    <3> HIDE DEF s
    <3>4. PICK x \in ObjAddr : x = <<o, 0>>
      BY <1>z
    <3>5. PICK u \in TabAddr : u = <<n, 0>>
      BY <2>1
    <3>6. /\ ~ tab[u].live /\ ~ tab'[u].shared /\ \A y \in TabAddr \ {u} : TabKept(y)
          /\ obj'[x].live /\ obj'[x].slots = u /\ ~ obj[x].live /\ \A y \in ObjAddr \ {x} : ObjKept(y)
      BY <2>4, <3>1, <3>2, <3>3, <3>4, <3>5
    <3> QED BY <1>z, <2>1, <2>5, <3>6, CloneShares
  <2>8. CASE t # Nil /\ ~ nocow
    <3>1. t \in TabAddr /\ tab[t] \in TabCell /\ ~ tab[t].nocow /\ s = t
      BY <1>z, <2>1, <2>8 DEF TabRef
    <3>2. tab'[t] = [tab[t] EXCEPT !.shared = TRUE] /\ \A u \in TabAddr \ {t} : tab'[u] = tab[u]
      BY <1>z, <2>2, <2>8, <3>1
    <3>3. tab'[t].shared /\ ~ tab'[t].nocow /\ \A u \in TabAddr \ {t} : TabKept(u)
      BY <3>1, <3>2 DEF TabKept, TabCell
    <3> HIDE DEF s
    <3>4. PICK x \in ObjAddr : x = <<o, 0>>
      BY <1>z
    <3>5. PICK u \in TabAddr : u = t
      BY <3>1
    <3>6. /\ obj[a].slots = u /\ ~ tab[u].nocow /\ tab'[u].shared /\ ~ tab'[u].nocow
          /\ \A y \in TabAddr \ {u} : TabKept(y)
          /\ obj'[x].live /\ obj'[x].slots = u /\ ~ obj[x].live /\ \A y \in ObjAddr \ {x} : ObjKept(y)
      BY <2>4, <3>1, <3>3, <3>4, <3>5
    <3> QED BY <1>z, <2>1, <2>5, <3>6, CloneShares
  <2> QED BY <2>6, <2>7, <2>8
<1>8. ASSUME NEW k \in Key, NEW v \in stack \cup {Nil}, NEW n \in Tab, SetLocalSlot(k, v, n) PROVE Tables'
  <2> DEFINE c == ctx[Local]
             own == IF c.slots = Nil THEN [at |-> <<n, HeapAt(c.gen)>>, cell |-> NewTabAt(c.gen)]
                    ELSE [at |-> c.slots, cell |-> tab[c.slots]]
             vals == [x \in {k} |-> v]
  <2>1. /\ c \in CtxCellI /\ c.slots \in TabRef /\ c.gen \in Bit /\ (c.slots = Nil => UnusedTab(n))
    BY <1>z, <1>8, CellTypes DEF SetLocalSlot
  <2>2. /\ ctx' = [ctx EXCEPT ![Local].slots = own.at] /\ StoreSlots(own, {k}, vals) /\ obj' = obj
    BY <1>8 DEF SetLocalSlot, StoreSlot
  <2>3. /\ own.at \in TabAddr /\ own.cell \in TabCell
        /\ c.slots = Nil => ~ tab[own.at].live /\ ~ own.cell.shared
        /\ c.slots # Nil => own.at = c.slots /\ own.cell = tab[own.at]
    <3>1. CASE c.slots = Nil
      <4>1. own.at = <<n, HeapAt(c.gen)>> /\ own.cell = NewTabAt(c.gen) /\ HeapAt(c.gen) \in Space /\ UnusedTab(n)
        BY <1>z, <2>1, <3>1, Heaps
      <4>2. ~ own.cell.shared
        BY <4>1 DEF NewTabAt, DeadTab
      <4>3. ~ tab[own.at].live
        BY <4>1 DEF UnusedTab
      <4> QED BY <2>1, <3>1, <4>1, <4>2, <4>3, Addresses, Cells
    <3>2. CASE c.slots # Nil
      BY <1>z, <2>1, <3>2 DEF TabRef
    <3> QED BY <3>1, <3>2
  <2> HIDE DEF own, vals
  <2>4. /\ tab'[own.at].shared = own.cell.shared /\ tab'[own.at].nocow = own.cell.nocow
        /\ \A u \in TabAddr \ {own.at} : TabKept(u)
    BY <1>z, <2>2, <2>3, StoreSeen
  <2>5. ctx'[Local].slots = own.at /\ ctx'[Local].obj = c.obj /\ \A d \in Ctx \ {Local} : ScopeKept(d)
    BY <1>z, <2>1, <2>2 DEF CtxCellI, ScopeKept
  <2>6. \A b \in ObjAddr : ObjKept(b)
    BY <2>2 DEF ObjKept
  <2>7. CASE c.slots = Nil
    <3>1. c.obj = Nil
      BY <1>z, <2>7 DEF Tables, ObjTables
    <3> QED BY <1>z, <2>3, <2>4, <2>5, <2>6, <2>7, <3>1, LocalShares
  <2>8. CASE c.slots # Nil
    <3>1. ScopeKept(Local)
      BY <2>3, <2>5, <2>8 DEF ScopeKept
    <3>2. \A d \in Ctx : ScopeKept(d)
      BY <2>5, <3>1
    <3>3. \A u \in TabAddr : TabKept(u)
      BY <2>3, <2>4, <2>8 DEF TabKept
    <3> QED BY <2>6, <3>2, <3>3, NewShares
  <2> QED BY <2>7, <2>8
<1>9. ASSUME NEW k \in Key, GetLocalSlot(k) PROVE Tables'
  BY <1>9, <1>y DEF GetLocalSlot, heapVars
<1>10. ASSUME NEW o \in Obj, NEW n \in Tab, GetObject(o, n) PROVE Tables'
  <2> DEFINE c == ctx[Local]
             t == IF c.slots = Nil THEN <<n, HeapAt(c.gen)>> ELSE c.slots
             table == IF c.slots = Nil THEN NewTabAt(c.gen) ELSE tab[t]
             new == [DeadObj EXCEPT !.live = TRUE, !.slots = t]
             tc == [table EXCEPT !.nocow = TRUE]
             cell == [c EXCEPT !.slots = t, !.obj = <<o, 0>>]
  <2>1. /\ c \in CtxCellI /\ c.slots \in TabRef /\ c.gen \in Bit /\ c.obj = Nil
        /\ UnusedObj(o) /\ (c.slots = Nil => UnusedTab(n))
    BY <1>z, <1>10, CellTypes DEF GetObject
  <2>2. PICK b : b = WBCtxObj(c, new)
    OBVIOUS
  <2>3. /\ tab' = [tab EXCEPT ![t] = tc]
        /\ obj' = [obj EXCEPT ![<<o, 0>>] = new]
        /\ ctx' = [ctx EXCEPT ![Local] = Barred(cell, b)]
    BY <1>10, <2>2 DEF GetObject
  <2>4. /\ t \in TabAddr /\ table \in TabCell /\ ~ table.shared
        /\ \/ ~ tab[t].live /\ c.slots = Nil
           \/ c.slots = t
    <3>1. CASE c.slots = Nil
      <4>1. t = <<n, HeapAt(c.gen)>> /\ table = NewTabAt(c.gen) /\ HeapAt(c.gen) \in Space /\ UnusedTab(n)
        BY <1>z, <2>1, <3>1, Heaps
      <4>2. ~ table.shared
        BY <4>1 DEF NewTabAt, DeadTab
      <4>3. ~ tab[t].live
        BY <4>1 DEF UnusedTab
      <4> QED BY <2>1, <3>1, <4>1, <4>2, <4>3, Addresses, Cells
    <3>2. CASE c.slots # Nil
      BY <1>z, <2>1, <3>2 DEF TabRef, Tables, OwnTables
    <3> QED BY <3>1, <3>2
  <2>5. new.slots = t
    BY DEF DeadObj
  <2> HIDE DEF t, table, new
  <2>6. tc.nocow /\ ~ tc.shared
    BY <2>4 DEF TabCell
  <2> HIDE DEF tc
  <2>7. cell \in CtxCellI /\ cell.slots = t /\ cell.obj = <<o, 0>>
    BY <1>z, <2>1, <2>4 DEF CtxCellI, TabRef, ObjRef
  <2> HIDE DEF cell
  <2>8. Barred(cell, b).slots = t /\ Barred(cell, b).obj = <<o, 0>>
    BY <2>7 DEF Barred, CtxCellI
  <2>9. ctx'[Local].slots = t /\ ctx'[Local].obj = <<o, 0>> /\ \A d \in Ctx \ {Local} : ScopeKept(d)
    BY <1>z, <2>3, <2>8 DEF ScopeKept
  <2>10. tab'[t].nocow /\ ~ tab'[t].shared /\ \A u \in TabAddr \ {t} : TabKept(u)
    BY <1>z, <2>3, <2>4, <2>6 DEF TabKept
  <2>11. obj'[<<o, 0>>].slots = t /\ ~ obj[<<o, 0>>].live /\ \A x \in ObjAddr \ {<<o, 0>>} : ObjKept(x)
    BY <1>z, <2>1, <2>3, <2>5 DEF ObjKept
  <2> QED BY <1>z, <2>1, <2>4, <2>9, <2>10, <2>11, LocalShares
<1>11. CASE GetObjectAgain
  BY <1>11, <1>y DEF GetObjectAgain, heapVars
<1>12. ASSUME NEW a \in stack, NEW n \in Tab, SetObject(a, n) PROVE Tables'
  <2> DEFINE c == ctx[Local]
             own == Owned(obj[a], n)
             cell == [c EXCEPT !.slots = own.at, !.obj = a]
             tc == [own.cell EXCEPT !.nocow = TRUE]
  <2>1. /\ own.at \in TabAddr /\ own.cell \in TabCell /\ ~ own.cell.shared
        /\ \/ ~ tab[own.at].live /\ NeedsTable(obj[a])
           \/ obj[a].slots = own.at /\ own.cell = tab[own.at]
    BY <1>z, <1>12, OwnedShares DEF SetObject
  <2>2. PICK b : b = WBCtxObj(c, obj[a])
    OBVIOUS
  <2>3. PICK w : w = CopiedBarrier(obj[a], own)
    OBVIOUS
  <2>4. /\ obj' = [obj EXCEPT ![a].slots = own.at, ![a].wb = @ \/ w]
        /\ tab' = [tab EXCEPT ![own.at] = tc]
        /\ ctx' = [ctx EXCEPT ![Local] = Barred(cell, b)]
    BY <1>12, <2>2, <2>3 DEF SetObject, TakeTable
  <2>5. tc.nocow /\ ~ tc.shared
    <3> HIDE DEF own
    <3> QED BY <2>1 DEF TabCell
  <2> HIDE DEF own, tc
  <2>6. cell \in CtxCellI /\ cell.slots = own.at /\ cell.obj = a
    BY <1>z, <2>1 DEF CtxCellI, TabRef, ObjRef
  <2> HIDE DEF cell
  <2>7. Barred(cell, b).slots = own.at /\ Barred(cell, b).obj = a
    BY <2>6 DEF Barred, CtxCellI
  <2>8. ctx'[Local].slots = own.at /\ ctx'[Local].obj = a /\ \A d \in Ctx \ {Local} : ScopeKept(d)
    BY <1>z, <2>4, <2>7 DEF ScopeKept
  <2>9. tab'[own.at].nocow /\ ~ tab'[own.at].shared /\ \A u \in TabAddr \ {own.at} : TabKept(u)
    BY <1>z, <2>1, <2>4, <2>5 DEF TabKept
  <2>10. obj'[a].live /\ obj'[a].slots = own.at /\ \A x \in ObjAddr \ {a} : ObjKept(x)
    BY <1>z, <2>1, <2>4, TakeSeen
  <2> QED BY <1>z, <2>1, <2>8, <2>9, <2>10, TakeShares
<1>13. ASSUME NEW o \in Obj, NewFunction(o) PROVE Tables'
  <2> DEFINE c == [DeadObj EXCEPT !.live = TRUE, !.scope = Local]
  <2>1. obj' = [obj EXCEPT ![<<o, 0>>] = c] /\ ~ obj[<<o, 0>>].live /\ tab' = tab /\ RefScope(Local) /\ Local \in CtxRef
    BY <1>z, <1>13 DEF NewFunction, CtxRef
  <2>2. c.slots = Nil
    BY DEF DeadObj
  <2> HIDE DEF c
  <2>3. obj'[<<o, 0>>] = c /\ \A a \in ObjAddr \ {<<o, 0>>} : obj'[a] = obj[a]
    BY <1>z, <2>1
  <2>4. \A d \in Ctx : ScopeKept(d)
    BY <1>z, <2>1, RefSeen
  <2> QED BY <2>1, <2>2, <2>3, <2>4, NewShares DEF ObjKept, TabKept
<1>14. ASSUME NEW f \in stack, NEW c \in Ctx, Call(f, c) PROVE Tables'
  <2> DEFINE sc == obj[f].scope
             new == [DeadCtx EXCEPT !.ref = 1, !.prev = sc]
  <2>1. sc \in Ctx /\ sc # c
    <3>1. sc \in Ctx /\ Unheld(c)
      BY <1>z, <1>14, CellTypes DEF Call, CtxRef, Ready
    <3>2. f \in desLog
      BY <1>z, <1>14 DEF Ready, Logged, Functions, Call
    <3> QED BY <3>1, <3>2 DEF Unheld
  <2>2. obj' = obj /\ tab' = tab /\ ctx' = [ctx EXCEPT ![c] = new, ![sc].ref = ctx[sc].ref + 1]
    BY <1>14 DEF Call
  <2>3. new.slots = Nil /\ new.obj = Nil
    BY DEF DeadCtx
  <2> HIDE DEF new, sc
  <2>4. ctx'[c] = new /\ \A d \in Ctx \ {c} : ScopeKept(d)
    <3>1. ctx' = [[ctx EXCEPT ![c] = new] EXCEPT ![sc] = [[ctx EXCEPT ![c] = new][sc] EXCEPT !.ref = ctx[sc].ref + 1]]
      BY <1>z, <2>1, <2>2
    <3> QED BY <1>z, <2>1, <3>1 DEF ScopeKept, CtxCellI
  <2> QED BY <2>2, <2>3, <2>4, NewShares DEF ObjKept, TabKept
<1>15. ASSUME NEW f \in stack, CallNative(f) PROVE Tables'
  <2>1. obj[f].scope \in CtxRef /\ RefScope(obj[f].scope) /\ obj' = obj /\ tab' = tab
    BY <1>z, <1>15, CellTypes DEF CallNative
  <2>2. \A d \in Ctx : ScopeKept(d)
    BY <1>z, <2>1, RefSeen
  <2> QED BY <2>1, <2>2, NewShares DEF ObjKept, TabKept
<1> QED BY <1>1, <1>2, <1>3, <1>4, <1>5, <1>6, <1>7, <1>8, <1>9, <1>10, <1>11, <1>12, <1>13, <1>14, <1>15
        DEF Mutate

(***************************************************************************)
(* The theorems, for every number of objects, tables, contexts and slots.  *)
(* "loc" is assigned as programs may assign it (see SetObject): with       *)
(* AnyLoc an old context can lose its young table, and Remembered fails.   *)
(***************************************************************************)

(* The inductive invariant holds in every state of every collection.       *)
THEOREM CollectorInvariant ==
  ASSUME ~ AnyLoc
  PROVE  Spec => []Inv
<1>1. Inv /\ [Next]_vars => Inv'
  BY InvStep
<1> QED BY <1>1, InitInv, PTL DEF Spec

(* Type correctness; that a count is no negative number is because it      *)
(* counts the holders of the context.                                      *)
THEOREM TypesHold ==
  ASSUME ~ AnyLoc
  PROVE  Spec => []TypeOK
<1>1. ASSUME Inv PROVE TypeOK
  <2>1. Types /\ Counted
    BY <1>1 DEF Inv, Counts
  <2>2. ASSUME NEW c \in Ctx PROVE ctx[c] \in CtxCell
    <3>1. ctx[c] \in CtxCellI /\ ctx[c].ref \in Nat
      BY <2>1, Uncounted, CellTypes
    <3> QED BY <3>1 DEF CtxCellI, CtxCell
  <2>3. ctx \in [Ctx -> CtxCell]
    BY <2>1, <2>2 DEF Types, HeapTypes
  <2>4. Len(frames) <= MaxFrames
    BY <2>1, CollectorAssumption DEF Types, RootTypes
  <2> QED BY <2>1, <2>3, <2>4 DEF TypeOK, Types, HeapTypes, RootTypes, ListTypes, WorkTypes
<1> QED BY <1>1, CollectorInvariant, PTL

(* Generations are what the heaps say, as newAt, the two copies of the     *)
(* collector and the exchange of the heaps keep it.                        *)
THEOREM HeapsAreGenerations ==
  ASSUME ~ AnyLoc
  PROVE  Spec => []GenIsHeap
<1>1. Inv => GenIsHeap
  BY DEF Inv, Heap, Generations, InHeap, GenIsHeap, LiveObj, LiveTab
<1> QED BY <1>1, CollectorInvariant, PTL

(* Whenever the program runs, nothing it can reach was left behind by      *)
(* ivm_heap_reset or given back to the pool of contexts.                   *)
THEOREM NothingDangles ==
  ASSUME ~ AnyLoc
  PROVE  Spec => []NoDangling
<1>1. ASSUME Inv, phase = "run" PROVE NoDangling
  <2>1. Types /\ Heap /\ Counted /\ RunRefs
    BY <1>1 DEF Inv, Counts, Program
  <2>2. \A a \in stack \cup wbObj \cup desLog : ObjOk(a)
    BY <2>1 DEF RunRefs, Heap, Lists, Logged, Functions, ObjOk
  <2>3. \A t \in wbSlot : TabOk(t)
    BY <2>1 DEF Heap, Lists, TabOk
  <2>4. \A a \in LiveObj : TabOk(obj[a].slots) /\ ObjOk(obj[a].proto)
    BY <2>1 DEF RunRefs, LiveObj
  <2>5. \A t \in LiveTab, k \in Key : ObjOk(tab[t].val[k])
    BY <2>1 DEF RunRefs, LiveTab
  <2>6. \A c \in LiveCtx : TabOk(ctx[c].slots) /\ ObjOk(ctx[c].obj)
    BY <2>1 DEF RunRefs, LiveCtx
  <2>7. \A c \in Ctx : ctx[c].ref \in Nat /\ (ctx[c].ref = 0 => Unheld(c))
    BY <2>1, Uncounted
  <2>8. \A c \in CtxRef : CtxOk(c) \/ (c \in Ctx /\ Unheld(c))
    BY <2>7 DEF CtxOk, CtxRef
  <2>9. \A i \in DOMAIN frames : CtxOk(frames[i])
    <3>1. \A i \in DOMAIN frames : frames[i] \in CtxRef
      BY <2>1 DEF Types, RootTypes, CtxRef
    <3> QED BY <2>8, <3>1 DEF Unheld
  <2>10. \A c \in LiveCtx : CtxOk(ctx[c].prev)
    <3>1. \A c \in Ctx : ctx[c].prev \in CtxRef
      BY <2>1, CellTypes
    <3> QED BY <2>8, <3>1 DEF Unheld, LiveCtx
  <2>11. \A a \in LiveObj : CtxOk(obj[a].scope)
    <3>1. \A a \in ObjAddr : obj[a].scope \in CtxRef
      BY <2>1, CellTypes
    <3>2. \A a \in LiveObj : obj[a].scope # Nil => a \in desLog
      BY <1>1, <2>1 DEF LiveObj, Heap, Logged, Functions
    <3>3. \A a \in LiveObj : a \in ObjAddr
      BY DEF LiveObj
    <3> QED BY <2>8, <3>1, <3>2, <3>3 DEF Unheld, CtxOk
  <2> QED BY <2>2, <2>3, <2>4, <2>5, <2>6, <2>9, <2>10, <2>11 DEF NoDangling
<1>2. Inv => NoDangling
  BY <1>1 DEF NoDangling
<1> QED BY <1>2, CollectorInvariant, PTL

(* The write barriers miss nothing: when the program runs, an old cell     *)
(* that refers to the nursery is in the list that the next partial         *)
(* collection reads.                                                       *)
THEOREM OldIsRemembered ==
  ASSUME ~ AnyLoc
  PROVE  Spec => []Remembered
<1>1. ASSUME Inv, phase = "run" PROVE Remembered
  <2>1. Types /\ Heap /\ Counted /\ RunOld
    BY <1>1 DEF Inv, Counts, Program
  <2>2. ASSUME NEW a \in LiveObj
        PROVE  /\ obj[a].wb <=> a \in wbObj
               /\ obj[a].gen = 1 /\ (YoungTab(obj[a].slots) \/ YoungObj(obj[a].proto)) => obj[a].wb
               /\ obj[a].gen = 1 /\ obj[a].scope # Nil => ctx[obj[a].scope].gen = 1
    BY <1>1, <2>1 DEF LiveObj, Heap, Lists, RunOld
  <2>3. ASSUME NEW t \in LiveTab
        PROVE  /\ tab[t].wb <=> t \in wbSlot
               /\ tab[t].gen = 1 /\ (\E v \in Values(tab[t]) : YoungObj(v)) => tab[t].wb
    BY <1>1, <2>1 DEF LiveTab, Heap, Lists, RunOld, Values
  <2>4. ASSUME NEW c \in LiveCtx
        PROVE  /\ ctx[c].wb <=> c \in wbCtx
               /\ ctx[c].gen = 1 /\ (YoungTab(ctx[c].slots) \/ YoungObj(ctx[c].obj)) => ctx[c].wb
               /\ ctx[c].gen = 1 /\ ctx[c].prev # Nil /\ freeing = Nil => ctx[ctx[c].prev].gen = 1
    BY <2>1 DEF LiveCtx, RunOld
  <2> QED BY <2>2, <2>3, <2>4 DEF Remembered
<1>2. Inv => Remembered
  BY <1>1 DEF Remembered
<1> QED BY <1>2, CollectorInvariant, PTL

(* The reference counts of ivm_context_addRef and ivm_context_free are     *)
(* exact, whatever a collection dropped and kept.                          *)
THEOREM CountsAreExact ==
  ASSUME ~ AnyLoc
  PROVE  Spec => []CountExact
<1>1. ASSUME Inv, Running, NEW c \in Ctx
      PROVE  ctx[c].ref = Cardinality({i \in DOMAIN frames : frames[i] = c})
                          + Cardinality({a \in desLog : obj[a].scope = c})
                          + Cardinality({d \in LiveCtx : ctx[d].prev = c})
                          + Cardinality(wbCtx \cap {c})
  <2>1. Types /\ Counted /\ Pooled /\ dying = {} /\ freeing = Nil
    BY <1>1 DEF Inv, Counts, Heap, Phases, Running
  <2>2. FramesOf(c) = {i \in DOMAIN frames : frames[i] = c} /\ FunctionsOf(c) = {a \in desLog : obj[a].scope = c}
    BY <2>1 DEF FramesOf, FunctionsOf
  <2>3. ScopesIn(c) = {d \in LiveCtx : ctx[d].prev = c}
    <3>1. \A d \in Ctx : ctx[d].prev = c => ctx[d].ref # 0 /\ ctx[d].ref \in Nat
      BY <2>1, Uncounted, CollectorAssumption DEF Pooled
    <3> QED BY <3>1 DEF ScopesIn, LiveCtx
  <2>4. freeing # c
    BY <2>1, CollectorAssumption
  <2>5. /\ ctx[c].ref = Holders(c) /\ Cardinality(FramesOf(c)) \in Nat /\ Cardinality(FunctionsOf(c)) \in Nat
        /\ Cardinality(ScopesIn(c)) \in Nat /\ Cardinality(wbCtx \cap {c}) \in Nat
    BY <2>1, Parts, AtMostOne DEF Counted
  <2>6. Holders(c) = Cardinality(FramesOf(c)) + Cardinality(FunctionsOf(c)) + Cardinality(ScopesIn(c))
                       + Cardinality(wbCtx \cap {c}) + 0
    BY <2>4 DEF Holders
  <2> QED BY <2>2, <2>3, <2>5, <2>6
<1>2. Inv => CountExact
  BY <1>1 DEF CountExact
<1> QED BY <1>2, CollectorInvariant, PTL

(* The destructor log has every function object that is left, and no       *)
(* other, whenever the program runs.                                       *)
THEOREM LogIsExact ==
  ASSUME ~ AnyLoc
  PROVE  Spec => []DestructorOnce
<1>1. Inv => DestructorOnce
  BY DEF Inv, Heap, Logged, Running, DestructorOnce
<1> QED BY <1>1, CollectorInvariant, PTL

(* The two ways to say what is shared agree after a step, too.             *)
LEMMA SharingAfter == (Types /\ phase = "run" /\ Unique /\ RunRefs)' => (Sharing <=> Tables)'
<1>1. (Types /\ phase = "run" /\ Unique /\ RunRefs) => (Sharing <=> Tables)
  BY SharingTables
<1> QED BY <1>1, PTL

(* Sharing is kept by the instructions, which reason on addresses, and by  *)
(* the collector, which keeps the identities.                              *)
LEMMA ShareStep ==
  ASSUME ~ AnyLoc, Inv, Inv', Sharing, [Next]_vars
  PROVE  Sharing'
<1>1. Types /\ Types'
  BY DEF Inv
<1>2. CASE Running /\ Mutate /\ UNCHANGED <<gcVars, freeing>>
  <2>1. phase = "run" /\ phase' = "run"
    BY <1>2 DEF Running, gcVars
  <2>2. /\ Unique /\ RunRefs /\ RunOld /\ Generations /\ Lists /\ Logged /\ Counted
        /\ Unique' /\ RunRefs'
    BY <2>1 DEF Inv, Heap, Counts, Program
  <2>3. Ready
    <3>1. \A c \in Ctx : ctx[c].ref = 0 => Unheld(c)
      BY <1>1, <2>2, Uncounted
    <3> QED BY <1>1, <1>2, <2>1, <2>2, <3>1 DEF Ready, Inv, Heap
  <2>4. Tables
    BY <1>1, <2>1, <2>2, SharingTables
  <2>5. Tables'
    BY <1>2, <2>3, <2>4, MutateShares
  <2>6. Sharing' <=> Tables'
    BY <1>1, <2>1, <2>2, SharingAfter
  <2> QED BY <2>5, <2>6
<1>3. CASE ~ (Running /\ Mutate /\ UNCHANGED <<gcVars, freeing>>)
  <2>1. Moves
    BY <1>3, CollectShares
  <2> QED BY <1>1, <2>1, MovesShare
<1> QED BY <1>2, <1>3

(* Copy on write is invisible: a table that two objects have is marked     *)
(* shared, and a context writes only tables that its own object sees, over *)
(* clones, copies of tables, contexts and collections.                     *)
THEOREM TablesAreMarked ==
  ASSUME ~ AnyLoc
  PROVE  Spec => []SharingMarked
<1>1. ASSUME Init PROVE Inv /\ Sharing
  <2>1. /\ \A a \in ObjAddr : ~ obj[a].live
        /\ \A c \in Ctx : ctx[c].obj = Nil /\ ctx[c].slots = Nil
    BY <1>1 DEF Init, DeadObj, DeadCtx
  <2> QED BY <1>1, <2>1, InitInv DEF Sharing
<1>2. ASSUME Inv /\ Sharing, [Next]_vars PROVE (Inv /\ Sharing)'
  BY <1>2, InvStep, ShareStep
<1>3. ASSUME Inv, Sharing, phase = "run" PROVE SharingMarked
  <2>1. Types /\ Unique /\ RunRefs
    BY <1>3 DEF Inv, Heap, Program
  <2>2. Tables
    BY <1>3, <2>1, SharingTables
  <2> QED BY <2>2 DEF Tables, OneTable, ObjTables, LiveObj, LiveCtx, SharingMarked
<1>4. Inv /\ Sharing => SharingMarked
  BY <1>3 DEF SharingMarked
<1> QED BY <1>1, <1>2, <1>4, PTL DEF Spec

(***************************************************************************)
(* What a program sees of the heap is ObjectModel: an instruction does to  *)
(* the identities what ObjectModel says, and a step of a collection only   *)
(* forgets what nothing refers to.  First, what a state looks like.        *)
(***************************************************************************)

(* What an object and a context look like, from the cell at an address.    *)
Look(a) == [slots |-> SlotsOf(obj[a].slots), proto |-> Id(obj[a].proto), scope |-> obj[a].scope]
LookIn(c) == [slots |-> SlotsOf(IF ctx[c].obj = Nil THEN ctx[c].slots ELSE Nil),
              obj |-> Id(ctx[c].obj), prev |-> ctx[c].prev]

(* Slots are those of any cell of the table.                               *)
LEMMA SlotsSeen ==
  ASSUME Types, Copies
  PROVE  /\ SlotsOf(Nil) = [k \in Key |-> Nil]
         /\ \A x \in TabRef : \A t \in TabAddr : x # Nil /\ tab[t].live /\ t[1] = Id(x) =>
              SlotsOf(x) = [k \in Key |-> Id(tab[t].val[k])]
         /\ \A x, y \in TabRef : SameId(x, y) => SlotsOf(x) = SlotsOf(y)
<1>1. SlotsOf(Nil) = [k \in Key |-> Nil]
  BY DEF SlotsOf
<1>2. ASSUME NEW x \in TabRef, NEW t \in TabAddr, x # Nil, tab[t].live, t[1] = Id(x)
      PROVE  SlotsOf(x) = [k \in Key |-> Id(tab[t].val[k])]
  <2>1. x[1] = t[1] /\ x[1] \in Tab
    BY <1>2, Addresses DEF Id
  <2>2. TabAt(x[1]) \in TabAddr /\ tab[TabAt(x[1])].live /\ TabAt(x[1])[1] = t[1]
    <3> DEFINE at == {s \in Space : tab[<<x[1], s>>].live}
               s  == IF to \in at THEN to ELSE CHOOSE r \in at : TRUE
    <3>1. t[2] \in at
      BY <1>2, <2>1, Addresses
    <3>2. s \in at
      BY <3>1
    <3>3. TabAt(x[1]) = <<x[1], s>>
      BY DEF TabAt
    <3> HIDE DEF s
    <3> QED BY <2>1, <3>2, <3>3, Addresses
  <2>3. SameTab(tab[TabAt(x[1])], tab[t])
    BY <1>2, <2>2 DEF Copies
  <2>4. \A k \in Key : Id(tab[TabAt(x[1])].val[k]) = Id(tab[t].val[k])
    BY <2>3 DEF SameTab, SameId
  <2> QED BY <1>2, <2>4 DEF SlotsOf
<1>3. ASSUME NEW x \in TabRef, NEW y \in TabRef, SameId(x, y) PROVE SlotsOf(x) = SlotsOf(y)
  <2>1. (x = Nil <=> y = Nil) /\ (x # Nil => x[1] = y[1])
    BY <1>3, Addresses, CollectorAssumption DEF SameId, Id, TabRef
  <2> QED BY <2>1 DEF SlotsOf
<1> QED BY <1>1, <1>2, <1>3

(* An object is what any of its cells looks like.                          *)
LEMMA ObjectSeen ==
  ASSUME Types, Copies
  PROVE  /\ \A a \in ObjAddr : obj[a].live /\ Kept(a[1]) => AbsObject[a[1]] = Look(a)
         /\ \A o \in Obj : Kept(o) => \E a \in ObjAddr : obj[a].live /\ a[1] = o
         /\ \A o \in Obj : ~ Kept(o) => AbsObject[o] = Nil
         /\ \A c \in Ctx : AbsScope[c] = IF KeptCtx(c) THEN LookIn(c) ELSE Nil
<1>1. ASSUME NEW a \in ObjAddr, obj[a].live, Kept(a[1]) PROVE AbsObject[a[1]] = Look(a)
  <2>1. a[1] \in Obj
    BY <1>1, Addresses
  <2>2. ObjAt(a[1]) \in ObjAddr /\ obj[ObjAt(a[1])].live /\ ObjAt(a[1])[1] = a[1]
    <3> DEFINE at == {s \in Space : obj[<<a[1], s>>].live}
               s  == IF to \in at THEN to ELSE CHOOSE r \in at : TRUE
    <3>1. a[2] \in at
      BY <1>1, Addresses
    <3>2. s \in at
      BY <3>1
    <3>3. ObjAt(a[1]) = <<a[1], s>>
      BY DEF ObjAt
    <3> HIDE DEF s
    <3> QED BY <2>1, <3>2, <3>3, Addresses
  <2>3. PICK b \in ObjAddr : b = ObjAt(a[1])
    BY <2>2
  <2>4. SameObj(obj[b], obj[a])
    BY <1>1, <2>2, <2>3 DEF Copies
  <2>5. obj[a].slots \in TabRef /\ obj[b].slots \in TabRef
    BY CellTypes
  <2>6. SlotsOf(obj[b].slots) = SlotsOf(obj[a].slots)
    BY <2>4, <2>5, SlotsSeen DEF SameObj
  <2>7. AbsObject[a[1]] = [slots |-> SlotsOf(obj[b].slots), proto |-> Id(obj[b].proto), scope |-> obj[b].scope]
    BY <1>1, <2>1, <2>3 DEF AbsObject
  <2> QED BY <2>4, <2>6, <2>7 DEF Look, SameObj, SameId
<1>2. ASSUME NEW o \in Obj, Kept(o) PROVE \E a \in ObjAddr : obj[a].live /\ a[1] = o
  <2>1. \A s \in Space : <<o, s>> \in ObjAddr /\ <<o, s>>[1] = o
    BY Addresses
  <2> QED BY <1>2, <2>1, Heaps DEF Kept, UnusedObj
<1>3. \A o \in Obj : ~ Kept(o) => AbsObject[o] = Nil
  BY DEF AbsObject
<1>4. \A c \in Ctx : AbsScope[c] = IF KeptCtx(c) THEN LookIn(c) ELSE Nil
  BY DEF AbsScope, LookIn
<1> QED BY <1>1, <1>2, <1>3, <1>4

(* Every table that an object or a context has is there.                   *)
LEMMA TablesKnown ==
  ASSUME Inv
  PROVE  /\ \A a \in ObjAddr : obj[a].live /\ obj[a].slots # Nil =>
              \E t \in TabAddr : tab[t].live /\ t[1] = Id(obj[a].slots)
         /\ \A c \in Ctx : ctx[c].slots # Nil =>
              \E t \in TabAddr : tab[t].live /\ t[1] = Id(ctx[c].slots)
<1>1. Types /\ Work
  BY DEF Inv, Heap
<1>2. \A x \in TabRef : x # Nil => x \in TabAddr /\ Id(x) = x[1]
  BY DEF TabRef, Id
<1>3. \A x \in TabRef : x # Nil /\ TabOk(x) => \E t \in TabAddr : tab[t].live /\ t[1] = Id(x)
  BY <1>2 DEF TabOk
<1>4. \A x \in TabRef : x # Nil /\ TabHere(x) => \E t \in TabAddr : tab[t].live /\ t[1] = Id(x)
  BY <1>1, <1>2 DEF TabHere, Work, Types, WorkTypes
<1>5. \A a \in ObjAddr : obj[a].slots \in TabRef
  BY <1>1, CellTypes
<1>6. \A c \in Ctx : ctx[c].slots \in TabRef
  BY <1>1, CellTypes
<1>7. \A a \in ObjAddr : obj[a].live => TabOk(obj[a].slots) \/ TabHere(obj[a].slots)
  BY DEF Inv, Program, Collection, RunRefs, CellRefs
<1>8. \A c \in Ctx : TabOk(ctx[c].slots) \/ TabHere(ctx[c].slots)
  BY DEF Inv, Program, Collection, RunRefs, CtxRefs
<1> QED BY <1>3, <1>4, <1>5, <1>6, <1>7, <1>8

(* Objects and contexts are no NULL.                                       *)
LEMMA ThereIs ==
  ASSUME Inv
  PROVE  /\ \A a \in ObjAddr : obj[a].live => Look(a) # Nil
         /\ \A c \in Ctx : LookIn(c) # Nil
         /\ \A o \in Obj : AbsObject[o] # Nil <=> Kept(o)
         /\ \A c \in Ctx : AbsScope[c] # Nil <=> KeptCtx(c)
<1>1. Types /\ Copies
  BY DEF Inv, Heap
<1>2. ASSUME NEW x \in TabRef, x = Nil \/ \E t \in TabAddr : tab[t].live /\ t[1] = Id(x)
      PROVE  SlotsOf(x) \in [Key -> Obj \cup {Nil}]
  <2>1. CASE x = Nil
    BY <1>1, <2>1, SlotsSeen
  <2>2. CASE x # Nil
    <3>1. PICK t \in TabAddr : tab[t].live /\ t[1] = Id(x)
      BY <1>2, <2>2
    <3>2. SlotsOf(x) = [k \in Key |-> Id(tab[t].val[k])]
      BY <1>1, <2>2, <3>1, SlotsSeen
    <3>3. \A k \in Key : tab[t].val[k] \in ObjRef
      BY <1>1, CellTypes DEF TabCell
    <3>4. \A v \in ObjRef : Id(v) \in Obj \cup {Nil}
      BY Addresses DEF Id, ObjRef
    <3> QED BY <3>2, <3>3, <3>4
  <2> QED BY <2>1, <2>2
<1>3. \A v \in ObjRef : Id(v) \in Obj \cup {Nil}
  BY Addresses DEF Id, ObjRef
<1>4. ASSUME NEW a \in ObjAddr, obj[a].live PROVE Look(a) # Nil
  <2>1. /\ obj[a].slots \in TabRef /\ obj[a].proto \in ObjRef /\ obj[a].scope \in Ctx \cup {Nil}
    BY <1>1, CellTypes DEF CtxRef
  <2>2. SlotsOf(obj[a].slots) \in [Key -> Obj \cup {Nil}]
    BY <1>2, <1>4, <2>1, TablesKnown
  <2>3. Look(a) \in [slots : [Key -> Obj \cup {Nil}], proto : Obj \cup {Nil}, scope : Ctx \cup {Nil}]
    BY <1>3, <2>1, <2>2 DEF Look
  <2> QED BY <2>3, CollectorAssumption
<1>5. ASSUME NEW c \in Ctx PROVE LookIn(c) # Nil
  <2>1. /\ ctx[c].slots \in TabRef /\ ctx[c].obj \in ObjRef /\ ctx[c].prev \in Ctx \cup {Nil} /\ Nil \in TabRef
    BY <1>1, CellTypes DEF CtxRef, TabRef
  <2>2. \A x \in TabRef : x = ctx[c].slots \/ x = Nil => SlotsOf(x) \in [Key -> Obj \cup {Nil}]
    BY <1>2, <2>1, TablesKnown
  <2>3. SlotsOf(IF ctx[c].obj = Nil THEN ctx[c].slots ELSE Nil) \in [Key -> Obj \cup {Nil}]
    BY <2>1, <2>2
  <2>4. LookIn(c) \in [slots : [Key -> Obj \cup {Nil}], obj : Obj \cup {Nil}, prev : Ctx \cup {Nil}]
    BY <1>3, <2>1, <2>3 DEF LookIn
  <2> QED BY <2>4, CollectorAssumption
<1> QED BY <1>1, <1>4, <1>5, ObjectSeen

(* What is kept refers only to what is kept.                               *)
RefKeptIn(x) == x = Nil \/ Kept(Id(x))
TabKeptIn(x) ==
  x = Nil \/ \E t \in TabAddr : tab[t].live /\ t[1] = Id(x) /\ (phase = "destruct" => t[2] = to)
Closed ==
  /\ \A a \in stack : AbsObject[a[1]] # Nil
  /\ \A i \in DOMAIN frames : AbsScope[frames[i]] # Nil
  /\ \A o \in Obj : AbsObject[o] # Nil =>
       /\ \A k \in Key : AbsObject[o].slots[k] # Nil => AbsObject[AbsObject[o].slots[k]] # Nil
       /\ AbsObject[o].proto # Nil => AbsObject[AbsObject[o].proto] # Nil
       /\ AbsObject[o].scope # Nil => AbsScope[AbsObject[o].scope] # Nil
  /\ \A c \in Ctx : AbsScope[c] # Nil =>
       /\ \A k \in Key : AbsScope[c].slots[k] # Nil => AbsObject[AbsScope[c].slots[k]] # Nil
       /\ AbsScope[c].obj # Nil => AbsObject[AbsScope[c].obj] # Nil
       /\ AbsScope[c].prev # Nil => AbsScope[AbsScope[c].prev] # Nil

(* A context that something refers to is in use.                           *)
LEMMA HeldInUse ==
  ASSUME Inv
  PROVE  /\ \A i \in DOMAIN frames : frames[i] \in Ctx /\ ctx[frames[i]].ref > 0
         /\ \A a \in ObjAddr : obj[a].live /\ obj[a].scope # Nil /\ (phase = "destruct" => a[2] = to) =>
              obj[a].scope \in Ctx /\ ctx[obj[a].scope].ref > 0
         /\ \A c \in Ctx : ctx[c].prev # Nil => ctx[c].prev \in Ctx /\ ctx[ctx[c].prev].ref > 0
<1>1. Types /\ Counted /\ Logged /\ Copies
  BY DEF Inv, Heap, Counts
<1>2. \A c \in Ctx : ctx[c].ref \in Nat /\ (ctx[c].ref = 0 => Unheld(c))
  BY <1>1, Uncounted
<1>3. \A c \in Ctx : ~ Unheld(c) => ctx[c].ref > 0
  BY <1>2
<1>4. \A i \in DOMAIN frames : frames[i] \in Ctx
  BY <1>1 DEF Types, RootTypes
<1>5. /\ \A a \in ObjAddr : obj[a].scope # Nil => obj[a].scope \in Ctx
      /\ \A c \in Ctx : ctx[c].prev # Nil => ctx[c].prev \in Ctx
  BY <1>1, CellTypes DEF CtxRef
<1>6. ASSUME NEW a \in ObjAddr, obj[a].live, obj[a].scope # Nil, phase = "destruct" => a[2] = to
      PROVE  \E b \in desLog \cup dying : obj[b].scope = obj[a].scope
  <2>0. a \in Functions /\ desLog \subseteq ObjAddr /\ desLog \subseteq Functions
    BY <1>1, <1>6 DEF Functions, Logged, Types, ListTypes
  <2>1. CASE phase = "run"
    BY <1>1, <2>0, <2>1 DEF Logged
  <2>2. CASE phase \in {"roots", "barrier"}
    <3>1. a \in desLog \/ \E b \in desLog : a # b /\ To(b) = a
      BY <1>1, <2>0, <2>2 DEF Logged
    <3>2. ASSUME NEW b \in desLog, To(b) = a PROVE obj[b].scope = obj[a].scope
      <4>1. b[1] = a[1] /\ obj[b].live
        BY <2>0, <3>2 DEF To, Functions
      <4> QED BY <1>1, <1>6, <2>0, <4>1 DEF Copies, SameObj
    <3> QED BY <3>1, <3>2
  <2>3. CASE phase = "destruct"
    BY <1>1, <1>6, <2>0, <2>3 DEF Logged
  <2> QED BY <1>1, <2>1, <2>2, <2>3 DEF Types, WorkTypes
<1> QED BY <1>3, <1>4, <1>5, <1>6 DEF Unheld

(* What the cells that are kept refer to is kept.                          *)
LEMMA CellsClosed ==
  ASSUME Inv
  PROVE  /\ \A a \in stack : RefKeptIn(a)
         /\ \A a \in ObjAddr : obj[a].live /\ (phase = "destruct" => a[2] = to) =>
              TabKeptIn(obj[a].slots) /\ RefKeptIn(obj[a].proto)
         /\ \A t \in TabAddr : tab[t].live /\ (phase = "destruct" => t[2] = to) =>
              \A k \in Key : RefKeptIn(tab[t].val[k])
         /\ \A c \in Ctx : KeptCtx(c) => TabKeptIn(ctx[c].slots) /\ RefKeptIn(ctx[c].obj)
<1>1. Types /\ Phases /\ Work /\ phase \in {"run", "roots", "barrier", "destruct"}
  BY DEF Inv, Heap, Types, WorkTypes
<1>2. /\ \A x \in ObjRef : x # Nil => x \in ObjAddr /\ Id(x) = x[1] /\ x[1] \in Obj /\ x = <<x[1], x[2]>> /\ x[2] \in Space
      /\ \A x \in TabRef : x # Nil => x \in TabAddr /\ Id(x) = x[1]
  BY Addresses DEF ObjRef, TabRef, Id
<1>3. ASSUME NEW x \in ObjRef, ObjOk(x), phase # "destruct" PROVE RefKeptIn(x)
  BY <1>2, <1>3 DEF ObjOk, RefKeptIn, Kept, UnusedObj
<1>4. ASSUME NEW x \in ObjRef, ObjOk(x), InTo(x) PROVE RefKeptIn(x)
  BY <1>2, <1>4 DEF ObjOk, InTo, RefKeptIn, Kept, UnusedObj
<1>5. ASSUME NEW x \in ObjRef, ObjHere(x) PROVE RefKeptIn(x)
  <2>1. CASE x = Nil
    BY <2>1 DEF RefKeptIn
  <2>2. CASE x # Nil /\ obj[x].live
    BY <1>4, <1>5, <2>2 DEF ObjHere, InTo, ObjOk
  <2>3. CASE x # Nil /\ ~ obj[x].live
    <3>1. PICK s \in todoObj : s[1] = x[1]
      BY <1>5, <2>3 DEF ObjHere
    <3>2. s \in ObjAddr /\ obj[s].live /\ phase # "destruct"
      BY <1>1, <3>1 DEF Types, WorkTypes, Work, Phases
    <3>3. s = <<x[1], s[2]>> /\ s[2] \in Space
      BY <3>1, <3>2, Addresses
    <3> QED BY <1>2, <2>3, <3>2, <3>3 DEF RefKeptIn, Kept, UnusedObj
  <2> QED BY <2>1, <2>2, <2>3
<1>6. ASSUME NEW x \in TabRef, TabOk(x), phase # "destruct" \/ InTo(x) PROVE TabKeptIn(x)
  BY <1>2, <1>6 DEF TabOk, InTo, TabKeptIn
<1>7. ASSUME NEW x \in TabRef, TabHere(x) PROVE TabKeptIn(x)
  <2>1. CASE x = Nil
    BY <2>1 DEF TabKeptIn
  <2>2. CASE x # Nil /\ tab[x].live
    BY <1>2, <1>7, <2>2 DEF TabHere, TabKeptIn
  <2>3. CASE x # Nil /\ ~ tab[x].live
    <3>1. PICK s \in todoTab : s[1] = x[1]
      BY <1>7, <2>3 DEF TabHere
    <3>2. s \in TabAddr /\ tab[s].live /\ phase # "destruct"
      BY <1>1, <3>1 DEF Types, WorkTypes, Work, Phases
    <3> QED BY <1>2, <2>3, <3>1, <3>2 DEF TabKeptIn
  <2> QED BY <2>1, <2>2, <2>3
<1>8. /\ \A a \in ObjAddr : obj[a].slots \in TabRef /\ obj[a].proto \in ObjRef
      /\ \A t \in TabAddr : \A k \in Key : tab[t].val[k] \in ObjRef
      /\ \A c \in Ctx : ctx[c].slots \in TabRef /\ ctx[c].obj \in ObjRef /\ ctx[c].gen \in Bit
      /\ \A a \in stack : a \in ObjRef
  BY <1>1, CellTypes DEF Types, RootTypes, ObjRef
<1>9. CASE phase = "run"
  <2>1. RunRefs
    BY <1>9 DEF Inv, Program
  <2>2. \A a \in stack : ObjOk(a)
    BY <2>1 DEF RunRefs, ObjOk
  <2> QED BY <1>3, <1>6, <1>8, <1>9, <2>1, <2>2 DEF RunRefs
<1>10. CASE phase # "run"
  <2>1. CellRefs /\ CtxRefs /\ Reachable
    BY <1>10 DEF Inv, Collection
  <2>2. \A a \in stack : RefKeptIn(a)
    BY <1>5, <1>8, <2>1 DEF CellRefs
  <2>3. ASSUME NEW a \in ObjAddr, obj[a].live, phase = "destruct" => a[2] = to
        PROVE  TabKeptIn(obj[a].slots) /\ RefKeptIn(obj[a].proto)
    <3>1. \/ TabHere(obj[a].slots) /\ ObjHere(obj[a].proto)
          \/ phase # "destruct" /\ TabOk(obj[a].slots) /\ ObjOk(obj[a].proto)
      BY <2>1, <2>3 DEF CellRefs
    <3> QED BY <1>3, <1>5, <1>6, <1>7, <1>8, <3>1
  <2>4. ASSUME NEW t \in TabAddr, tab[t].live, phase = "destruct" => t[2] = to, NEW k \in Key
        PROVE  RefKeptIn(tab[t].val[k])
    <3>1. ObjHere(tab[t].val[k]) \/ (phase # "destruct" /\ ObjOk(tab[t].val[k]))
      BY <2>1, <2>4 DEF CellRefs
    <3> QED BY <1>3, <1>5, <1>8, <3>1
  <2>5. ASSUME NEW c \in Ctx, KeptCtx(c) PROVE TabKeptIn(ctx[c].slots) /\ RefKeptIn(ctx[c].obj)
    <3>1. CASE c \in visited
      BY <1>5, <1>7, <1>8, <2>1, <3>1 DEF CtxRefs
    <3>2. CASE c \notin visited /\ phase # "destruct"
      BY <1>3, <1>6, <1>8, <2>1, <3>2 DEF CtxRefs
    <3>3. CASE c \notin visited /\ phase = "destruct"
      <4>1. ~ Full /\ ctx[c].gen = 1
        BY <1>1, <1>8, <2>5, <3>3 DEF KeptCtx, Full, Bit, Types, WorkTypes
      <4>2. ~ ctx[c].wb
        BY <1>1, <2>1, <3>3, <4>1 DEF Reachable, Phases
      <4>3. TabOk(ctx[c].slots) /\ ObjOk(ctx[c].obj) /\ InTo(ctx[c].slots) /\ InTo(ctx[c].obj)
        BY <2>1, <3>3, <4>1, <4>2 DEF CtxRefs
      <4> QED BY <1>4, <1>6, <1>8, <4>3
    <3> QED BY <3>1, <3>2, <3>3
  <2> QED BY <2>2, <2>3, <2>4, <2>5
<1> QED BY <1>9, <1>10

(* The same, as the program sees it.                                       *)
LEMMA InvClosed ==
  ASSUME Inv
  PROVE  Closed
<1>1. Types /\ Copies /\ Phases
  BY DEF Inv, Heap
<1>2. /\ \A a \in ObjAddr : obj[a].slots \in TabRef /\ obj[a].proto \in ObjRef /\ obj[a].scope \in CtxRef
      /\ \A t \in TabAddr : \A k \in Key : tab[t].val[k] \in ObjRef
      /\ \A c \in Ctx : ctx[c].slots \in TabRef /\ ctx[c].obj \in ObjRef /\ ctx[c].prev \in CtxRef /\ ctx[c].gen \in Bit
      /\ \A a \in stack : a \in ObjAddr /\ a # Nil
  BY <1>1, CellTypes, Addresses DEF Types, RootTypes
<1>3. /\ \A x \in ObjRef : Id(x) # Nil => x # Nil /\ Id(x) \in Obj
      /\ \A a \in ObjAddr : Id(a) = a[1] /\ a[1] \in Obj
      /\ \A o \in Obj : Kept(o) <=> AbsObject[o] # Nil
      /\ \A c \in Ctx : KeptCtx(c) <=> AbsScope[c] # Nil
  BY Addresses, ThereIs DEF Id, ObjRef
<1>4. ASSUME NEW x \in TabRef, TabKeptIn(x), NEW k \in Key, SlotsOf(x)[k] # Nil PROVE AbsObject[SlotsOf(x)[k]] # Nil
  <2>1. x # Nil
    BY <1>1, <1>4, SlotsSeen
  <2>2. PICK t \in TabAddr : tab[t].live /\ t[1] = Id(x) /\ (phase = "destruct" => t[2] = to)
    BY <1>4, <2>1 DEF TabKeptIn
  <2>3. SlotsOf(x) = [j \in Key |-> Id(tab[t].val[j])]
    BY <1>1, <2>1, <2>2, SlotsSeen
  <2>4. RefKeptIn(tab[t].val[k])
    BY <2>2, CellsClosed
  <2> QED BY <1>2, <1>3, <1>4, <2>3, <2>4 DEF RefKeptIn
<1>5. ASSUME NEW x \in ObjRef, RefKeptIn(x), Id(x) # Nil PROVE AbsObject[Id(x)] # Nil
  BY <1>3, <1>5 DEF RefKeptIn
<1>6. ASSUME NEW c \in Ctx, ctx[c].ref > 0,
             \/ \E i \in DOMAIN frames : frames[i] = c
             \/ \E a \in ObjAddr : obj[a].live /\ obj[a].scope = c /\ (phase = "destruct" => a[2] = to)
             \/ \E d \in Ctx : ctx[d].prev = c /\ KeptCtx(d)
      PROVE  AbsScope[c] # Nil
  <2>0. SUFFICES KeptCtx(c)
    BY <1>3
  <2>1. CASE phase # "destruct"
    BY <1>6, <2>1 DEF KeptCtx
  <2>2. CASE phase = "destruct"
    <3>1. Reachable /\ todoCtx = {} /\ c # Nil /\ gcGen \in Bit
      BY <1>1, <1>6, <2>2, Addresses DEF Inv, Collection, Phases, Types, WorkTypes
    <3>2. \A d \in Ctx : KeptCtx(d) => Settled(d)
      BY <1>2, <2>2, <3>1 DEF KeptCtx, Settled, Full, Bit
    <3>3. Reached(c)
      BY <1>6, <2>2, <3>1, <3>2 DEF Reachable
    <3>4. c \in visited \/ (~ Full /\ ctx[c].gen = 1)
      BY <3>1, <3>3 DEF Reached, Settled
    <3> QED BY <1>6, <3>1, <3>4 DEF KeptCtx, Full, Bit
  <2> QED BY <2>1, <2>2
<1>7. \A a \in stack : AbsObject[a[1]] # Nil
  BY <1>2, <1>3, CellsClosed DEF RefKeptIn
<1>8. \A i \in DOMAIN frames : AbsScope[frames[i]] # Nil
  BY <1>6, HeldInUse
<1>9. ASSUME NEW o \in Obj, Kept(o)
      PROVE  /\ \A k \in Key : AbsObject[o].slots[k] # Nil => AbsObject[AbsObject[o].slots[k]] # Nil
             /\ AbsObject[o].proto # Nil => AbsObject[AbsObject[o].proto] # Nil
             /\ AbsObject[o].scope # Nil => AbsScope[AbsObject[o].scope] # Nil
  <2>1. PICK a \in ObjAddr : obj[a].live /\ a[1] = o /\ (phase = "destruct" => a[2] = to)
    <3>1. \A s \in Space : <<o, s>> \in ObjAddr /\ <<o, s>>[1] = o /\ <<o, s>>[2] = s
      BY Addresses
    <3> QED BY <1>1, <1>9, <3>1, Heaps DEF Kept, UnusedObj
  <2>2. AbsObject[o] = Look(a)
    BY <1>1, <1>9, <2>1, ObjectSeen
  <2>3. AbsObject[o].slots = SlotsOf(obj[a].slots) /\ AbsObject[o].proto = Id(obj[a].proto) /\ AbsObject[o].scope = obj[a].scope
    BY <2>2 DEF Look
  <2>4. TabKeptIn(obj[a].slots) /\ RefKeptIn(obj[a].proto)
    BY <2>1, CellsClosed
  <2>5. obj[a].scope # Nil => AbsScope[obj[a].scope] # Nil
    BY <1>6, <2>1, HeldInUse
  <2> QED BY <1>2, <1>4, <1>5, <2>3, <2>4, <2>5
<1>10. ASSUME NEW c \in Ctx, KeptCtx(c)
       PROVE  /\ \A k \in Key : AbsScope[c].slots[k] # Nil => AbsObject[AbsScope[c].slots[k]] # Nil
              /\ AbsScope[c].obj # Nil => AbsObject[AbsScope[c].obj] # Nil
              /\ AbsScope[c].prev # Nil => AbsScope[AbsScope[c].prev] # Nil
  <2>1. AbsScope[c] = LookIn(c)
    BY <1>1, <1>10, ObjectSeen
  <2>2. PICK x \in TabRef : x = (IF ctx[c].obj = Nil THEN ctx[c].slots ELSE Nil)
    BY <1>2 DEF TabRef
  <2>3. AbsScope[c].slots = SlotsOf(x) /\ AbsScope[c].obj = Id(ctx[c].obj) /\ AbsScope[c].prev = ctx[c].prev
    BY <2>1, <2>2 DEF LookIn
  <2>4. TabKeptIn(x) /\ RefKeptIn(ctx[c].obj)
    BY <1>10, <2>2, CellsClosed DEF TabKeptIn
  <2>5. ctx[c].prev # Nil => AbsScope[ctx[c].prev] # Nil
    BY <1>6, <1>10, HeldInUse
  <2> QED BY <1>2, <1>4, <1>5, <2>3, <2>4, <2>5
<1> QED BY <1>3, <1>7, <1>8, <1>9, <1>10 DEF Closed

(* What is known of a state, in the form that also speaks of the next.     *)
Seen ==
  /\ SlotsOf(Nil) = [k \in Key |-> Nil]
  /\ \A x \in TabRef : \A t \in TabAddr : x # Nil /\ tab[t].live /\ t[1] = Id(x) =>
       SlotsOf(x) = [k \in Key |-> Id(tab[t].val[k])]
  /\ \A a \in ObjAddr : obj[a].live /\ Kept(a[1]) => AbsObject[a[1]] = Look(a)
  /\ \A o \in Obj : Kept(o) => \E a \in ObjAddr : obj[a].live /\ a[1] = o
  /\ \A o \in Obj : ~ Kept(o) => AbsObject[o] = Nil
  /\ \A c \in Ctx : AbsScope[c] = IF KeptCtx(c) THEN LookIn(c) ELSE Nil
  /\ \A a \in ObjAddr : obj[a].live /\ obj[a].slots # Nil => \E t \in TabAddr : tab[t].live /\ t[1] = Id(obj[a].slots)
  /\ \A c \in Ctx : ctx[c].slots # Nil => \E t \in TabAddr : tab[t].live /\ t[1] = Id(ctx[c].slots)
  /\ \A o \in Obj : AbsObject[o] # Nil <=> Kept(o)
  /\ \A c \in Ctx : AbsScope[c] # Nil <=> KeptCtx(c)

(* It is known of every state of the collector, and of the next one.       *)
LEMMA AllSeen == (Inv => Seen /\ Closed) /\ (Inv => Seen /\ Closed)'
<1>1. Inv => Seen /\ Closed
  <2> SUFFICES ASSUME Inv PROVE Seen /\ Closed
    OBVIOUS
  <2>1. Types /\ Copies
    BY DEF Inv, Heap
  <2> QED BY <2>1, SlotsSeen, ObjectSeen, TablesKnown, ThereIs, InvClosed DEF Seen
<1> QED BY <1>1, PTL

(* A collection moves cells and forgets some, and nothing else is seen.    *)
LEMMA ForgetStep ==
  ASSUME Inv, Inv', Moves, {a[1] : a \in stack'} = {a[1] : a \in stack}, frames' = frames,
         \A o \in Obj : Kept(o)' => Kept(o), \A c \in Ctx : KeptCtx(c)' => KeptCtx(c)
  PROVE  Model!Forget
<1>1. Seen /\ Seen' /\ Closed'
  BY AllSeen
<1>2. Types /\ Types'
  BY DEF Inv
<1>3. /\ \A x : Id(x)' = Id(x)
      /\ \A x \in TabRef : (Id(x) = Nil <=> x = Nil)
      /\ \A x \in ObjRef : (Id(x) = Nil <=> x = Nil)
  BY Addresses, CollectorAssumption DEF Id, TabRef, ObjRef
<1>4. /\ \A a \in ObjAddr : obj[a].slots \in TabRef /\ obj'[a].slots \in TabRef
      /\ \A c \in Ctx : ctx[c].slots \in TabRef /\ ctx'[c].slots \in TabRef /\ ctx[c].obj \in ObjRef /\ ctx'[c].obj \in ObjRef
      /\ \A i \in DOMAIN frames : frames[i] \in Ctx
  BY <1>2 DEF Types, HeapTypes, RootTypes, ObjCell, CtxCellI
<1>5. ASSUME NEW x \in TabRef, NEW y \in TabRef, SameId(x, y),
             x # Nil => \E t \in TabAddr : tab'[t].live /\ t[1] = Id(x)
      PROVE  SlotsOf(x)' = SlotsOf(y)
  <2>1. CASE x = Nil
    <3>1. y = Nil
      BY <1>3, <1>5, <2>1 DEF SameId
    <3> QED BY <1>1, <2>1, <3>1 DEF Seen
  <2>2. CASE x # Nil
    <3>1. PICK t \in TabAddr : tab'[t].live /\ t[1] = Id(x)
      BY <1>5, <2>2
    <3>2. SlotsOf(x)' = [k \in Key |-> Id(tab'[t].val[k])]
      BY <1>1, <1>3, <2>2, <3>1 DEF Seen
    <3>3. PICK u \in TabAddr : tab[u].live /\ u[1] = t[1] /\ SameTab(tab'[t], tab[u])
      BY <3>1 DEF Moves
    <3>4. y # Nil /\ u[1] = Id(y)
      BY <1>3, <1>5, <2>2, <3>1, <3>3 DEF SameId
    <3>5. SlotsOf(y) = [k \in Key |-> Id(tab[u].val[k])]
      BY <1>1, <3>3, <3>4 DEF Seen
    <3>6. \A k \in Key : Id(tab'[t].val[k]) = Id(tab[u].val[k])
      BY <3>3 DEF SameTab, SameId
    <3> QED BY <3>2, <3>5, <3>6
  <2> QED BY <2>1, <2>2
<1>6. ASSUME NEW o \in Obj, Kept(o)' PROVE AbsObject'[o] = AbsObject[o] /\ Kept(o)
  <2>1. PICK a \in ObjAddr : obj'[a].live /\ a[1] = o
    BY <1>1, <1>6 DEF Seen
  <2>2. AbsObject'[o] = Look(a)'
    BY <1>1, <1>6, <2>1 DEF Seen
  <2>3. PICK b \in ObjAddr : obj[b].live /\ b[1] = o /\ SameObj(obj'[a], obj[b])
    BY <2>1 DEF Moves
  <2>4. AbsObject[o] = Look(b) /\ Kept(o)
    BY <1>1, <1>6, <2>3 DEF Seen
  <2>5. PICK x \in TabRef : x = obj'[a].slots
    BY <1>4
  <2>6. x # Nil => \E t \in TabAddr : tab'[t].live /\ t[1] = Id(x)
    BY <1>1, <1>3, <2>1, <2>5 DEF Seen
  <2>7. SlotsOf(x)' = SlotsOf(obj[b].slots)
    BY <1>4, <1>5, <2>3, <2>5, <2>6 DEF SameObj
  <2>8. Look(a)' = [slots |-> SlotsOf(x)', proto |-> Id(obj'[a].proto), scope |-> obj'[a].scope]
    BY <1>3, <2>5 DEF Look
  <2> QED BY <2>2, <2>3, <2>4, <2>7, <2>8 DEF Look, SameObj, SameId
<1>7. ASSUME NEW c \in Ctx, KeptCtx(c)' PROVE AbsScope'[c] = AbsScope[c] /\ KeptCtx(c)
  <2>1. AbsScope'[c] = LookIn(c)' /\ AbsScope[c] = LookIn(c) /\ KeptCtx(c)
    BY <1>1, <1>7 DEF Seen
  <2>2. SameId(ctx'[c].slots, ctx[c].slots) /\ SameId(ctx'[c].obj, ctx[c].obj) /\ ctx'[c].prev = ctx[c].prev
    <3>1. ctx'[c].ref > 0
      BY <1>7 DEF KeptCtx
    <3> QED BY <3>1 DEF Moves
  <2>3. ctx'[c].obj = Nil <=> ctx[c].obj = Nil
    BY <1>3, <1>4, <2>2 DEF SameId
  <2>4. PICK x \in TabRef : x = (IF ctx'[c].obj = Nil THEN ctx'[c].slots ELSE Nil)
    BY <1>4 DEF TabRef
  <2>5. PICK y \in TabRef : y = (IF ctx[c].obj = Nil THEN ctx[c].slots ELSE Nil)
    BY <1>4 DEF TabRef
  <2>6. SameId(x, y)
    BY <2>2, <2>3, <2>4, <2>5, Same
  <2>7. x # Nil => \E t \in TabAddr : tab'[t].live /\ t[1] = Id(x)
    BY <1>1, <1>3, <2>4 DEF Seen
  <2>8. SlotsOf(x)' = SlotsOf(y)
    BY <1>5, <2>6, <2>7
  <2>9. LookIn(c)' = [slots |-> SlotsOf(x)', obj |-> Id(ctx'[c].obj), prev |-> ctx'[c].prev]
    BY <1>3, <2>4 DEF LookIn
  <2>10. LookIn(c) = [slots |-> SlotsOf(y), obj |-> Id(ctx[c].obj), prev |-> ctx[c].prev]
    BY <2>5 DEF LookIn
  <2> QED BY <2>1, <2>2, <2>8, <2>9, <2>10 DEF SameId
<1>8. /\ \A o \in Obj : AbsObject'[o] # Nil <=> Kept(o)'
      /\ \A c \in Ctx : AbsScope'[c] # Nil <=> KeptCtx(c)'
      /\ \A o \in Obj : AbsObject'[o] # Nil => AbsObject'[o] = AbsObject[o]
      /\ \A c \in Ctx : AbsScope'[c] # Nil => AbsScope'[c] = AbsScope[c]
  BY <1>1, <1>6, <1>7 DEF Seen
<1>9. /\ \A a \in stack' : AbsObject'[a[1]] # Nil
      /\ \A i \in DOMAIN frames : AbsScope'[frames[i]] # Nil
      /\ \A o \in Obj : AbsObject'[o] # Nil =>
           /\ \A k \in Key : AbsObject[o].slots[k] # Nil => AbsObject'[AbsObject[o].slots[k]] # Nil
           /\ AbsObject[o].proto # Nil => AbsObject'[AbsObject[o].proto] # Nil
           /\ AbsObject[o].scope # Nil => AbsScope'[AbsObject[o].scope] # Nil
      /\ \A c \in Ctx : AbsScope'[c] # Nil =>
           /\ \A k \in Key : AbsScope[c].slots[k] # Nil => AbsObject'[AbsScope[c].slots[k]] # Nil
           /\ AbsScope[c].obj # Nil => AbsObject'[AbsScope[c].obj] # Nil
           /\ AbsScope[c].prev # Nil => AbsScope'[AbsScope[c].prev] # Nil
  BY <1>1, <1>8 DEF Closed
<1>10. \A o \in {a[1] : a \in stack} : AbsObject'[o] # Nil
  <2>1. \A o \in {a[1] : a \in stack'} : AbsObject'[o] # Nil
    BY <1>9
  <2> QED BY <2>1
<1>11. /\ \A o \in Obj : AbsObject'[o] \in {AbsObject[o], Nil}
       /\ \A c \in Ctx : AbsScope'[c] \in {AbsScope[c], Nil}
  BY <1>8
<1> QED BY <1>9, <1>10, <1>11 DEF Model!Forget

(* Before the survivors are known, every cell counts.                      *)
LEMMA EarlyKept ==
  ASSUME Inv, Inv', Moves, phase # "destruct", NEW o \in Obj, Kept(o)'
  PROVE  Kept(o)
<1>1. Seen'
  BY AllSeen
<1>2. PICK a \in ObjAddr : obj'[a].live /\ a[1] = o
  BY <1>1 DEF Seen
<1>3. PICK b \in ObjAddr : obj[b].live /\ b[1] = o
  BY <1>2 DEF Moves
<1>4. b = <<o, b[2]>> /\ b[2] \in Space
  BY <1>3, Addresses
<1> QED BY <1>3, <1>4 DEF Kept, UnusedObj

(* Once they are, nothing changes that until the heaps are reset.          *)
LEMMA LateKept ==
  ASSUME phase = "destruct", phase' = phase, obj' = obj, UNCHANGED <<old, gcGen, visited>>,
         \A c \in Ctx : ctx'[c].ref > 0 => ctx[c].ref > 0 /\ ctx'[c].gen = ctx[c].gen
  PROVE  /\ \A o \in Obj : Kept(o)' => Kept(o)
         /\ \A c \in Ctx : KeptCtx(c)' => KeptCtx(c)
BY DEF Kept, KeptCtx, to, Full

(* The end of a collection drops what did not survive, and nothing else.   *)
LEMMA ResetKept ==
  ASSUME Inv, Inv', ResetHeaps
  PROVE  /\ \A o \in Obj : Kept(o)' => Kept(o)
         /\ \A c \in Ctx : KeptCtx(c)' => KeptCtx(c)
<1>1. /\ Types /\ Generations /\ phase = "destruct" /\ phase' = "run" /\ Seen' /\ ctx' = ctx /\ gcGen \in Bit
      /\ \A c \in Ctx : ctx[c].gen \in Bit /\ ctx[c].ref \in Int
  BY AllSeen, CellTypes DEF Inv, Heap, ResetHeaps, Types, WorkTypes
<1> DEFINE reset == IF Full THEN {0, old} ELSE {0}
<1>2. \A a \in ObjAddr : obj'[a] = IF a[2] \in reset THEN DeadObj ELSE obj[a]
  BY DEF ResetHeaps
<1>3. ~ DeadObj.live
  BY DEF DeadObj
<1>4. \A s : s \in {0, old, to} /\ s \notin reset => s = to
  BY <1>1, Heaps
<1>5. ASSUME NEW o \in Obj, Kept(o)' PROVE Kept(o)
  <2>1. PICK a \in ObjAddr : obj'[a].live /\ a[1] = o
    BY <1>1, <1>5 DEF Seen
  <2>2. a[2] \notin reset /\ obj[a].live
    <3> HIDE DEF reset
    <3> QED BY <1>2, <1>3, <2>1
  <2>3. a[2] \in {0, old, to}
    BY <2>2 DEF Inv, Heap, Generations, InHeap
  <2>4. a = <<o, to>>
    BY <1>4, <2>1, <2>2, <2>3, Addresses
  <2> QED BY <1>1, <2>2, <2>4 DEF Kept
<1>6. ASSUME NEW c \in Ctx, KeptCtx(c)' PROVE KeptCtx(c)
  <2>1. ctx[c].ref > 0
    BY <1>1, <1>6 DEF KeptCtx
  <2>2. Settled(c)
    <3>1. Phases /\ Logged /\ Reachable /\ Counted /\ Pooled /\ Acyclic
      BY <1>1 DEF Inv, Heap, Counts, Collection
    <3> QED BY <1>1, <2>1, <3>1, AllSettled
  <2> QED BY <1>1, <2>1, <2>2 DEF KeptCtx, Settled, Full, Bit
<1> QED BY <1>5, <1>6

(* Every step that is not one of the program forgets, or does not show.    *)
LEMMA CollectForgets ==
  ASSUME Inv, Inv', [Next]_vars, ~ (Running /\ Mutate /\ UNCHANGED <<gcVars, freeing>>),
         ~ (Running /\ Return /\ UNCHANGED gcVars)
  PROVE  Model!Forget
<1>1. Moves /\ Types
  BY CollectShares DEF Inv
<1>2. frames' = frames /\ {a[1] : a \in stack'} = {a[1] : a \in stack}
  <2>1. CASE TravState
    <3>1. stack' = {ForwardObj(a) : a \in stack} /\ frames' = frames /\ stack \subseteq ObjAddr
      BY <1>1, <2>1 DEF TravState, Types, RootTypes
    <3>2. \A a \in stack : ForwardObj(a)[1] = a[1]
      BY <3>1 DEF ForwardObj, To
    <3>3. {a[1] : a \in stack'} = {ForwardObj(a)[1] : a \in stack}
      BY <3>1
    <3> QED BY <3>1, <3>2, <3>3
  <2>2. CASE ~ TravState
    <3>1. CASE UNCHANGED vars
      BY <3>1 DEF vars, rootVars
    <3>2. CASE Running /\ AddWildSize
      BY <3>2 DEF AddWildSize, rootVars
    <3>3. CASE \E a \in todoObj : CopyObject(a)
      BY <3>3 DEF CopyObject, rootVars
    <3>4. CASE \E t \in todoTab : CopySlotTable(t)
      BY <3>4 DEF CopySlotTable, rootVars
    <3>5. CASE \E c \in todoCtx : TravContext(c)
      BY <3>5 DEF TravContext, rootVars
    <3>6. CASE CheckWriteBarrier
      BY <3>6 DEF CheckWriteBarrier, rootVars
    <3>7. CASE \E c \in wbCtx : CheckContext(c)
      BY <3>7 DEF CheckContext, rootVars
    <3>8. CASE TriggerDestructor
      BY <3>8 DEF TriggerDestructor, rootVars
    <3>9. CASE \E a \in dying : Destruct(a)
      BY <3>9 DEF Destruct, rootVars
    <3>10. CASE ResetHeaps
      BY <3>10 DEF ResetHeaps, rootVars
    <3>11. CASE ContextFree
      BY <3>11 DEF ContextFree, rootVars
    <3> QED BY <2>2, <3>1, <3>2, <3>3, <3>4, <3>5, <3>6, <3>7, <3>8, <3>9, <3>10, <3>11 DEF Next, Collect
  <2> QED BY <2>1, <2>2
<1>3. CASE ResetHeaps
  BY <1>1, <1>2, <1>3, ResetKept, ForgetStep
<1>4. CASE ~ ResetHeaps
  <2>1. ASSUME NEW c \in Ctx, ctx'[c].ref > 0 PROVE ctx[c].ref > 0 /\ (phase = "destruct" => ctx'[c].gen = ctx[c].gen)
    <3>0. ctx \in [Ctx -> CtxCellI] /\ ctx[c] \in CtxCellI /\ ctx[c].ref \in Int /\ ctx' \in [Ctx -> CtxCellI]
      BY <1>1, CellTypes DEF Inv, Types, HeapTypes
    <3>1. CASE UNCHANGED vars
      BY <2>1, <3>1 DEF vars, heapVars
    <3>2. CASE Running /\ AddWildSize
      BY <2>1, <3>2 DEF AddWildSize, heapVars
    <3>3. CASE \E a \in todoObj : CopyObject(a)
      BY <2>1, <3>3 DEF CopyObject
    <3>4. CASE \E t \in todoTab : CopySlotTable(t)
      BY <2>1, <3>4 DEF CopySlotTable
    <3>5. ASSUME NEW x \in todoCtx, TravContext(x) PROVE ctx[c].ref > 0 /\ (phase = "destruct" => ctx'[c].gen = ctx[c].gen)
      <4>1. phase # "destruct"
        BY DEF Inv, Heap, Phases
      <4>2. ctx'[c].ref = ctx[c].ref
        BY <3>0, <3>5 DEF TravContext, CtxCellI
      <4> QED BY <2>1, <4>1, <4>2
    <3>6. CASE CheckWriteBarrier
      BY <2>1, <3>6 DEF CheckWriteBarrier
    <3>7. CASE \E x \in wbCtx : CheckContext(x)
      BY <2>1, <3>7 DEF CheckContext, heapVars
    <3>8. CASE TriggerDestructor
      BY <2>1, <3>8 DEF TriggerDestructor, heapVars
    <3>9. CASE \E a \in dying : Destruct(a)
      BY <2>1, <3>9 DEF Destruct, heapVars
    <3>10. CASE TravState
      BY <2>1, <3>10 DEF TravState, heapVars
    <3>11. CASE ContextFree
      <4>1. CASE ctx[freeing].ref = 1
        <5>1. ctx' = [ctx EXCEPT ![freeing] = DeadCtx] /\ DeadCtx.ref = 0
          BY <3>11, <4>1 DEF ContextFree, DeadCtx
        <5>2. c # freeing
          BY <2>1, <3>0, <5>1
        <5> QED BY <2>1, <3>0, <5>1, <5>2
      <4>2. CASE ctx[freeing].ref # 1
        <5>1. ctx' = [ctx EXCEPT ![freeing].ref = @ - 1]
          BY <3>11, <4>2 DEF ContextFree
        <5>2. ctx'[c].gen = ctx[c].gen /\ ctx'[c].ref \in {ctx[c].ref, ctx[c].ref - 1}
          BY <3>0, <5>1 DEF CtxCellI
        <5> QED BY <2>1, <3>0, <5>2
      <4> QED BY <4>1, <4>2
    <3> QED BY <1>4, <3>1, <3>2, <3>3, <3>4, <3>5, <3>6, <3>7, <3>8, <3>9, <3>10, <3>11 DEF Next, Collect
  <2>2. CASE phase # "destruct"
    <3>1. \A o \in Obj : Kept(o)' => Kept(o)
      BY <1>1, <2>2, EarlyKept
    <3>2. \A c \in Ctx : KeptCtx(c)' => KeptCtx(c)
      BY <2>1, <2>2 DEF KeptCtx
    <3> QED BY <1>1, <1>2, <3>1, <3>2, ForgetStep
  <2>3. CASE phase = "destruct"
    <3>1. todoObj = {} /\ todoTab = {} /\ todoCtx = {} /\ wbCtx = {}
      BY <2>3 DEF Inv, Heap, Phases
    <3>2. phase' = phase /\ obj' = obj /\ UNCHANGED <<old, gcGen, visited>>
      <4>1. CASE UNCHANGED vars
        BY <4>1 DEF vars, heapVars, gcVars, workVars
      <4>2. CASE \E a \in dying : Destruct(a)
        BY <4>2 DEF Destruct, heapVars, workVars
      <4>3. CASE ContextFree
        BY <4>3 DEF ContextFree, gcVars, workVars
      <4> QED BY <1>4, <2>3, <3>1, <4>1, <4>2, <4>3
              DEF Next, Collect, Running, TravState, CheckWriteBarrier, TriggerDestructor
    <3>3. \A c \in Ctx : ctx'[c].ref > 0 => ctx[c].ref > 0 /\ ctx'[c].gen = ctx[c].gen
      BY <2>1, <2>3
    <3>4. /\ \A o \in Obj : Kept(o)' => Kept(o)
          /\ \A c \in Ctx : KeptCtx(c)' => KeptCtx(c)
      BY <2>3, <3>2, <3>3, LateKept
    <3> QED BY <1>1, <1>2, <3>4, ForgetStep
  <2> QED BY <2>2, <2>3
<1> QED BY <1>3, <1>4

(* A call returns: only the frame goes.                                    *)
LEMMA ReturnSeen ==
  ASSUME Inv, Running, Return, UNCHANGED gcVars
  PROVE  Model!Return
<1>1. UNCHANGED <<obj, tab, ctx, old, gcGen, phase, visited, stack>>
  BY DEF Return, heapVars, gcVars, workVars
<1>2. AbsObject' = AbsObject /\ AbsScope' = AbsScope
  BY <1>1 DEF AbsObject, AbsScope, Kept, KeptCtx, SlotsOf, ObjAt, TabAt, UnusedObj, to, Full, Id
<1> QED BY <1>1, <1>2 DEF Return, Model!Return

(***************************************************************************)
(* The instructions, on what is seen.                                      *)
(***************************************************************************)

(* A step between two states of the running program.                       *)
Between == Inv /\ Inv' /\ phase = "run" /\ phase' = "run" /\ Ready /\ Tables

(* What is seen before such a step and after it.                           *)
LEMMA RunSeen ==
  ASSUME Between
  PROVE  /\ Types /\ Types' /\ Seen /\ Seen'
         /\ \A x : Id(x)' = Id(x)
         /\ \A a \in ObjAddr : obj[a].live => AbsObject[a[1]] = Look(a) /\ Look(a) # Nil
         /\ \A a \in ObjAddr : obj'[a].live => AbsObject'[a[1]] = Look(a)'
         /\ \A o \in Obj : UnusedObj(o) => AbsObject[o] = Nil
         /\ \A o \in Obj : UnusedObj(o)' => AbsObject'[o] = Nil
         /\ \A c \in Ctx : AbsScope[c] = IF ctx[c].ref > 0 THEN LookIn(c) ELSE Nil
         /\ \A c \in Ctx : AbsScope'[c] = IF ctx'[c].ref > 0 THEN LookIn(c)' ELSE Nil
         /\ AbsObject = [o \in Obj |-> AbsObject[o]] /\ AbsObject' = [o \in Obj |-> AbsObject'[o]]
         /\ AbsScope = [c \in Ctx |-> AbsScope[c]] /\ AbsScope' = [c \in Ctx |-> AbsScope'[c]]
<1>1. Seen /\ Seen' /\ Types /\ Types' /\ phase # "destruct" /\ phase' # "destruct"
  BY AllSeen DEF Between, Inv
<1>2. /\ \A o \in Obj : Kept(o) <=> ~ UnusedObj(o)
      /\ \A o \in Obj : Kept(o)' <=> ~ UnusedObj(o)'
      /\ \A c \in Ctx : KeptCtx(c) <=> ctx[c].ref > 0
      /\ \A c \in Ctx : KeptCtx(c)' <=> ctx'[c].ref > 0
  BY <1>1 DEF Kept, KeptCtx
<1>3. /\ \A a \in ObjAddr : obj[a].live => ~ UnusedObj(a[1]) /\ a[1] \in Obj
      /\ \A a \in ObjAddr : obj'[a].live => ~ UnusedObj(a[1])' /\ a[1] \in Obj
  BY Addresses DEF UnusedObj
<1>4. \A x : Id(x)' = Id(x)
  BY DEF Id
<1>5. /\ AbsObject = [o \in Obj |-> AbsObject[o]] /\ AbsObject' = [o \in Obj |-> AbsObject'[o]]
      /\ AbsScope = [c \in Ctx |-> AbsScope[c]] /\ AbsScope' = [c \in Ctx |-> AbsScope'[c]]
  BY DEF AbsObject, AbsScope
<1>6. /\ \A a \in ObjAddr : obj[a].live => AbsObject[a[1]] = Look(a)
      /\ \A a \in ObjAddr : obj'[a].live => AbsObject'[a[1]] = Look(a)'
      /\ \A o \in Obj : UnusedObj(o) => AbsObject[o] = Nil
      /\ \A o \in Obj : UnusedObj(o)' => AbsObject'[o] = Nil
  BY <1>1, <1>2, <1>3 DEF Seen
<1>7. /\ \A c \in Ctx : AbsScope[c] = IF ctx[c].ref > 0 THEN LookIn(c) ELSE Nil
      /\ \A c \in Ctx : AbsScope'[c] = IF ctx'[c].ref > 0 THEN LookIn(c)' ELSE Nil
  BY <1>1, <1>2 DEF Seen
<1>8. \A a \in ObjAddr : obj[a].live => Look(a) # Nil
  BY ThereIs DEF Between
<1> QED BY <1>1, <1>4, <1>5, <1>6, <1>7, <1>8

(* What the program sees of a table in such a step.                        *)
LEMMA RunSlots ==
  ASSUME Between
  PROVE  /\ SlotsOf(Nil) = [k \in Key |-> Nil] /\ SlotsOf(Nil)' = [k \in Key |-> Nil]
         /\ \A t \in TabAddr : tab[t].live => SlotsOf(t) = [k \in Key |-> Id(tab[t].val[k])]
         /\ \A t \in TabAddr : tab'[t].live => SlotsOf(t)' = [k \in Key |-> Id(tab'[t].val[k])]
         /\ \A a \in ObjAddr : obj[a].live => obj[a].slots = Nil \/ (obj[a].slots \in TabAddr /\ tab[obj[a].slots].live)
         /\ \A a \in ObjAddr : obj'[a].live => obj'[a].slots = Nil \/ (obj'[a].slots \in TabAddr /\ tab'[obj'[a].slots].live)
         /\ \A c \in Ctx : ctx[c].slots = Nil \/ (ctx[c].slots \in TabAddr /\ tab[ctx[c].slots].live)
         /\ \A c \in Ctx : ctx'[c].slots = Nil \/ (ctx'[c].slots \in TabAddr /\ tab'[ctx'[c].slots].live)
<1>1. Seen /\ Seen' /\ Types /\ Types' /\ \A x : Id(x)' = Id(x)
  BY RunSeen
<1>2. \A t \in TabAddr : t \in TabRef /\ t # Nil /\ Id(t) = t[1]
  BY Addresses DEF TabRef, Id
<1>3. RunRefs /\ RunRefs'
  BY DEF Between, Inv, Program
<1>4. /\ \A a \in ObjAddr : obj[a].slots \in TabRef /\ obj'[a].slots \in TabRef
      /\ \A c \in Ctx : ctx[c].slots \in TabRef /\ ctx'[c].slots \in TabRef
  BY <1>1 DEF Types, HeapTypes, ObjCell, CtxCellI
<1>5. /\ SlotsOf(Nil) = [k \in Key |-> Nil] /\ SlotsOf(Nil)' = [k \in Key |-> Nil]
  BY <1>1 DEF Seen
<1>6. \A t \in TabAddr : tab[t].live => SlotsOf(t) = [k \in Key |-> Id(tab[t].val[k])]
  BY <1>1, <1>2 DEF Seen
<1>7. \A t \in TabAddr : tab'[t].live => SlotsOf(t)' = [k \in Key |-> Id(tab'[t].val[k])]
  BY <1>1, <1>2 DEF Seen
<1> QED BY <1>3, <1>4, <1>5, <1>6, <1>7 DEF RunRefs, TabOk, TabRef

(* An object, or a context, that is not written looks as before.           *)
LEMMA LookSame ==
  ASSUME Between, NEW b \in ObjAddr, obj[b].live, obj'[b].live, obj'[b].slots = obj[b].slots,
         obj'[b].proto = obj[b].proto, obj'[b].scope = obj[b].scope,
         obj[b].slots # Nil => tab'[obj[b].slots].val = tab[obj[b].slots].val
  PROVE  Look(b)' = Look(b)
<1>1. PICK x \in TabRef : x = obj[b].slots
  BY RunSlots DEF TabRef
<1>2. SlotsOf(x)' = SlotsOf(x)
  <2>1. CASE x = Nil
    BY <2>1, RunSlots
  <2>2. CASE x # Nil
    <3>1. x \in TabAddr /\ tab[x].live /\ tab'[x].live /\ tab'[x].val = tab[x].val
      BY <1>1, <2>2, RunSlots
    <3> QED BY <3>1, RunSlots
  <2> QED BY <2>1, <2>2
<1>3. Look(b)' = [slots |-> SlotsOf(x)', proto |-> Id(obj'[b].proto), scope |-> obj'[b].scope]
  BY <1>1, RunSeen DEF Look
<1> QED BY <1>1, <1>2, <1>3 DEF Look

(* The same of a context.                                                  *)
LEMMA LookInSame ==
  ASSUME Between, NEW c \in Ctx, ctx'[c].slots = ctx[c].slots, ctx'[c].obj = ctx[c].obj, ctx'[c].prev = ctx[c].prev,
         ctx[c].obj = Nil /\ ctx[c].slots # Nil => tab'[ctx[c].slots].val = tab[ctx[c].slots].val
  PROVE  LookIn(c)' = LookIn(c)
<1>1. PICK x \in TabRef : x = IF ctx[c].obj = Nil THEN ctx[c].slots ELSE Nil
  BY RunSlots DEF TabRef
<1>2. SlotsOf(x)' = SlotsOf(x)
  <2>1. CASE x = Nil
    BY <2>1, RunSlots
  <2>2. CASE x # Nil
    <3>1. x \in TabAddr /\ tab[x].live /\ tab'[x].live /\ tab'[x].val = tab[x].val
      BY <1>1, <2>2, RunSlots
    <3> QED BY <3>1, RunSlots
  <2> QED BY <2>1, <2>2
<1>3. LookIn(c)' = [slots |-> SlotsOf(x)', obj |-> Id(ctx'[c].obj), prev |-> ctx'[c].prev]
  BY <1>1, RunSeen DEF LookIn
<1> QED BY <1>1, <1>2, <1>3 DEF LookIn

(* What stays as it is: an object, and a context.                          *)
ObjSame(b) == obj'[b].live = obj[b].live /\ (obj[b].live => Look(b)' = Look(b))
CtxSame(c) == (ctx'[c].ref > 0 <=> ctx[c].ref > 0) /\ (ctx[c].ref > 0 => LookIn(c)' = LookIn(c))

(* The objects and the contexts that the program sees after an instruction *)
(* that wrote at most one of each.                                         *)
LEMMA ObjectsSeen ==
  ASSUME Between
  PROVE  /\ (\A b \in ObjAddr : ObjSame(b)) => AbsObject' = AbsObject
         /\ (\A c \in Ctx : CtxSame(c)) => AbsScope' = AbsScope
         /\ \A x \in ObjAddr : obj'[x].live /\ (\A b \in ObjAddr \ {x} : ObjSame(b)) =>
              AbsObject' = [AbsObject EXCEPT ![x[1]] = Look(x)']
         /\ \A x \in Ctx : ctx'[x].ref > 0 /\ (\A c \in Ctx \ {x} : CtxSame(c)) =>
              AbsScope' = [AbsScope EXCEPT ![x] = LookIn(x)']
<1>1. ASSUME NEW o \in Obj, \A a \in ObjAddr : a[1] = o => ObjSame(a) PROVE AbsObject'[o] = AbsObject[o]
  <2>1. \A s \in Space : <<o, s>> \in ObjAddr /\ <<o, s>>[1] = o
    BY Addresses
  <2>2. CASE UnusedObj(o)
    <3>1. UnusedObj(o)'
      BY <1>1, <2>1, <2>2 DEF ObjSame, UnusedObj
    <3> QED BY <2>2, <3>1, RunSeen
  <2>3. CASE ~ UnusedObj(o)
    <3>1. PICK a \in ObjAddr : a[1] = o /\ obj[a].live
      BY <2>1, <2>3 DEF UnusedObj
    <3> QED BY <1>1, <3>1, RunSeen DEF ObjSame
  <2> QED BY <2>2, <2>3
<1>2. ASSUME \A b \in ObjAddr : ObjSame(b) PROVE AbsObject' = AbsObject
  <2>1. \A o \in Obj : AbsObject'[o] = AbsObject[o]
    BY <1>1, <1>2
  <2> QED BY <2>1, RunSeen
<1>3. ASSUME NEW c \in Ctx, CtxSame(c) PROVE AbsScope'[c] = AbsScope[c]
  BY <1>3, RunSeen DEF CtxSame
<1>4. ASSUME \A c \in Ctx : CtxSame(c) PROVE AbsScope' = AbsScope
  <2>1. \A c \in Ctx : AbsScope'[c] = AbsScope[c]
    BY <1>3, <1>4
  <2> QED BY <2>1, RunSeen
<1>5. ASSUME NEW x \in ObjAddr, obj'[x].live, \A b \in ObjAddr \ {x} : ObjSame(b)
      PROVE  AbsObject' = [AbsObject EXCEPT ![x[1]] = Look(x)']
  <2>1. x[1] \in Obj /\ AbsObject'[x[1]] = Look(x)'
    BY <1>5, RunSeen, Addresses
  <2>2. \A o \in Obj \ {x[1]} : AbsObject'[o] = AbsObject[o]
    BY <1>1, <1>5
  <2> QED BY <2>1, <2>2, RunSeen
<1>6. ASSUME NEW x \in Ctx, ctx'[x].ref > 0, \A c \in Ctx \ {x} : CtxSame(c)
      PROVE  AbsScope' = [AbsScope EXCEPT ![x] = LookIn(x)']
  <2>1. AbsScope'[x] = LookIn(x)'
    BY <1>6, RunSeen
  <2>2. \A c \in Ctx \ {x} : AbsScope'[c] = AbsScope[c]
    BY <1>3, <1>6
  <2> QED BY <2>1, <2>2, RunSeen
<1> QED BY <1>2, <1>4, <1>5, <1>6

(* What writing a table and an object leaves of its cell, and of others.   *)
LEMMA TakeLook ==
  ASSUME Types, NEW a \in ObjAddr, NEW t \in TabAddr, NEW b, obj' = [obj EXCEPT ![a].slots = t, ![a].wb = @ \/ b]
  PROVE  /\ obj'[a].live = obj[a].live /\ obj'[a].slots = t /\ obj'[a].proto = obj[a].proto /\ obj'[a].scope = obj[a].scope
         /\ \A x \in ObjAddr \ {a} : obj'[x] = obj[x]
<1>1. obj[a] \in ObjCell
  BY CellTypes
<1>2. PICK w \in BOOLEAN : w = (obj[a].wb \/ b)
  OBVIOUS
<1> DEFINE c == [obj[a] EXCEPT !.slots = t, !.wb = w]
<1>3. obj' = [obj EXCEPT ![a] = c]
  BY <1>2 DEF Types, HeapTypes
<1>4. c.live = obj[a].live /\ c.slots = t /\ c.proto = obj[a].proto /\ c.scope = obj[a].scope
  BY <1>1 DEF ObjCell
<1> HIDE DEF c
<1> QED BY <1>3, <1>4 DEF Types, HeapTypes

(* The values that are stored, and those that were there.                  *)
LEMMA StoreLook ==
  ASSUME Types, NEW own, own.at \in TabAddr, own.cell \in TabCell, NEW K, NEW vals, StoreSlots(own, K, vals)
  PROVE  /\ \A k \in Key : tab'[own.at].val[k] = IF k \in K THEN vals[k] ELSE own.cell.val[k]
         /\ \A u \in TabAddr \ {own.at} : tab'[u] = tab[u]
<1> DEFINE v == [k \in Key |-> IF k \in K THEN vals[k] ELSE own.cell.val[k]]
           barrier == \E k \in DOMAIN vals : WBSlot(own.cell, vals[k])
<1>1. tab' = [tab EXCEPT ![own.at] = [own.cell EXCEPT !.val = v, !.wb = (own.cell.wb \/ barrier)]]
  BY DEF StoreSlots
<1>2. \A k \in Key : v[k] = IF k \in K THEN vals[k] ELSE own.cell.val[k]
  OBVIOUS
<1> HIDE DEF v, barrier
<1>3. tab'[own.at] = [own.cell EXCEPT !.val = v, !.wb = (own.cell.wb \/ barrier)]
  BY <1>1 DEF Types, HeapTypes
<1>4. \A u \in TabAddr \ {own.at} : tab'[u] = tab[u]
  BY <1>1 DEF Types, HeapTypes
<1> QED BY <1>2, <1>3, <1>4 DEF TabCell

(* The table an object may write has the values of the object.             *)
LEMMA OwnedLook ==
  ASSUME Between, NEW a \in ObjAddr, obj[a].live, NEW n \in Tab
  PROVE  \A k \in Key : Id(Owned(obj[a], n).cell.val[k]) = Look(a).slots[k]
<1>1. Look(a).slots = SlotsOf(obj[a].slots)
  BY DEF Look
<1>2. CASE obj[a].slots = Nil
  <2>1. Owned(obj[a], n).cell.val = [k \in Key |-> Nil]
    BY <1>2 DEF Owned, NewTabAt, DeadTab
  <2>2. Id(Nil) = Nil
    BY DEF Id
  <2> QED BY <1>1, <1>2, <2>1, <2>2, RunSlots
<1>3. CASE obj[a].slots # Nil
  <2>1. obj[a].slots \in TabAddr /\ tab[obj[a].slots].live /\ tab[obj[a].slots] \in TabCell
    BY <1>3, RunSlots, RunSeen, CellTypes
  <2>2. CopyState(tab[obj[a].slots]).val = tab[obj[a].slots].val
    BY <2>1 DEF CopyState, TabCell
  <2>3. Owned(obj[a], n).cell.val = tab[obj[a].slots].val
    BY <1>3, <2>2 DEF Owned
  <2> QED BY <1>1, <2>1, <2>3, RunSlots
<1> QED BY <1>2, <1>3

(* A table that only one object has is written: no other object and no     *)
(* context is seen to change.                                              *)
LEMMA WriteSeen ==
  ASSUME Between, NEW x \in ObjAddr, obj[x].live, NEW t \in TabAddr,
         ~ tab[t].live \/ (obj[x].slots = t /\ ~ tab[t].shared),
         \A u \in TabAddr \ {t} : tab'[u] = tab[u],
         obj'[x].live, obj'[x].slots = t, obj'[x].proto = obj[x].proto, obj'[x].scope = obj[x].scope,
         \A b \in ObjAddr \ {x} : obj'[b] = obj[b]
  PROVE  /\ AbsObject' = [AbsObject EXCEPT ![x[1]] =
                            [slots |-> [k \in Key |-> Id(tab'[t].val[k])], proto |-> Id(obj[x].proto), scope |-> obj[x].scope]]
         /\ \A c \in Ctx : ctx'[c].slots = ctx[c].slots /\ ctx'[c].obj = ctx[c].obj /\ ctx'[c].prev = ctx[c].prev
                             /\ (ctx'[c].ref > 0 <=> ctx[c].ref > 0) => CtxSame(c)
<1>1. Ready /\ Tables
  BY DEF Between
<1>2. \A b \in ObjAddr \ {x} : obj[b].live => obj[b].slots # t
  <2>1. CASE ~ tab[t].live
    BY <1>1, <2>1, LiveTables
  <2>2. CASE obj[x].slots = t /\ ~ tab[t].shared
    BY <1>1, <2>2, Addresses DEF Tables, OneTable
  <2> QED BY <2>1, <2>2
<1>3. \A c \in Ctx : ctx[c].obj = Nil => ctx[c].slots # t
  <2>1. CASE ~ tab[t].live
    BY <1>1, <2>1, LiveTables
  <2>2. CASE obj[x].slots = t
    BY <1>1, <2>2, Addresses DEF Tables, OwnTables
  <2> QED BY <2>1, <2>2
<1>4. ASSUME NEW b \in ObjAddr \ {x} PROVE ObjSame(b)
  <2>1. CASE ~ obj[b].live
    BY <2>1 DEF ObjSame
  <2>2. CASE obj[b].live
    <3>1. obj[b].slots # Nil => tab'[obj[b].slots].val = tab[obj[b].slots].val
      BY <1>2, <2>2, RunSlots
    <3>2. Look(b)' = Look(b)
      BY <2>2, <3>1, LookSame
    <3> QED BY <2>2, <3>2 DEF ObjSame
  <2> QED BY <2>1, <2>2
<1>5. AbsObject' = [AbsObject EXCEPT ![x[1]] = Look(x)']
  BY <1>4, ObjectsSeen
<1>6. Look(x)' = [slots |-> [k \in Key |-> Id(tab'[t].val[k])], proto |-> Id(obj[x].proto), scope |-> obj[x].scope]
  <2>1. SlotsOf(t)' = [k \in Key |-> Id(tab'[t].val[k])]
    <3>1. tab'[t].live
      BY RunSlots, Addresses
    <3> QED BY <3>1, RunSlots
  <2>2. Look(x)' = [slots |-> SlotsOf(t)', proto |-> Id(obj'[x].proto), scope |-> obj'[x].scope]
    BY RunSeen DEF Look
  <2> QED BY <2>1, <2>2
<1>7. ASSUME NEW c \in Ctx, ctx'[c].slots = ctx[c].slots, ctx'[c].obj = ctx[c].obj, ctx'[c].prev = ctx[c].prev,
             ctx'[c].ref > 0 <=> ctx[c].ref > 0
      PROVE  CtxSame(c)
  <2>1. ctx[c].obj = Nil /\ ctx[c].slots # Nil => tab'[ctx[c].slots].val = tab[ctx[c].slots].val
    BY <1>3, RunSlots
  <2>2. LookIn(c)' = LookIn(c)
    BY <1>7, <2>1, LookInSame
  <2> QED BY <1>7, <2>2 DEF CtxSame
<1> QED BY <1>5, <1>6, <1>7

(* What the program holds, by identity.                                    *)
LEMMA StackSeen ==
  ASSUME Between
  PROVE  /\ \A a \in stack : a \in ObjAddr /\ obj[a].live /\ a[1] \in {x[1] : x \in stack} /\ Id(a) = a[1] /\ a # Nil
         /\ \A v \in stack \cup {Nil} : Id(v) \in {x[1] : x \in stack} \cup {Nil} /\ v \in ObjRef
         /\ \A a : stack' = stack \cup {a} => {x[1] : x \in stack'} = {x[1] : x \in stack} \cup {a[1]}
         /\ \A a \in stack : stack' = stack \ {a} => {x[1] : x \in stack'} = {x[1] : x \in stack} \ {a[1]}
         /\ Local \in Ctx /\ ctx[Local].ref > 0
<1>1. /\ stack \subseteq ObjAddr /\ Types /\ Unique /\ RunRefs /\ phase = "run" /\ frames \in Seq(Ctx) /\ Len(frames) \in 1..MaxFrames
      /\ \A a \in stack : obj[a].live
  BY DEF Between, Ready, Types, RootTypes, RunRefs
<1>2. \A a \in stack : a \in ObjAddr /\ obj[a].live /\ a[1] \in {x[1] : x \in stack} /\ Id(a) = a[1] /\ a # Nil
  BY <1>1, Addresses DEF Id
<1>3. \A v \in stack \cup {Nil} : Id(v) \in {x[1] : x \in stack} \cup {Nil} /\ v \in ObjRef
  BY <1>2 DEF Id, ObjRef
<1>4. \A a, b \in stack : a[1] = b[1] => a = b
  BY <1>1, <1>2, RunIds
<1>5. ASSUME NEW a, stack' = stack \cup {a} PROVE {x[1] : x \in stack'} = {x[1] : x \in stack} \cup {a[1]}
  BY <1>5
<1>6. ASSUME NEW a \in stack, stack' = stack \ {a} PROVE {x[1] : x \in stack'} = {x[1] : x \in stack} \ {a[1]}
  BY <1>4, <1>6
<1>7. Local \in Ctx /\ ctx[Local].ref > 0
  <2>1. Len(frames) \in DOMAIN frames
    BY <1>1
  <2> QED BY <2>1, HeldInUse DEF Local, Between
<1> QED BY <1>2, <1>3, <1>5, <1>6, <1>7

(* An object with other slots.                                             *)
LEMMA SlotsWritten ==
  ASSUME Between, NEW x \in ObjAddr, obj[x].live, NEW S,
         AbsObject' = [AbsObject EXCEPT ![x[1]] = [slots |-> S, proto |-> Id(obj[x].proto), scope |-> obj[x].scope]]
  PROVE  /\ AbsObject' = [AbsObject EXCEPT ![x[1]].slots = S]
         /\ \E f : f = [j \in Key |-> f[j]] /\ AbsObject[x[1]].slots = f /\ Look(x).slots = f
<1>1. AbsObject[x[1]] = [slots |-> SlotsOf(obj[x].slots), proto |-> Id(obj[x].proto), scope |-> obj[x].scope]
  BY RunSeen DEF Look
<1>2. [slots |-> S, proto |-> Id(obj[x].proto), scope |-> obj[x].scope] = [AbsObject[x[1]] EXCEPT !.slots = S]
  BY <1>1
<1>3. PICK f : f = SlotsOf(obj[x].slots)
  OBVIOUS
<1>4. f = [j \in Key |-> f[j]]
  BY <1>3 DEF SlotsOf
<1>5. AbsObject[x[1]].slots = f /\ Look(x).slots = f
  BY <1>1, <1>3 DEF Look
<1> QED BY <1>2, <1>4, <1>5

(* An instruction that leaves the contexts leaves what is seen of them.    *)
LEMMA ContextsSeen ==
  ASSUME Between, ctx' = ctx, \A c \in Ctx : ctx'[c].slots = ctx[c].slots /\ ctx'[c].obj = ctx[c].obj /\ ctx'[c].prev = ctx[c].prev
                             /\ (ctx'[c].ref > 0 <=> ctx[c].ref > 0) => CtxSame(c)
  PROVE  AbsScope' = AbsScope
BY ObjectsSeen

(* ivm_object_setSlot.                                                     *)
LEMMA SetSlotSeen ==
  ASSUME Between, NEW a \in stack, NEW k \in Key, NEW v \in stack \cup {Nil}, NEW n \in Tab, SetSlot(a, k, v, n)
  PROVE  Model!SetSlot(a[1], k, Id(v))
<1> DEFINE own == Owned(obj[a], n)
           vals == [x \in {k} |-> v]
<1>1. Types /\ Ready /\ a \in ObjAddr /\ obj[a].live
  BY StackSeen DEF Between, Ready
<1>2. /\ own.at \in TabAddr /\ own.cell \in TabCell /\ ~ own.cell.shared
      /\ \/ ~ tab[own.at].live /\ NeedsTable(obj[a])
         \/ obj[a].slots = own.at /\ own.cell = tab[own.at]
  BY <1>1, OwnedShares DEF SetSlot
<1>3. \A j \in Key : Id(own.cell.val[j]) = Look(a).slots[j]
  BY <1>1, OwnedLook
<1>4. TakeTable(a, own) /\ StoreSlots(own, {k}, vals) /\ ctx' = ctx /\ stack' = stack /\ frames' = frames
  BY DEF SetSlot, StoreSlot, rootVars
<1>5. vals[k] = v
  OBVIOUS
<1> HIDE DEF own, vals
<1>6. PICK b : b = CopiedBarrier(obj[a], own)
  OBVIOUS
<1>7. obj' = [obj EXCEPT ![a].slots = own.at, ![a].wb = @ \/ b]
  BY <1>4, <1>6 DEF TakeTable
<1>8. /\ obj'[a].live /\ obj'[a].slots = own.at /\ obj'[a].proto = obj[a].proto /\ obj'[a].scope = obj[a].scope
      /\ \A x \in ObjAddr \ {a} : obj'[x] = obj[x]
  BY <1>1, <1>2, <1>7, TakeLook
<1>9. /\ \A j \in Key : tab'[own.at].val[j] = IF j = k THEN v ELSE own.cell.val[j]
      /\ \A u \in TabAddr \ {own.at} : tab'[u] = tab[u]
  BY <1>1, <1>2, <1>4, <1>5, StoreLook
<1>10. /\ AbsObject' = [AbsObject EXCEPT ![a[1]] =
                         [slots |-> [j \in Key |-> Id(tab'[own.at].val[j])], proto |-> Id(obj[a].proto), scope |-> obj[a].scope]]
       /\ \A c \in Ctx : ctx'[c].slots = ctx[c].slots /\ ctx'[c].obj = ctx[c].obj /\ ctx'[c].prev = ctx[c].prev
                             /\ (ctx'[c].ref > 0 <=> ctx[c].ref > 0) => CtxSame(c)
  BY <1>1, <1>2, <1>8, <1>9, WriteSeen
<1>11. AbsScope' = AbsScope
  BY <1>4, <1>10, ContextsSeen
<1>12. PICK S : S = [j \in Key |-> Id(tab'[own.at].val[j])]
  OBVIOUS
<1>13. S = [j \in Key |-> S[j]] /\ \A j \in Key : S[j] = IF j = k THEN Id(v) ELSE Look(a).slots[j]
  BY <1>3, <1>9, <1>12
<1>14. AbsObject' = [AbsObject EXCEPT ![a[1]].slots[k] = Id(v)]
  <2>1. AbsObject' = [AbsObject EXCEPT ![a[1]] = [slots |-> S, proto |-> Id(obj[a].proto), scope |-> obj[a].scope]]
    BY <1>10, <1>12
  <2>2. AbsObject' = [AbsObject EXCEPT ![a[1]].slots = S]
    BY <1>1, <2>1, SlotsWritten
  <2>3. PICK f : f = [j \in Key |-> f[j]] /\ AbsObject[a[1]].slots = f /\ Look(a).slots = f
    BY <1>1, <2>1, SlotsWritten
  <2>4. S = [f EXCEPT ![k] = Id(v)]
    BY <1>13, <2>3
  <2> QED BY <2>2, <2>3, <2>4
<1> QED BY <1>4, <1>11, <1>14 DEF Model!SetSlot

(* ivm_object_merge.                                                       *)
LEMMA MergeSeen ==
  ASSUME Between, NEW a \in stack, NEW b \in stack, NEW K \in SUBSET Key, NEW n \in Tab, Merge(a, b, K, n)
  PROVE  \E J \in SUBSET Key : Model!Merge(a[1], b[1], J)
<1> DEFINE from == tab[obj[b].slots]
           own  == IF obj[a].slots = Nil THEN [at |-> <<n, 0>>, cell |-> CopyState(from)] ELSE Owned(obj[a], n)
           barrier == NeedsTable(obj[a]) /\ WBObjSlot(obj[a], own.cell)
           J == IF obj[a].slots = Nil THEN Key ELSE K
<1>1. /\ Types /\ Ready /\ a \in ObjAddr /\ obj[a].live /\ b \in ObjAddr /\ obj[b].live /\ 0 \in Space
      /\ tab \in [TabAddr -> TabCell] /\ J \in SUBSET Key
  BY StackSeen, Heaps DEF Between, Ready, Types, HeapTypes
<1>2. /\ obj[b].slots \in TabAddr /\ from \in TabCell /\ (NeedsTable(obj[a]) => UnusedTab(n))
      /\ AbsObject[b[1]].slots = [j \in Key |-> Id(from.val[j])]
  <2>1. obj[b].slots \in TabAddr /\ tab[obj[b].slots].live /\ (NeedsTable(obj[a]) => UnusedTab(n))
    BY <1>1, RunSlots DEF Merge
  <2>2. AbsObject[b[1]].slots = SlotsOf(obj[b].slots)
    <3>1. AbsObject[b[1]] = Look(b)
      BY <1>1, RunSeen
    <3> QED BY <3>1 DEF Look
  <2> QED BY <1>1, <2>1, <2>2, RunSlots
<1>3. /\ own.at \in TabAddr /\ own.cell \in TabCell /\ ~ own.cell.shared
      /\ \/ ~ tab[own.at].live /\ NeedsTable(obj[a])
         \/ obj[a].slots = own.at /\ own.cell = tab[own.at]
  <2>1. CASE obj[a].slots = Nil
    <3>1. own.at = <<n, 0>> /\ own.cell = CopyState(from) /\ NeedsTable(obj[a])
      BY <2>1 DEF NeedsTable
    <3>2. own.at \in TabAddr /\ UnusedTab(n)
      BY <1>1, <1>2, <2>1, <3>1, Addresses DEF NeedsTable
    <3>3. own.cell \in TabCell
      BY <1>2, <3>1 DEF CopyState, TabCell, Bit
    <3>4. ~ own.cell.shared
      BY <1>2, <3>1 DEF CopyState, TabCell
    <3>5. ~ tab[own.at].live
      BY <1>1, <3>1, <3>2 DEF UnusedTab
    <3> QED BY <3>1, <3>2, <3>3, <3>4, <3>5
  <2>2. CASE obj[a].slots # Nil
    <3>1. own = Owned(obj[a], n)
      BY <2>2
    <3> HIDE DEF own
    <3> QED BY <1>1, <1>2, <3>1, OwnedShares
  <2> QED BY <2>1, <2>2
<1>4. /\ obj[a].slots # Nil => \A j \in Key : Id(own.cell.val[j]) = Look(a).slots[j]
      /\ obj[a].slots = Nil => own.cell.val = from.val
  <2>1. ASSUME obj[a].slots # Nil PROVE own = Owned(obj[a], n)
    BY <2>1
  <2>2. obj[a].slots = Nil => own.cell = CopyState(from)
    OBVIOUS
  <2>3. CopyState(from).val = from.val
    BY <1>2 DEF CopyState, TabCell
  <2> HIDE DEF own
  <2> QED BY <1>1, <2>1, <2>2, <2>3, OwnedLook
<1>5. /\ obj' = [obj EXCEPT ![a].slots = own.at, ![a].wb = @ \/ barrier]
      /\ IF obj[a].slots = Nil THEN tab' = [tab EXCEPT ![own.at] = own.cell]
         ELSE StoreSlots(own, K, from.val)
      /\ ctx' = ctx /\ stack' = stack /\ frames' = frames
  BY DEF Merge, rootVars
<1> HIDE DEF own, barrier
<1>6. PICK w : w = barrier
  OBVIOUS
<1>7. obj' = [obj EXCEPT ![a].slots = own.at, ![a].wb = @ \/ w]
  BY <1>5, <1>6
<1>8. /\ obj'[a].live /\ obj'[a].slots = own.at /\ obj'[a].proto = obj[a].proto /\ obj'[a].scope = obj[a].scope
      /\ \A x \in ObjAddr \ {a} : obj'[x] = obj[x]
  BY <1>1, <1>3, <1>7, TakeLook
<1>9. /\ \A j \in Key : Id(tab'[own.at].val[j]) = IF j \in J THEN Id(from.val[j]) ELSE Look(a).slots[j]
      /\ \A u \in TabAddr \ {own.at} : tab'[u] = tab[u]
  <2>1. CASE obj[a].slots = Nil
    <3>1. tab'[own.at] = own.cell /\ \A u \in TabAddr \ {own.at} : tab'[u] = tab[u]
      BY <1>1, <1>3, <1>5, <2>1
    <3> QED BY <1>4, <2>1, <3>1
  <2>2. CASE obj[a].slots # Nil
    <3>1. PICK vals : vals = from.val
      OBVIOUS
    <3>2. StoreSlots(own, K, vals)
      BY <1>5, <2>2, <3>1
    <3>3. /\ \A j \in Key : tab'[own.at].val[j] = IF j \in K THEN vals[j] ELSE own.cell.val[j]
          /\ \A u \in TabAddr \ {own.at} : tab'[u] = tab[u]
      BY <1>1, <1>3, <3>2, StoreLook
    <3> QED BY <1>4, <2>2, <3>1, <3>3
  <2> QED BY <2>1, <2>2
<1>10. /\ AbsObject' = [AbsObject EXCEPT ![a[1]] =
                         [slots |-> [j \in Key |-> Id(tab'[own.at].val[j])], proto |-> Id(obj[a].proto), scope |-> obj[a].scope]]
       /\ \A c \in Ctx : ctx'[c].slots = ctx[c].slots /\ ctx'[c].obj = ctx[c].obj /\ ctx'[c].prev = ctx[c].prev
                             /\ (ctx'[c].ref > 0 <=> ctx[c].ref > 0) => CtxSame(c)
  BY <1>1, <1>3, <1>8, <1>9, WriteSeen
<1>11. AbsScope' = AbsScope
  BY <1>5, <1>10, ContextsSeen
<1>12. PICK S : S = [j \in Key |-> Id(tab'[own.at].val[j])]
  OBVIOUS
<1>13. AbsObject' = [AbsObject EXCEPT ![a[1]].slots = S]
  BY <1>1, <1>10, <1>12, SlotsWritten
<1>14. AbsObject[a[1]] = Look(a) /\ a[1] \in Obj
  BY <1>1, RunSeen, Addresses
<1>15. S = [j \in Key |-> IF j \in J THEN AbsObject[b[1]].slots[j] ELSE AbsObject[a[1]].slots[j]]
  <2> HIDE DEF J, from
  <2> QED BY <1>2, <1>9, <1>12, <1>14
<1> HIDE DEF J
<1>16. Model!Merge(a[1], b[1], J)
  BY <1>5, <1>11, <1>13, <1>15 DEF Model!Merge
<1> QED BY <1>1, <1>16

(* Nothing is written that the program sees.                               *)
CtxLooks(c) ==
  /\ ctx'[c].slots = ctx[c].slots /\ ctx'[c].obj = ctx[c].obj /\ ctx'[c].prev = ctx[c].prev
  /\ ctx'[c].ref > 0 <=> ctx[c].ref > 0
TabLooks == \A t \in TabAddr : tab[t].live => tab'[t].val = tab[t].val
LEMMA QuietSeen ==
  ASSUME Between, TabLooks
  PROVE  /\ \A b \in ObjAddr : obj'[b] = obj[b] => ObjSame(b)
         /\ \A c \in Ctx : CtxLooks(c) => CtxSame(c)
         /\ obj' = obj => AbsObject' = AbsObject
         /\ (\A c \in Ctx : CtxLooks(c)) => AbsScope' = AbsScope
<1>1. ASSUME NEW b \in ObjAddr, obj'[b] = obj[b] PROVE ObjSame(b)
  <2>1. CASE ~ obj[b].live
    BY <1>1, <2>1 DEF ObjSame
  <2>2. CASE obj[b].live
    <3>1. obj[b].slots # Nil => tab'[obj[b].slots].val = tab[obj[b].slots].val
      BY <2>2, RunSlots DEF TabLooks
    <3>2. Look(b)' = Look(b)
      BY <1>1, <2>2, <3>1, LookSame
    <3> QED BY <1>1, <2>2, <3>2 DEF ObjSame
  <2> QED BY <2>1, <2>2
<1>2. ASSUME NEW c \in Ctx, CtxLooks(c) PROVE CtxSame(c)
  <2>1. ctx[c].obj = Nil /\ ctx[c].slots # Nil => tab'[ctx[c].slots].val = tab[ctx[c].slots].val
    BY RunSlots DEF TabLooks
  <2>2. LookIn(c)' = LookIn(c)
    BY <1>2, <2>1, LookInSame DEF CtxLooks
  <2> QED BY <1>2, <2>2 DEF CtxSame, CtxLooks
<1>3. ASSUME obj' = obj PROVE AbsObject' = AbsObject
  <2>1. \A b \in ObjAddr : ObjSame(b)
    BY <1>1, <1>3
  <2> QED BY <2>1, ObjectsSeen
<1>4. ASSUME \A c \in Ctx : CtxLooks(c) PROVE AbsScope' = AbsScope
  <2>1. \A c \in Ctx : CtxSame(c)
    BY <1>2, <1>4
  <2> QED BY <2>1, ObjectsSeen
<1> QED BY <1>1, <1>2, <1>3, <1>4

(* A function or a frame takes a reference on a context in use.            *)
LEMMA RefLook ==
  ASSUME Types, NEW s \in CtxRef, RefScope(s), s # Nil => ctx[s].ref > 0
  PROVE  \A c \in Ctx : CtxLooks(c)
<1>1. CASE s = Nil
  BY <1>1 DEF RefScope, CtxLooks
<1>2. CASE s # Nil
  <2>1. ctx' = [ctx EXCEPT ![s] = [ctx[s] EXCEPT !.ref = @ + 1]] /\ ctx \in [Ctx -> CtxCellI] /\ s \in Ctx
    BY <1>2 DEF RefScope, Types, HeapTypes, CtxRef
  <2>2. \A c \in Ctx \ {s} : CtxLooks(c)
    BY <2>1 DEF CtxLooks
  <2>3. ctx[s].ref \in Int /\ ctx[s].ref > 0 /\ ctx[s] \in CtxCellI
    BY <1>2, <2>1, CellTypes
  <2>4. CtxLooks(s)
    BY <2>1, <2>3 DEF CtxLooks, CtxCellI
  <2> QED BY <2>2, <2>4
<1> QED BY <1>1, <1>2

(* A new object.                                                           *)
LEMMA MadeSeen ==
  ASSUME Between, NEW x \in ObjAddr, UnusedObj(x[1]), obj'[x].live, \A b \in ObjAddr \ {x} : obj'[b] = obj[b], TabLooks
  PROVE  AbsObject[x[1]] = Nil /\ AbsObject' = [AbsObject EXCEPT ![x[1]] = Look(x)']
<1>1. \A b \in ObjAddr \ {x} : ObjSame(b)
  BY QuietSeen
<1>2. x[1] \in Obj
  BY Addresses
<1> QED BY <1>1, <1>2, ObjectsSeen, RunSeen

(* What a cell looks like after the step.                                  *)
LEMMA CellLook ==
  ASSUME Between, NEW x \in ObjAddr, NEW s
  PROVE  obj'[x].slots = s => Look(x)' = [slots |-> SlotsOf(s)', proto |-> Id(obj'[x].proto), scope |-> obj'[x].scope]
BY RunSeen DEF Look

(* newAt and the allocation of an object.                                  *)
LEMMA NewObjectSeen ==
  ASSUME Between, NEW o \in Obj, NewObject(o)
  PROVE  Model!New(o)
<1> DEFINE c == [DeadObj EXCEPT !.live = TRUE]
<1>0. 0 \in Space /\ <<o, 0>>[1] = o
  BY DEF Space
<1>1. PICK x \in ObjAddr : x = <<o, 0>> /\ x[1] = o
  BY <1>0, Addresses
<1>2. /\ obj' = [obj EXCEPT ![x] = c] /\ tab' = tab /\ ctx' = ctx /\ frames' = frames
      /\ UnusedObj(x[1]) /\ stack' = stack \cup {x} /\ obj \in [ObjAddr -> ObjCell]
  BY <1>1, RunSeen DEF NewObject, PushValue, Types, HeapTypes
<1>3. c.live /\ c.slots = Nil /\ c.proto = Nil /\ c.scope = Nil
  BY DEF DeadObj
<1> HIDE DEF c
<1>4. obj'[x] = c /\ \A b \in ObjAddr \ {x} : obj'[b] = obj[b]
  BY <1>2
<1>5. TabLooks /\ \A d \in Ctx : CtxLooks(d)
  BY <1>2 DEF TabLooks, CtxLooks
<1>6. AbsObject[o] = Nil /\ AbsObject' = [AbsObject EXCEPT ![o] = Look(x)'] /\ AbsScope' = AbsScope
  BY <1>1, <1>2, <1>3, <1>4, <1>5, MadeSeen, QuietSeen
<1>7. Look(x)' = [slots |-> [k \in Key |-> Nil], proto |-> Nil, scope |-> Nil]
  <2>1. PICK s : s = Nil
    OBVIOUS
  <2>2. Look(x)' = [slots |-> SlotsOf(s)', proto |-> Id(obj'[x].proto), scope |-> obj'[x].scope]
    BY <1>3, <1>4, <2>1, CellLook
  <2>3. SlotsOf(s)' = [k \in Key |-> Nil]
    BY <2>1, RunSlots
  <2> QED BY <1>3, <1>4, <2>2, <2>3 DEF Id
<1>8. {a[1] : a \in stack'} = {a[1] : a \in stack} \cup {o}
  BY <1>1, <1>2, StackSeen
<1> QED BY <1>2, <1>6, <1>7, <1>8 DEF Model!New, Model!Make, Model!NewObj, Model!NoSlots

(* A function literal.                                                     *)
LEMMA NewFunctionSeen ==
  ASSUME Between, NEW o \in Obj, NewFunction(o)
  PROVE  Model!NewFunction(o)
<1> DEFINE c == [DeadObj EXCEPT !.live = TRUE, !.scope = Local]
<1>0. 0 \in Space /\ <<o, 0>>[1] = o
  BY DEF Space
<1>1. PICK x \in ObjAddr : x = <<o, 0>> /\ x[1] = o
  BY <1>0, Addresses
<1>2. /\ obj' = [obj EXCEPT ![x] = c] /\ tab' = tab /\ RefScope(Local) /\ frames' = frames
      /\ UnusedObj(x[1]) /\ stack' = stack \cup {x} /\ obj \in [ObjAddr -> ObjCell]
  BY <1>1, RunSeen DEF NewFunction, PushValue, Types, HeapTypes
<1>3. c.live /\ c.slots = Nil /\ c.proto = Nil /\ c.scope = Local
  BY DEF DeadObj
<1> HIDE DEF c
<1>4. obj'[x] = c /\ \A b \in ObjAddr \ {x} : obj'[b] = obj[b]
  BY <1>2
<1>5. TabLooks /\ \A d \in Ctx : CtxLooks(d)
  <2>1. PICK s \in CtxRef : s = Local /\ ctx[s].ref > 0
    BY StackSeen DEF CtxRef
  <2>2. Types /\ RefScope(s)
    BY <1>2, <2>1, RunSeen
  <2>3. \A d \in Ctx : CtxLooks(d)
    BY <2>1, <2>2, RefLook
  <2> QED BY <1>2, <2>3 DEF TabLooks
<1>6. AbsObject[o] = Nil /\ AbsObject' = [AbsObject EXCEPT ![o] = Look(x)'] /\ AbsScope' = AbsScope
  BY <1>1, <1>2, <1>3, <1>4, <1>5, MadeSeen, QuietSeen
<1>7. Look(x)' = [slots |-> [k \in Key |-> Nil], proto |-> Nil, scope |-> Local]
  <2>1. PICK s : s = Nil
    OBVIOUS
  <2>2. Look(x)' = [slots |-> SlotsOf(s)', proto |-> Id(obj'[x].proto), scope |-> obj'[x].scope]
    BY <1>3, <1>4, <2>1, CellLook
  <2>3. SlotsOf(s)' = [k \in Key |-> Nil]
    BY <2>1, RunSlots
  <2> QED BY <1>3, <1>4, <2>2, <2>3 DEF Id
<1>8. {a[1] : a \in stack'} = {a[1] : a \in stack} \cup {o}
  BY <1>1, <1>2, StackSeen
<1>9. [Model!NewObj EXCEPT !.scope = Model!Local] = [slots |-> [k \in Key |-> Nil], proto |-> Nil, scope |-> Local]
  BY DEF Model!NewObj, Model!NoSlots, Model!Local, Local
<1> QED BY <1>2, <1>6, <1>7, <1>8, <1>9 DEF Model!NewFunction, Model!Make

(* ivm_object_clone: the clone looks like the original.                    *)
LEMMA CloneSeen ==
  ASSUME Between, NEW a \in stack, NEW o \in Obj, NEW n \in Tab, Clone(a, o, n)
  PROVE  Model!Clone(a[1], o)
<1> DEFINE t == obj[a].slots
           nocow == t # Nil /\ tab[t].nocow
           s == IF nocow THEN <<n, 0>> ELSE t
           c == [obj[a] EXCEPT !.gen = 0, !.wb = FALSE, !.slots = s]
<1>0. 0 \in Space /\ <<o, 0>>[1] = o
  BY DEF Space
<1>1. PICK x \in ObjAddr : x = <<o, 0>> /\ x[1] = o
  BY <1>0, Addresses
<1>2. /\ a \in ObjAddr /\ obj[a].live /\ Types /\ obj[a] \in ObjCell /\ obj[a].scope \in CtxRef
      /\ obj \in [ObjAddr -> ObjCell] /\ tab \in [TabAddr -> TabCell] /\ <<n, 0>> \in TabAddr /\ 0 \in Space
      /\ t = Nil \/ (t \in TabAddr /\ tab[t].live /\ tab[t] \in TabCell)
  BY StackSeen, RunSeen, RunSlots, CellTypes, Addresses, Heaps DEF Types, HeapTypes
<1>3. /\ obj' = [obj EXCEPT ![x] = c] /\ UnusedObj(x[1]) /\ (nocow => UnusedTab(n)) /\ RefScope(obj[a].scope)
      /\ tab' = IF t = Nil THEN tab
                ELSE IF nocow THEN [tab EXCEPT ![<<n, 0>>] = CopyState(tab[t])]
                ELSE [tab EXCEPT ![t].shared = TRUE]
      /\ stack' = stack \cup {x} /\ frames' = frames
  BY <1>1 DEF Clone, PushValue
<1>4. c.live /\ c.slots = s /\ c.proto = obj[a].proto /\ c.scope = obj[a].scope
  BY <1>2 DEF ObjCell
<1> HIDE DEF c
<1>5. obj'[x] = c /\ \A b \in ObjAddr \ {x} : obj'[b] = obj[b]
  BY <1>2, <1>3
<1>6. \A d \in Ctx : CtxLooks(d)
  <2>1. obj[a].scope # Nil => ctx[obj[a].scope].ref > 0
    BY <1>2, HeldInUse DEF Between
  <2> QED BY <1>2, <1>3, <2>1, RefLook
<1>7. /\ TabLooks
      /\ s = Nil <=> t = Nil
      /\ t # Nil => s \in TabAddr /\ tab'[s].val = tab[t].val
  <2>1. CASE t = Nil
    BY <1>3, <2>1 DEF TabLooks
  <2>2. CASE t # Nil /\ nocow
    <3>1. ~ tab[<<n, 0>>].live /\ s = <<n, 0>> /\ s # Nil
      BY <1>2, <1>3, <2>2, Addresses DEF UnusedTab
    <3>2. tab'[s] = CopyState(tab[t]) /\ \A u \in TabAddr \ {s} : tab'[u] = tab[u]
      BY <1>2, <1>3, <2>2, <3>1
    <3>3. CopyState(tab[t]).val = tab[t].val
      BY <1>2, <2>2 DEF CopyState, TabCell
    <3> QED BY <1>2, <2>2, <3>1, <3>2, <3>3 DEF TabLooks
  <2>3. CASE t # Nil /\ ~ nocow
    <3>1. s = t /\ tab' = [tab EXCEPT ![t] = [tab[t] EXCEPT !.shared = TRUE]]
      BY <1>2, <1>3, <2>3
    <3>2. \A u \in TabAddr : tab'[u].val = tab[u].val
      BY <1>2, <2>3, <3>1 DEF TabCell
    <3> QED BY <1>2, <2>3, <3>1, <3>2 DEF TabLooks
  <2> QED BY <2>1, <2>2, <2>3
<1>8. AbsObject[o] = Nil /\ AbsObject' = [AbsObject EXCEPT ![o] = Look(x)'] /\ AbsScope' = AbsScope
  BY <1>1, <1>3, <1>4, <1>5, <1>6, <1>7, MadeSeen, QuietSeen
<1>9. Look(x)' = Look(a)
  <2>1. PICK u : u = s
    OBVIOUS
  <2>2. PICK r : r = t
    OBVIOUS
  <2>3. Look(x)' = [slots |-> SlotsOf(u)', proto |-> Id(obj'[x].proto), scope |-> obj'[x].scope]
    BY <1>4, <1>5, <2>1, CellLook
  <2>4. Look(a) = [slots |-> SlotsOf(r), proto |-> Id(obj[a].proto), scope |-> obj[a].scope]
    BY <2>2 DEF Look
  <2>5. obj'[x].live /\ obj'[x].slots = u /\ obj'[x].proto = obj[a].proto /\ obj'[x].scope = obj[a].scope
    BY <1>4, <1>5, <2>1
  <2>6. /\ u = Nil <=> r = Nil
        /\ r # Nil => u \in TabAddr /\ tab'[u].val = tab[r].val /\ r \in TabAddr /\ tab[r].live
    BY <1>2, <1>7, <2>1, <2>2
  <2> HIDE DEF s, t, nocow
  <2>7. SlotsOf(u)' = SlotsOf(r)
    <3>1. CASE r = Nil
      BY <2>6, <3>1, RunSlots
    <3>2. CASE r # Nil
      <4>1. tab'[u].live /\ u \in TabAddr
        BY <2>5, <2>6, <3>2, RunSlots
      <4>2. SlotsOf(u)' = [k \in Key |-> Id(tab'[u].val[k])]
        BY <4>1, RunSlots
      <4>3. SlotsOf(r) = [k \in Key |-> Id(tab[r].val[k])]
        BY <2>6, <3>2, RunSlots
      <4> QED BY <2>6, <3>2, <4>2, <4>3
    <3> QED BY <3>1, <3>2
  <2> QED BY <2>3, <2>4, <2>5, <2>7
<1>10. {b[1] : b \in stack'} = {b[1] : b \in stack} \cup {o}
  BY <1>1, <1>3, StackSeen
<1>11. AbsObject[a[1]] = Look(a)
  BY <1>2, RunSeen
<1> QED BY <1>3, <1>8, <1>9, <1>10, <1>11 DEF Model!Clone, Model!Make

(* The instructions that only move values.                                 *)
LEMMA SameSeen ==
  ASSUME Between, UNCHANGED heapVars
  PROVE  AbsObject' = AbsObject /\ AbsScope' = AbsScope
<1>1. TabLooks /\ \A c \in Ctx : CtxLooks(c)
  BY DEF heapVars, TabLooks, CtxLooks
<1> QED BY <1>1, QuietSeen DEF heapVars

(* A value is popped.                                                      *)
LEMMA PopSeen ==
  ASSUME Between, NEW v \in stack, Pop(v)
  PROVE  Model!Drop(v[1])
<1>1. AbsObject' = AbsObject /\ AbsScope' = AbsScope
  BY SameSeen DEF Pop
<1>2. {x[1] : x \in stack'} = {x[1] : x \in stack} \ {v[1]} /\ frames' = frames
  BY StackSeen DEF Pop
<1> QED BY <1>1, <1>2 DEF Model!Drop

(* A value that was found is pushed.                                       *)
LEMMA HoldSeen ==
  ASSUME Between, NEW v \in ObjAddr, UNCHANGED heapVars, PushValue(v), frames' = frames
  PROVE  Model!Hold(v[1])
<1>1. AbsObject' = AbsObject /\ AbsScope' = AbsScope
  BY SameSeen
<1>2. {x[1] : x \in stack'} = {x[1] : x \in stack} \cup {v[1]}
  BY StackSeen DEF PushValue
<1>3. v[1] # Nil
  BY Addresses, CollectorAssumption
<1> QED BY <1>1, <1>2, <1>3 DEF Model!Hold

(* ivm_object_getSlot.                                                     *)
LEMMA GetSlotSeen ==
  ASSUME Between, NEW a \in stack, NEW k \in Key, GetSlot(a, k)
  PROVE  Model!Hold(AbsObject[a[1]].slots[k])
<1>1. a \in ObjAddr /\ obj[a].live
  BY StackSeen
<1>2. PICK t : t = obj[a].slots
  OBVIOUS
<1>3. t \in TabAddr /\ tab[t].live /\ tab[t].val[k] \in ObjRef
  <2>1. t \in TabAddr /\ tab[t].live
    BY <1>1, <1>2, RunSlots DEF GetSlot
  <2>2. tab[t].val \in [Key -> ObjRef]
    BY <2>1, RunSeen, CellTypes
  <2> QED BY <2>1, <2>2
<1>4. PICK v : v = tab[t].val[k]
  OBVIOUS
<1>5. v \in ObjAddr /\ PushValue(v) /\ UNCHANGED heapVars /\ frames' = frames /\ v # Nil
  BY <1>2, <1>3, <1>4 DEF GetSlot, ObjRef
<1>6. AbsObject[a[1]].slots[k] = v[1]
  <2>1. AbsObject[a[1]] = Look(a)
    BY <1>1, RunSeen
  <2>2. SlotsOf(t) = [j \in Key |-> Id(tab[t].val[j])]
    BY <1>3, RunSlots
  <2>3. AbsObject[a[1]].slots = SlotsOf(t)
    BY <1>2, <2>1 DEF Look
  <2>4. Id(v) = v[1]
    BY <1>5 DEF Id
  <2> QED BY <1>4, <2>2, <2>3, <2>4
<1>7. Model!Hold(v[1])
  BY <1>5, HoldSeen
<1> QED BY <1>6, <1>7 DEF Model!Hold

(* SET_PROTO.                                                              *)
LEMMA SetProtoSeen ==
  ASSUME Between, NEW a \in stack, NEW p \in stack, SetProto(a, p)
  PROVE  Model!SetProto(a[1], p[1])
<1>1. /\ a \in ObjAddr /\ obj[a].live /\ Id(p) = p[1] /\ Types /\ obj[a] \in ObjCell /\ p \in ObjRef
      /\ obj \in [ObjAddr -> ObjCell]
  BY StackSeen, RunSeen, CellTypes DEF Types, HeapTypes
<1>2. PICK w \in BOOLEAN : w = (obj[a].wb \/ WBObj(obj[a], obj[p]))
  OBVIOUS
<1> DEFINE c == [obj[a] EXCEPT !.proto = p, !.wb = w]
<1>3. obj' = [obj EXCEPT ![a] = c] /\ tab' = tab /\ ctx' = ctx /\ stack' = stack /\ frames' = frames
  BY <1>1, <1>2 DEF SetProto, rootVars
<1>4. c.live /\ c.slots = obj[a].slots /\ c.proto = p /\ c.scope = obj[a].scope
  BY <1>1 DEF ObjCell
<1> HIDE DEF c
<1>5. obj'[a] = c /\ \A b \in ObjAddr \ {a} : obj'[b] = obj[b]
  BY <1>1, <1>3
<1>6. TabLooks /\ \A d \in Ctx : CtxLooks(d)
  BY <1>3 DEF TabLooks, CtxLooks
<1>7. AbsObject' = [AbsObject EXCEPT ![a[1]] = Look(a)'] /\ AbsScope' = AbsScope
  <2>1. \A b \in ObjAddr \ {a} : ObjSame(b)
    BY <1>5, <1>6, QuietSeen
  <2>2. AbsScope' = AbsScope
    BY <1>6, QuietSeen
  <2>3. obj'[a].live
    BY <1>4, <1>5
  <2> QED BY <1>1, <2>1, <2>2, <2>3, ObjectsSeen
<1>8. PICK t : t = obj[a].slots
  OBVIOUS
<1>9. SlotsOf(t)' = SlotsOf(t)
  <2>1. CASE t = Nil
    BY <2>1, RunSlots
  <2>2. CASE t # Nil
    <3>1. t \in TabAddr /\ tab[t].live /\ tab'[t].live /\ tab'[t].val = tab[t].val
      BY <1>1, <1>3, <1>8, <2>2, RunSlots
    <3> QED BY <3>1, RunSlots
  <2> QED BY <2>1, <2>2
<1>10. Look(a)' = [slots |-> SlotsOf(t)', proto |-> Id(obj'[a].proto), scope |-> obj'[a].scope]
  BY <1>1, <1>4, <1>5, <1>8, CellLook
<1>11. AbsObject[a[1]] = [slots |-> SlotsOf(t), proto |-> Id(obj[a].proto), scope |-> obj[a].scope]
  <2>1. AbsObject[a[1]] = Look(a)
    BY <1>1, RunSeen
  <2> QED BY <1>8, <2>1 DEF Look
<1>12. Look(a)' = [AbsObject[a[1]] EXCEPT !.proto = p[1]]
  BY <1>1, <1>4, <1>5, <1>9, <1>10, <1>11
<1> QED BY <1>3, <1>7, <1>12 DEF Model!SetProto

(* The local context, as the program sees it.                              *)
LEMMA LocalSeen ==
  ASSUME Between
  PROVE  /\ Model!Local = Local /\ Local \in Ctx /\ ctx[Local].ref > 0
         /\ AbsScope[Local] = LookIn(Local)
         /\ AbsScope[Local].obj = Id(ctx[Local].obj)
         /\ ctx[Local].obj = Nil <=> Id(ctx[Local].obj) = Nil
         /\ ctx[Local].obj # Nil =>
              /\ ctx[Local].obj \in ObjAddr /\ obj[ctx[Local].obj].live /\ Id(ctx[Local].obj) = ctx[Local].obj[1]
              /\ ctx[Local].slots \in TabAddr /\ obj[ctx[Local].obj].slots = ctx[Local].slots
              /\ ~ tab[ctx[Local].slots].shared
         /\ Model!Slots(Local) = SlotsOf(ctx[Local].slots)
<1>1. Local \in Ctx /\ ctx[Local].ref > 0 /\ Types /\ ctx[Local].obj \in ObjRef /\ RunRefs /\ ObjTables
  BY StackSeen, RunSeen, CellTypes DEF Between, Ready, Tables
<1>2. Model!Local = Local
  BY DEF Model!Local, Local
<1>3. AbsScope[Local] = LookIn(Local)
  BY <1>1, RunSeen
<1>4. AbsScope[Local].obj = Id(ctx[Local].obj)
  BY <1>3 DEF LookIn
<1>5. ctx[Local].obj # Nil =>
        /\ ctx[Local].obj \in ObjAddr /\ obj[ctx[Local].obj].live /\ Id(ctx[Local].obj) = ctx[Local].obj[1]
        /\ Id(ctx[Local].obj) # Nil
  BY <1>1, Addresses, CollectorAssumption DEF ObjRef, RunRefs, ObjOk, Id
<1>6. ctx[Local].obj = Nil => Id(ctx[Local].obj) = Nil
  BY DEF Id
<1>7. ctx[Local].obj # Nil =>
        /\ ctx[Local].slots \in TabAddr /\ obj[ctx[Local].obj].slots = ctx[Local].slots
        /\ ~ tab[ctx[Local].slots].shared
  BY <1>1, RunSlots DEF ObjTables
<1>8. Model!Slots(Local) = SlotsOf(ctx[Local].slots)
  <2>1. CASE ctx[Local].obj = Nil
    <3>1. LookIn(Local).slots = SlotsOf(ctx[Local].slots)
      BY <2>1 DEF LookIn
    <3> QED BY <1>3, <1>4, <1>6, <2>1, <3>1 DEF Model!Slots
  <2>2. CASE ctx[Local].obj # Nil
    <3>1. PICK x \in ObjAddr : x = ctx[Local].obj
      BY <1>5, <2>2
    <3>2. AbsObject[x[1]] = Look(x)
      BY <1>5, <2>2, <3>1, RunSeen
    <3>3. Look(x).slots = SlotsOf(ctx[Local].slots)
      BY <1>7, <2>2, <3>1 DEF Look
    <3>4. Model!Slots(Local) = AbsObject[x[1]].slots
      BY <1>4, <1>5, <2>2, <3>1 DEF Model!Slots
    <3> QED BY <3>2, <3>3, <3>4
  <2> QED BY <2>1, <2>2
<1> QED BY <1>1, <1>2, <1>3, <1>4, <1>5, <1>6, <1>7, <1>8

(* ivm_context_getSlot.                                                    *)
LEMMA GetLocalSlotSeen ==
  ASSUME Between, NEW k \in Key, GetLocalSlot(k)
  PROVE  Model!Hold(Model!Slots(Model!Local)[k])
<1>1. PICK t : t = ctx[Local].slots
  OBVIOUS
<1>2. t \in TabAddr /\ tab[t].live /\ tab[t].val[k] \in ObjRef
  <2>1. t \in TabAddr /\ tab[t].live
    BY <1>1, LocalSeen, RunSlots DEF GetLocalSlot
  <2>2. tab[t].val \in [Key -> ObjRef]
    BY <2>1, RunSeen, CellTypes
  <2> QED BY <2>1, <2>2
<1>3. PICK v : v = tab[t].val[k]
  OBVIOUS
<1>4. v \in ObjAddr /\ PushValue(v) /\ UNCHANGED heapVars /\ frames' = frames /\ v # Nil
  BY <1>1, <1>2, <1>3 DEF GetLocalSlot, ObjRef
<1>5. Model!Slots(Model!Local)[k] = v[1]
  <2>1. SlotsOf(t) = [j \in Key |-> Id(tab[t].val[j])]
    BY <1>2, RunSlots
  <2>2. Model!Slots(Model!Local) = SlotsOf(t)
    BY <1>1, LocalSeen
  <2>3. Id(v) = v[1]
    BY <1>4 DEF Id
  <2> QED BY <1>3, <2>1, <2>2, <2>3
<1>6. Model!Hold(v[1])
  BY <1>4, HoldSeen
<1> QED BY <1>5, <1>6 DEF Model!Hold

(* "loc" and "top", read again.                                            *)
LEMMA GetObjectAgainSeen ==
  ASSUME Between, GetObjectAgain
  PROVE  Model!Hold(AbsScope[Model!Local].obj)
<1>1. PICK v : v = ctx[Local].obj
  OBVIOUS
<1>2. v \in ObjAddr /\ PushValue(v) /\ UNCHANGED heapVars /\ frames' = frames
  BY <1>1, LocalSeen DEF GetObjectAgain
<1>3. AbsScope[Model!Local].obj = v[1]
  BY <1>1, LocalSeen DEF GetObjectAgain
<1>4. Model!Hold(v[1])
  BY <1>2, HoldSeen
<1> QED BY <1>3, <1>4 DEF Model!Hold

(* A context without an object writes a table of its own.                  *)
LEMMA WriteLocalSeen ==
  ASSUME Between, NEW c \in Ctx, ctx[c].ref > 0, ctx[c].obj = Nil, NEW t \in TabAddr, ~ tab[t].live \/ ctx[c].slots = t,
         \A u \in TabAddr \ {t} : tab'[u] = tab[u], obj' = obj,
         ctx'[c].slots = t, ctx'[c].obj = Nil, ctx'[c].prev = ctx[c].prev, ctx'[c].ref > 0,
         \A d \in Ctx \ {c} : ctx'[d] = ctx[d]
  PROVE  /\ AbsObject' = AbsObject
         /\ AbsScope' = [AbsScope EXCEPT ![c] =
                           [slots |-> [k \in Key |-> Id(tab'[t].val[k])], obj |-> Nil, prev |-> ctx[c].prev]]
<1>1. Ready /\ OwnTables
  BY DEF Between, Tables
<1>2. /\ \A b \in ObjAddr : obj[b].live => obj[b].slots # t
      /\ \A d \in Ctx \ {c} : ctx[d].slots # t
  <2>1. CASE ~ tab[t].live
    BY <1>1, <2>1, LiveTables
  <2>2. CASE ctx[c].slots = t
    BY <1>1, <2>2, Addresses DEF OwnTables
  <2> QED BY <2>1, <2>2
<1>3. ASSUME NEW b \in ObjAddr PROVE ObjSame(b)
  <2>1. CASE ~ obj[b].live
    BY <2>1 DEF ObjSame
  <2>2. CASE obj[b].live
    <3>1. obj[b].slots # Nil => tab'[obj[b].slots].val = tab[obj[b].slots].val
      BY <1>2, <2>2, RunSlots
    <3>2. Look(b)' = Look(b)
      BY <2>2, <3>1, LookSame
    <3> QED BY <2>2, <3>2 DEF ObjSame
  <2> QED BY <2>1, <2>2
<1>4. ASSUME NEW d \in Ctx \ {c} PROVE CtxSame(d)
  <2>1. ctx[d].obj = Nil /\ ctx[d].slots # Nil => tab'[ctx[d].slots].val = tab[ctx[d].slots].val
    BY <1>2, RunSlots
  <2>2. LookIn(d)' = LookIn(d)
    BY <2>1, LookInSame
  <2> QED BY <2>2 DEF CtxSame
<1>5. AbsObject' = AbsObject /\ AbsScope' = [AbsScope EXCEPT ![c] = LookIn(c)']
  BY <1>3, <1>4, ObjectsSeen
<1>6. LookIn(c)' = [slots |-> SlotsOf(t)', obj |-> Id(ctx'[c].obj), prev |-> ctx'[c].prev]
  BY RunSeen DEF LookIn
<1>7. SlotsOf(t)' = [k \in Key |-> Id(tab'[t].val[k])]
  <2>1. tab'[t].live
    BY RunSlots, Addresses
  <2> QED BY <2>1, RunSlots
<1> QED BY <1>5, <1>6, <1>7 DEF Id

(* ivm_context_setSlot.                                                    *)
LEMMA SetLocalSlotSeen ==
  ASSUME Between, NEW k \in Key, NEW v \in stack \cup {Nil}, NEW n \in Tab, SetLocalSlot(k, v, n)
  PROVE  Model!SetLocalSlot(k, Id(v))
<1> DEFINE c    == ctx[Local]
           own  == IF c.slots = Nil THEN [at |-> <<n, HeapAt(c.gen)>>, cell |-> NewTabAt(c.gen)]
                   ELSE [at |-> c.slots, cell |-> tab[c.slots]]
           vals == [x \in {k} |-> v]
<1>1. /\ Types /\ Local \in Ctx /\ c \in CtxCellI /\ c.slots \in TabRef /\ c.gen \in Bit /\ ctx \in [Ctx -> CtxCellI]
      /\ ctx[Local].ref > 0
  BY LocalSeen, RunSeen, CellTypes DEF Types, HeapTypes
<1>2. /\ c.slots = Nil => UnusedTab(n)
      /\ ctx' = [ctx EXCEPT ![Local].slots = own.at]
      /\ StoreSlots(own, {k}, vals) /\ obj' = obj /\ stack' = stack /\ frames' = frames
  BY DEF SetLocalSlot, StoreSlot, rootVars
<1>3. /\ own.at \in TabAddr /\ own.cell \in TabCell
      /\ ~ tab[own.at].live \/ ctx[Local].slots = own.at
      /\ \A j \in Key : Id(own.cell.val[j]) = SlotsOf(ctx[Local].slots)[j]
  <2>1. CASE c.slots = Nil
    <3>1. own.at = <<n, HeapAt(c.gen)>> /\ own.cell = NewTabAt(c.gen) /\ HeapAt(c.gen) \in Space
      BY <1>1, <2>1, Heaps
    <3>2. own.at \in TabAddr /\ ~ tab[own.at].live /\ own.cell \in TabCell
      BY <1>1, <1>2, <2>1, <3>1, Addresses, Cells DEF UnusedTab
    <3>3. own.cell.val = [j \in Key |-> Nil]
      BY <3>1 DEF NewTabAt, DeadTab
    <3>4. Id(Nil) = Nil
      BY DEF Id
    <3> QED BY <2>1, <3>2, <3>3, <3>4, RunSlots
  <2>2. CASE c.slots # Nil
    <3>1. own.at = c.slots /\ own.cell = tab[c.slots]
      BY <2>2
    <3>2. c.slots \in TabAddr /\ tab[c.slots].live /\ tab[c.slots] \in TabCell
      BY <1>1, <2>2, RunSlots, CellTypes
    <3> QED BY <3>1, <3>2, RunSlots
  <2> QED BY <2>1, <2>2
<1>4. vals[k] = v
  OBVIOUS
<1> HIDE DEF own, vals
<1>5. /\ \A j \in Key : tab'[own.at].val[j] = IF j = k THEN v ELSE own.cell.val[j]
      /\ \A u \in TabAddr \ {own.at} : tab'[u] = tab[u]
  BY <1>1, <1>2, <1>3, <1>4, StoreLook
<1>6. PICK S : S = [j \in Key |-> Id(tab'[own.at].val[j])]
  OBVIOUS
<1>7. S = [j \in Key |-> S[j]] /\ \A j \in Key : S[j] = IF j = k THEN Id(v) ELSE SlotsOf(ctx[Local].slots)[j]
  BY <1>3, <1>5, <1>6
<1>8. PICK f : f = SlotsOf(ctx[Local].slots) /\ f = [j \in Key |-> f[j]]
  BY DEF SlotsOf
<1>9. S = [f EXCEPT ![k] = Id(v)]
  BY <1>7, <1>8
<1>10. CASE ctx[Local].obj = Nil
  <2>1. /\ ctx'[Local].slots = own.at /\ ctx'[Local].obj = Nil /\ ctx'[Local].prev = ctx[Local].prev
        /\ ctx'[Local].ref > 0 /\ \A d \in Ctx \ {Local} : ctx'[d] = ctx[d]
    <3>1. ctx' = [ctx EXCEPT ![Local] = [c EXCEPT !.slots = own.at]]
      BY <1>2
    <3> QED BY <1>1, <1>10, <3>1 DEF CtxCellI
  <2>2. PICK l \in Ctx : l = Local
    BY <1>1
  <2>3. AbsObject' = AbsObject /\ AbsScope' = [AbsScope EXCEPT ![l] = [slots |-> S, obj |-> Nil, prev |-> ctx[l].prev]]
    BY <1>1, <1>2, <1>3, <1>5, <1>6, <1>10, <2>1, <2>2, WriteLocalSeen
  <2>4. AbsScope[l] = [slots |-> f, obj |-> Nil, prev |-> ctx[l].prev]
    <3>1. LookIn(l) = [slots |-> f, obj |-> Id(ctx[l].obj), prev |-> ctx[l].prev]
      BY <1>8, <1>10, <2>2 DEF LookIn
    <3> QED BY <1>10, <2>2, <3>1, LocalSeen DEF Id
  <2>5. AbsScope' = [AbsScope EXCEPT ![l].slots[k] = Id(v)]
    <3>1. [AbsScope[l] EXCEPT !.slots = S] = [slots |-> S, obj |-> Nil, prev |-> ctx[l].prev] /\ AbsScope[l].slots = f
      BY <2>4
    <3>2. AbsScope' = [AbsScope EXCEPT ![l].slots = S]
      BY <2>3, <3>1
    <3> QED BY <1>9, <3>1, <3>2
  <2>6. Model!Local = l /\ AbsScope[l].obj = Nil
    BY <2>2, <2>4, LocalSeen
  <2> QED BY <1>2, <2>3, <2>5, <2>6 DEF Model!SetLocalSlot
<1>11. CASE ctx[Local].obj # Nil
  <2>1. PICK x \in ObjAddr : x = ctx[Local].obj
    BY <1>11, LocalSeen
  <2>2. /\ obj[x].live /\ ctx[Local].slots \in TabAddr /\ obj[x].slots = ctx[Local].slots /\ ~ tab[ctx[Local].slots].shared
        /\ AbsScope[Model!Local].obj = x[1] /\ x[1] # Nil
    BY <1>11, <2>1, LocalSeen, Addresses, CollectorAssumption
  <2>3. own.at = ctx[Local].slots
    BY <2>2, Addresses DEF own
  <2>4. ctx' = ctx
    <3>1. ctx' = [ctx EXCEPT ![Local] = [c EXCEPT !.slots = own.at]]
      BY <1>2
    <3>2. [c EXCEPT !.slots = own.at] = c
      BY <1>1, <2>3 DEF CtxCellI
    <3> QED BY <1>1, <3>1, <3>2
  <2>5. /\ AbsObject' = [AbsObject EXCEPT ![x[1]] =
                           [slots |-> [j \in Key |-> Id(tab'[own.at].val[j])], proto |-> Id(obj[x].proto), scope |-> obj[x].scope]]
        /\ \A d \in Ctx : ctx'[d].slots = ctx[d].slots /\ ctx'[d].obj = ctx[d].obj /\ ctx'[d].prev = ctx[d].prev
                              /\ (ctx'[d].ref > 0 <=> ctx[d].ref > 0) => CtxSame(d)
    BY <1>2, <1>3, <1>5, <2>2, <2>3, WriteSeen
  <2>6. AbsScope' = AbsScope
    BY <2>4, <2>5, ContextsSeen
  <2>7. AbsObject' = [AbsObject EXCEPT ![x[1]] = [slots |-> S, proto |-> Id(obj[x].proto), scope |-> obj[x].scope]]
    BY <1>6, <2>5
  <2>8. AbsObject[x[1]] = [slots |-> f, proto |-> Id(obj[x].proto), scope |-> obj[x].scope]
    <3>1. AbsObject[x[1]] = Look(x)
      BY <2>2, RunSeen
    <3> QED BY <1>8, <2>2, <3>1 DEF Look
  <2>9. AbsObject' = [AbsObject EXCEPT ![x[1]].slots[k] = Id(v)]
    <3>1. /\ [AbsObject[x[1]] EXCEPT !.slots = S] = [slots |-> S, proto |-> Id(obj[x].proto), scope |-> obj[x].scope]
          /\ AbsObject[x[1]].slots = f
      BY <2>8
    <3>2. AbsObject' = [AbsObject EXCEPT ![x[1]].slots = S]
      BY <2>7, <3>1
    <3> QED BY <1>9, <3>1, <3>2
  <2> QED BY <1>2, <2>2, <2>6, <2>9 DEF Model!SetLocalSlot, Model!SetSlot
<1> QED BY <1>10, <1>11

(* The cell of a context that is tied to an object.                        *)
LEMMA TieLook ==
  ASSUME Between, NEW l \in Ctx, ctx[l].ref > 0, NEW t \in TabAddr, NEW x \in ObjAddr, NEW b, b \in BOOLEAN,
         ctx' = [ctx EXCEPT ![l] = Barred([ctx[l] EXCEPT !.slots = t, !.obj = x], b)]
  PROVE  /\ ctx'[l].ref > 0 /\ \A d \in Ctx \ {l} : ctx'[d] = ctx[d]
         /\ LookIn(l)' = [slots |-> [k \in Key |-> Nil], obj |-> x[1], prev |-> ctx[l].prev]
<1> DEFINE cell == [ctx[l] EXCEPT !.slots = t, !.obj = x]
<1>1. ctx[l] \in CtxCellI /\ ctx[l].ref \in Int /\ ctx[l].wb \in BOOLEAN /\ ctx \in [Ctx -> CtxCellI]
  BY RunSeen, CellTypes DEF Types, HeapTypes
<1>2. /\ cell \in CtxCellI /\ cell.slots = t /\ cell.obj = x /\ cell.prev = ctx[l].prev /\ cell.ref = ctx[l].ref
      /\ cell.ref \in Int
  BY <1>1 DEF CtxCellI, TabRef, ObjRef
<1> HIDE DEF cell
<1>3. /\ Barred(cell, b).slots = t /\ Barred(cell, b).obj = x /\ Barred(cell, b).prev = ctx[l].prev
      /\ Barred(cell, b).ref > 0
  BY <1>2 DEF Barred, CtxCellI
<1>4. ctx'[l] = Barred(cell, b) /\ \A d \in Ctx \ {l} : ctx'[d] = ctx[d]
  BY <1>1 DEF cell
<1>5. LookIn(l)' = [slots |-> [k \in Key |-> Nil], obj |-> x[1], prev |-> ctx[l].prev]
  <2>1. ctx'[l].obj = x /\ x # Nil /\ ctx'[l].prev = ctx[l].prev /\ Id(x) = x[1]
    BY <1>3, <1>4, Addresses DEF Id
  <2>2. PICK s : s = Nil
    OBVIOUS
  <2>3. LookIn(l)' = [slots |-> SlotsOf(s)', obj |-> Id(x), prev |-> ctx[l].prev]
    BY <2>1, <2>2, RunSeen DEF LookIn
  <2>4. SlotsOf(s)' = [k \in Key |-> Nil]
    BY <2>2, RunSlots
  <2> QED BY <2>1, <2>3, <2>4
<1> QED BY <1>3, <1>4, <1>5

(* A context that is tied to an object has no slots of its own.            *)
LEMMA TiedSeen ==
  ASSUME Between, NEW l \in Ctx, ctx[l].ref > 0, NEW i, NEW r, r = [slots |-> [k \in Key |-> Nil], obj |-> i, prev |-> ctx[l].prev],
         AbsScope' = [AbsScope EXCEPT ![l] = r]
  PROVE  AbsScope' = [AbsScope EXCEPT ![l].obj = i, ![l].slots = Model!NoSlots]
<1>1. PICK N : N = [k \in Key |-> Nil]
  OBVIOUS
<1>2. PICK F, j : AbsScope[l] = [slots |-> F, obj |-> j, prev |-> ctx[l].prev]
  <2>1. AbsScope[l] = LookIn(l)
    BY RunSeen
  <2> QED BY <2>1 DEF LookIn
<1>3. PICK A : A = [AbsScope EXCEPT ![l].obj = i]
  OBVIOUS
<1>4. AbsScope = [d \in Ctx |-> AbsScope[d]]
  BY RunSeen
<1>5. A[l] = [slots |-> F, obj |-> i, prev |-> ctx[l].prev] /\ A = [AbsScope EXCEPT ![l] = A[l]]
  BY <1>2, <1>3, <1>4
<1>6. [A[l] EXCEPT !.slots = N] = r
  BY <1>1, <1>5
<1>7. [A EXCEPT ![l].slots = N] = [A EXCEPT ![l] = r]
  BY <1>6
<1>8. [A EXCEPT ![l] = r] = [AbsScope EXCEPT ![l] = r]
  BY <1>4, <1>5
<1> QED BY <1>1, <1>3, <1>7, <1>8 DEF Model!NoSlots

(* "loc" is read: the new object has the slots of the context.             *)
LEMMA GetObjectSeen ==
  ASSUME Between, NEW o \in Obj, NEW n \in Tab, GetObject(o, n)
  PROVE  Model!GetObject(o)
<1> DEFINE c == ctx[Local]
           t == IF c.slots = Nil THEN <<n, HeapAt(c.gen)>> ELSE c.slots
           table == IF c.slots = Nil THEN NewTabAt(c.gen) ELSE tab[t]
           new == [DeadObj EXCEPT !.live = TRUE, !.slots = t]
           barrier == WBCtxObj(c, new)
           tc == [table EXCEPT !.nocow = TRUE]
<1>0. 0 \in Space /\ <<o, 0>>[1] = o
  BY DEF Space
<1>1. PICK x \in ObjAddr : x = <<o, 0>> /\ x[1] = o
  BY <1>0, Addresses
<1>2. /\ Types /\ Local \in Ctx /\ c.slots \in TabRef /\ c.gen \in Bit /\ ctx[Local].ref > 0
      /\ obj \in [ObjAddr -> ObjCell] /\ tab \in [TabAddr -> TabCell]
  BY LocalSeen, RunSeen, CellTypes DEF Types, HeapTypes
<1>3. /\ c.obj = Nil /\ UnusedObj(x[1]) /\ (c.slots = Nil => UnusedTab(n))
      /\ tab' = [tab EXCEPT ![t] = tc] /\ obj' = [obj EXCEPT ![x] = new]
      /\ ctx' = [ctx EXCEPT ![Local] = Barred([c EXCEPT !.slots = t, !.obj = x], barrier)]
      /\ stack' = stack \cup {x} /\ frames' = frames
  BY <1>1 DEF GetObject, PushValue
<1>4. new.live /\ new.slots = t /\ new.proto = Nil /\ new.scope = Nil
  BY DEF DeadObj
<1>5. PICK b \in BOOLEAN : b = barrier
  BY DEF WBCtxObj
<1> HIDE DEF new, barrier
<1>6. t \in TabAddr /\ tc.val = table.val /\ \A k \in Key : Id(tc.val[k]) = SlotsOf(c.slots)[k]
  <2>1. CASE c.slots = Nil
    <3>1. t = <<n, HeapAt(c.gen)>> /\ table = NewTabAt(c.gen) /\ HeapAt(c.gen) \in Space
      BY <1>2, <2>1, Heaps
    <3>2. t \in TabAddr /\ table \in TabCell
      BY <1>2, <3>1, Addresses, Cells
    <3>3. table.val = [j \in Key |-> Nil]
      BY <3>1 DEF NewTabAt, DeadTab
    <3>4. Id(Nil) = Nil
      BY DEF Id
    <3> HIDE DEF table
    <3>5. tc.val = table.val
      BY <3>2 DEF TabCell
    <3> QED BY <2>1, <3>2, <3>3, <3>4, <3>5, RunSlots
  <2>2. CASE c.slots # Nil
    <3>1. t = c.slots /\ table = tab[c.slots]
      BY <2>2
    <3>2. c.slots \in TabAddr /\ tab[c.slots].live /\ tab[c.slots] \in TabCell
      BY <1>2, <2>2, RunSlots, CellTypes
    <3> HIDE DEF table, t
    <3>3. tc.val = table.val
      BY <3>1, <3>2 DEF TabCell
    <3> QED BY <3>1, <3>2, <3>3, RunSlots
  <2> QED BY <2>1, <2>2
<1>7. TabLooks
  <2>1. \A u \in TabAddr : u # t => tab'[u] = tab[u]
    BY <1>2, <1>3, <1>6
  <2>2. tab[t].live => tab'[t].val = tab[t].val
    <3>1. CASE c.slots = Nil
      <4>1. ~ tab[t].live
        BY <1>2, <1>3, <3>1, Heaps DEF UnusedTab
      <4> QED BY <4>1
    <3>2. CASE c.slots # Nil
      <4>1. table = tab[t]
        BY <3>2
      <4>2. tab'[t] = tc
        BY <1>2, <1>3, <1>6
      <4> QED BY <1>6, <4>1, <4>2
    <3> QED BY <3>1, <3>2
  <2> QED BY <2>1, <2>2 DEF TabLooks
<1>8. tab'[t].val = tc.val
  BY <1>2, <1>3, <1>6
<1> HIDE DEF tc, table
<1>9. PICK u \in TabAddr : u = t
  BY <1>6
<1>10. PICK l \in Ctx : l = Local
  BY <1>2
<1>11. /\ ctx'[l].ref > 0 /\ \A d \in Ctx \ {l} : ctx'[d] = ctx[d]
       /\ LookIn(l)' = [slots |-> [k \in Key |-> Nil], obj |-> x[1], prev |-> ctx[l].prev]
  <2>1. ctx[l].ref > 0 /\ ctx' = [ctx EXCEPT ![l] = Barred([ctx[l] EXCEPT !.slots = u, !.obj = x], b)]
    BY <1>2, <1>3, <1>5, <1>9, <1>10
  <2> QED BY <2>1, TieLook
<1>12. AbsScope' = [AbsScope EXCEPT ![l] = [slots |-> [k \in Key |-> Nil], obj |-> o, prev |-> ctx[l].prev]]
  <2>1. \A d \in Ctx \ {l} : CtxLooks(d)
    BY <1>11 DEF CtxLooks
  <2>2. \A d \in Ctx \ {l} : CtxSame(d)
    BY <1>7, <2>1, QuietSeen
  <2>3. AbsScope' = [AbsScope EXCEPT ![l] = LookIn(l)']
    BY <1>11, <2>2, ObjectsSeen
  <2> QED BY <1>1, <1>11, <2>3
<1>13. obj'[x] = new /\ \A d \in ObjAddr \ {x} : obj'[d] = obj[d]
  BY <1>2, <1>3
<1>14. AbsObject[o] = Nil /\ AbsObject' = [AbsObject EXCEPT ![o] = Look(x)']
  BY <1>1, <1>3, <1>4, <1>7, <1>13, MadeSeen
<1>15. Look(x)' = [slots |-> Model!Slots(Local), proto |-> Nil, scope |-> Nil]
  <2>1. Look(x)' = [slots |-> SlotsOf(u)', proto |-> Id(obj'[x].proto), scope |-> obj'[x].scope]
    BY <1>4, <1>9, <1>13, CellLook
  <2>2. SlotsOf(u)' = [k \in Key |-> Id(tab'[u].val[k])]
    <3>1. tab'[u].live
      BY <1>4, <1>9, <1>13, Addresses, RunSlots
    <3> QED BY <3>1, RunSlots
  <2>3. SlotsOf(c.slots) = [k \in Key |-> Id(tab'[u].val[k])]
    <3>1. PICK f : f = SlotsOf(c.slots) /\ f = [k \in Key |-> f[k]]
      BY DEF SlotsOf
    <3>2. \A k \in Key : Id(tab'[u].val[k]) = f[k]
      BY <1>6, <1>8, <1>9, <3>1
    <3> QED BY <3>1, <3>2
  <2> QED BY <1>4, <1>13, <2>1, <2>2, <2>3, LocalSeen DEF Id
<1>16. {d[1] : d \in stack'} = {d[1] : d \in stack} \cup {o}
  BY <1>1, <1>3, StackSeen
<1>17. AbsScope[l].obj = Nil /\ Model!Local = l
  BY <1>3, <1>10, LocalSeen DEF Id
<1>18. AbsScope' = [AbsScope EXCEPT ![l].obj = o, ![l].slots = Model!NoSlots]
  <2>1. PICK r : r = [slots |-> [k \in Key |-> Nil], obj |-> o, prev |-> ctx[l].prev]
    OBVIOUS
  <2>2. AbsScope' = [AbsScope EXCEPT ![l] = r]
    BY <1>12, <2>1
  <2> QED BY <1>2, <1>10, <2>1, <2>2, TiedSeen
<1>19. [Model!NewObj EXCEPT !.slots = Model!Slots(Local)] = [slots |-> Model!Slots(Local), proto |-> Nil, scope |-> Nil]
  BY DEF Model!NewObj
<1>20. AbsObject' = [AbsObject EXCEPT ![o] = [Model!NewObj EXCEPT !.slots = Model!Slots(Local)]]
  BY <1>14, <1>15, <1>19
<1> QED BY <1>3, <1>10, <1>14, <1>16, <1>17, <1>18, <1>20 DEF Model!GetObject

(* "loc" is assigned.                                                      *)
LEMMA SetObjectSeen ==
  ASSUME Between, NEW a \in stack, NEW n \in Tab, SetObject(a, n)
  PROVE  Model!SetObject(a[1])
<1> DEFINE c == ctx[Local]
           own == Owned(obj[a], n)
           tc == [own.cell EXCEPT !.nocow = TRUE]
<1>1. /\ Types /\ Ready /\ a \in ObjAddr /\ obj[a].live /\ Local \in Ctx /\ ctx[Local].ref > 0
      /\ tab \in [TabAddr -> TabCell]
  BY LocalSeen, StackSeen DEF Between, Ready, Types, HeapTypes
<1>2. /\ own.at \in TabAddr /\ own.cell \in TabCell /\ ~ own.cell.shared
      /\ \/ ~ tab[own.at].live /\ NeedsTable(obj[a])
         \/ obj[a].slots = own.at /\ own.cell = tab[own.at]
  BY <1>1, OwnedShares DEF SetObject
<1>3. \A j \in Key : Id(own.cell.val[j]) = Look(a).slots[j]
  BY <1>1, OwnedLook
<1>4. PICK b \in BOOLEAN : b = WBCtxObj(c, obj[a])
  BY DEF WBCtxObj
<1>5. PICK w : w = CopiedBarrier(obj[a], own)
  OBVIOUS
<1>6. /\ obj' = [obj EXCEPT ![a].slots = own.at, ![a].wb = @ \/ w]
      /\ tab' = [tab EXCEPT ![own.at] = tc]
      /\ ctx' = [ctx EXCEPT ![Local] = Barred([c EXCEPT !.slots = own.at, !.obj = a], b)]
      /\ stack' = stack /\ frames' = frames
  BY <1>4, <1>5 DEF SetObject, TakeTable, rootVars
<1> HIDE DEF own
<1>7. PICK l \in Ctx, t \in TabAddr : l = Local /\ t = own.at
  BY <1>1, <1>2
<1>8. /\ obj'[a].live /\ obj'[a].slots = t /\ obj'[a].proto = obj[a].proto /\ obj'[a].scope = obj[a].scope
      /\ \A x \in ObjAddr \ {a} : obj'[x] = obj[x]
  BY <1>1, <1>6, <1>7, TakeLook
<1>9. tab'[t].val = own.cell.val /\ \A u \in TabAddr \ {t} : tab'[u] = tab[u]
  <2>1. tc.val = own.cell.val
    BY <1>2 DEF TabCell
  <2> HIDE DEF tc
  <2> QED BY <1>1, <1>6, <1>7, <2>1
<1> HIDE DEF tc
<1>10. /\ ctx'[l].ref > 0 /\ \A d \in Ctx \ {l} : ctx'[d] = ctx[d]
       /\ LookIn(l)' = [slots |-> [k \in Key |-> Nil], obj |-> a[1], prev |-> ctx[l].prev]
  <2>1. ctx[l].ref > 0 /\ ctx' = [ctx EXCEPT ![l] = Barred([ctx[l] EXCEPT !.slots = t, !.obj = a], b)]
    BY <1>1, <1>6, <1>7
  <2> QED BY <1>1, <2>1, TieLook
<1>11. /\ AbsObject' = [AbsObject EXCEPT ![a[1]] =
                          [slots |-> [k \in Key |-> Id(tab'[t].val[k])], proto |-> Id(obj[a].proto), scope |-> obj[a].scope]]
       /\ \A d \in Ctx : ctx'[d].slots = ctx[d].slots /\ ctx'[d].obj = ctx[d].obj /\ ctx'[d].prev = ctx[d].prev
                             /\ (ctx'[d].ref > 0 <=> ctx[d].ref > 0) => CtxSame(d)
  <2>1. ~ tab[t].live \/ (obj[a].slots = t /\ ~ tab[t].shared)
    BY <1>2, <1>7
  <2> QED BY <1>1, <1>8, <1>9, <2>1, WriteSeen
<1>12. AbsObject' = AbsObject
  <2>1. PICK f : f = SlotsOf(obj[a].slots) /\ f = [k \in Key |-> f[k]]
    BY DEF SlotsOf
  <2>2. AbsObject[a[1]] = Look(a) /\ AbsObject = [o \in Obj |-> AbsObject[o]]
    BY <1>1, RunSeen
  <2>3. Look(a) = [slots |-> f, proto |-> Id(obj[a].proto), scope |-> obj[a].scope] /\ Look(a).slots = f
    BY <2>1 DEF Look
  <2>4. [k \in Key |-> Id(tab'[t].val[k])] = f
    BY <1>3, <1>9, <2>1, <2>3
  <2> QED BY <1>11, <2>2, <2>3, <2>4
<1>13. AbsScope' = [AbsScope EXCEPT ![l].obj = a[1], ![l].slots = Model!NoSlots]
  <2>1. PICK r : r = [slots |-> [k \in Key |-> Nil], obj |-> a[1], prev |-> ctx[l].prev]
    OBVIOUS
  <2>2. \A d \in Ctx \ {l} : CtxSame(d)
    BY <1>10, <1>11
  <2>3. AbsScope' = [AbsScope EXCEPT ![l] = LookIn(l)']
    BY <1>10, <2>2, ObjectsSeen
  <2>4. AbsScope' = [AbsScope EXCEPT ![l] = r]
    BY <1>10, <2>1, <2>3
  <2> QED BY <1>1, <1>7, <2>1, <2>4, TiedSeen
<1>14. Model!Local = l
  BY <1>7, LocalSeen
<1> QED BY <1>6, <1>12, <1>13, <1>14 DEF Model!SetObject

(* _ivm_function_invoke_c.                                                 *)
LEMMA CallSeen ==
  ASSUME Between, NEW f \in stack, NEW c \in Ctx, Call(f, c)
  PROVE  Model!Call(f[1], c)
<1>1. /\ f \in ObjAddr /\ obj[f].live /\ Types /\ obj[f].scope # Nil /\ obj[f].scope \in Ctx /\ ctx[obj[f].scope].ref > 0
      /\ ctx[c].ref = 0 /\ ctx \in [Ctx -> CtxCellI]
  <2>1. f \in ObjAddr /\ obj[f].live /\ Types /\ Inv /\ phase = "run"
    BY StackSeen, RunSeen DEF Between
  <2> QED BY <2>1, HeldInUse DEF Call, Types, HeapTypes
<1>2. PICK sc \in Ctx : sc = obj[f].scope
  BY <1>1
<1> DEFINE new == [DeadCtx EXCEPT !.ref = 1, !.prev = sc]
<1>3. /\ obj' = obj /\ tab' = tab /\ ctx' = [ctx EXCEPT ![c] = new, ![sc].ref = ctx[sc].ref + 1]
      /\ frames' = Append(frames, c) /\ stack' = stack
  BY <1>2 DEF Call
<1>4. new.slots = Nil /\ new.obj = Nil /\ new.ref = 1 /\ new.prev = sc
  BY DEF DeadCtx
<1> HIDE DEF new
<1>5. sc # c /\ ctx[sc].ref \in Int /\ ctx[sc] \in CtxCellI
  BY <1>1, <1>2, CellTypes
<1>6. ctx'[c] = new /\ ctx'[sc] = [ctx[sc] EXCEPT !.ref = ctx[sc].ref + 1] /\ \A d \in Ctx \ {c, sc} : ctx'[d] = ctx[d]
  <2>1. ctx' = [[ctx EXCEPT ![c] = new] EXCEPT ![sc] = [[ctx EXCEPT ![c] = new][sc] EXCEPT !.ref = ctx[sc].ref + 1]]
    BY <1>1, <1>3
  <2> QED BY <1>1, <1>5, <2>1
<1>7. TabLooks /\ AbsObject' = AbsObject
  <2>1. TabLooks
    BY <1>3 DEF TabLooks
  <2> QED BY <1>3, <2>1, QuietSeen
<1>8. \A d \in Ctx \ {c} : CtxSame(d)
  <2>1. CtxLooks(sc)
    BY <1>1, <1>2, <1>5, <1>6 DEF CtxLooks, CtxCellI
  <2>2. \A d \in Ctx \ {c, sc} : CtxLooks(d)
    BY <1>6 DEF CtxLooks
  <2> QED BY <1>7, <2>1, <2>2, QuietSeen
<1>9. LookIn(c)' = [slots |-> [k \in Key |-> Nil], obj |-> Nil, prev |-> sc]
  <2>1. PICK s : s = Nil
    OBVIOUS
  <2>2. LookIn(c)' = [slots |-> SlotsOf(s)', obj |-> Id(ctx'[c].obj), prev |-> sc]
    BY <1>4, <1>6, <2>1, RunSeen DEF LookIn
  <2>3. SlotsOf(s)' = [k \in Key |-> Nil]
    BY <2>1, RunSlots
  <2> QED BY <1>4, <1>6, <2>2, <2>3 DEF Id
<1>10. AbsScope' = [AbsScope EXCEPT ![c] = LookIn(c)'] /\ AbsScope[c] = Nil
  <2>1. ctx'[c].ref > 0
    BY <1>4, <1>6
  <2>2. AbsScope[c] = Nil
    <3>1. ~ (ctx[c].ref > 0)
      BY <1>1
    <3> QED BY <3>1, RunSeen
  <2> QED BY <1>8, <2>1, <2>2, ObjectsSeen
<1>11. AbsObject[f[1]].scope = sc
  <2>1. AbsObject[f[1]] = Look(f)
    BY <1>1, RunSeen
  <2> QED BY <1>2, <2>1 DEF Look
<1>12. LookIn(c)' = [Model!NewCtx EXCEPT !.prev = sc]
  BY <1>9 DEF Model!NewCtx, Model!NoSlots
<1>13. sc # Nil
  BY CollectorAssumption
<1> QED BY <1>3, <1>7, <1>10, <1>11, <1>12, <1>13 DEF Model!Call

(* ivm_runtime_invokeNative.                                               *)
LEMMA CallNativeSeen ==
  ASSUME Between, NEW f \in stack, CallNative(f)
  PROVE  Model!CallNative(f[1])
<1>1. /\ f \in ObjAddr /\ obj[f].live /\ obj[f].scope # Nil /\ obj[f].scope \in Ctx /\ ctx[obj[f].scope].ref > 0
  <2>1. f \in ObjAddr /\ obj[f].live /\ Inv /\ phase = "run"
    BY StackSeen DEF Between
  <2> QED BY <2>1, HeldInUse DEF CallNative
<1>2. PICK sc \in CtxRef : sc = obj[f].scope
  BY <1>1 DEF CtxRef
<1>3. TabLooks /\ \A d \in Ctx : CtxLooks(d)
  <2>1. Types /\ RefScope(sc)
    BY <1>2, RunSeen DEF CallNative
  <2>2. \A d \in Ctx : CtxLooks(d)
    BY <1>1, <1>2, <2>1, RefLook
  <2> QED BY <2>2 DEF TabLooks, CallNative
<1>4. AbsObject' = AbsObject /\ AbsScope' = AbsScope
  BY <1>3, QuietSeen DEF CallNative
<1>5. AbsObject[f[1]].scope = obj[f].scope
  <2>1. AbsObject[f[1]] = Look(f)
    BY <1>1, RunSeen
  <2> QED BY <2>1 DEF Look
<1>6. frames' = Append(frames, AbsObject[f[1]].scope) /\ stack' = stack
  BY <1>5 DEF CallNative
<1> QED BY <1>1, <1>4, <1>5, <1>6 DEF Model!CallNative

(* Every instruction is one of the instructions of ObjectModel.            *)
LEMMA MutateSeen ==
  ASSUME Between, Mutate
  PROVE  Model!Next
<1> DEFINE held == {x[1] : x \in stack}
<1>1. /\ \A a \in stack : a[1] \in held
      /\ \A v \in stack \cup {Nil} : Id(v) \in held \cup {Nil}
  BY StackSeen
<1>2. CASE \E o \in Obj : NewObject(o)
  BY <1>2, NewObjectSeen DEF Model!Next
<1>3. CASE \E v \in stack : Pop(v)
  BY <1>1, <1>3, PopSeen DEF Model!Next
<1>4. CASE \E a, p \in stack : SetProto(a, p)
  BY <1>1, <1>4, SetProtoSeen DEF Model!Next
<1>5. CASE \E a \in stack, k \in Key, v \in stack \cup {Nil}, n \in Tab : SetSlot(a, k, v, n)
  BY <1>1, <1>5, SetSlotSeen DEF Model!Next
<1>6. CASE \E a \in stack, k \in Key : GetSlot(a, k)
  <2>1. PICK a \in stack, k \in Key : GetSlot(a, k)
    BY <1>6
  <2>2. PICK b : b = a[1]
    OBVIOUS
  <2>3. Model!Hold(AbsObject[b].slots[k])
    BY <2>1, <2>2, GetSlotSeen DEF Model!Hold
  <2>4. b \in held
    BY <1>1, <2>2
  <2> HIDE DEF held
  <2>5. \E x \in held, j \in Key : Model!Hold(AbsObject[x].slots[j])
    BY <2>3, <2>4 DEF Model!Hold
  <2> QED BY <2>5 DEF held, Model!Next, Model!Hold
<1>7. CASE \E a, b \in stack, K \in SUBSET Key, n \in Tab : Merge(a, b, K, n)
  BY <1>1, <1>7, MergeSeen DEF Model!Next
<1>8. CASE \E a \in stack, o \in Obj, n \in Tab : Clone(a, o, n)
  BY <1>1, <1>8, CloneSeen DEF Model!Next
<1>9. CASE \E k \in Key, v \in stack \cup {Nil}, n \in Tab : SetLocalSlot(k, v, n)
  BY <1>1, <1>9, SetLocalSlotSeen DEF Model!Next
<1>10. CASE \E k \in Key : GetLocalSlot(k)
  BY <1>10, GetLocalSlotSeen DEF Model!Next
<1>11. CASE \E o \in Obj, n \in Tab : GetObject(o, n)
  BY <1>11, GetObjectSeen DEF Model!Next
<1>12. CASE GetObjectAgain
  BY <1>12, GetObjectAgainSeen DEF Model!Next
<1>13. CASE \E a \in stack, n \in Tab : SetObject(a, n)
  BY <1>1, <1>13, SetObjectSeen DEF Model!Next
<1>14. CASE \E o \in Obj : NewFunction(o)
  BY <1>14, NewFunctionSeen DEF Model!Next
<1>15. CASE \E f \in stack, c \in Ctx : Call(f, c)
  BY <1>1, <1>15, CallSeen DEF Model!Next
<1>16. CASE \E f \in stack : CallNative(f)
  BY <1>1, <1>16, CallNativeSeen DEF Model!Next
<1> QED BY <1>2, <1>3, <1>4, <1>5, <1>6, <1>7, <1>8, <1>9, <1>10, <1>11, <1>12, <1>13, <1>14, <1>15, <1>16 DEF Mutate

(* What an instruction relies on.                                          *)
LEMMA MutateReady ==
  ASSUME ~ AnyLoc, Inv, Sharing, Running
  PROVE  Ready /\ Tables
<1>1. /\ Types /\ phase = "run" /\ Unique /\ RunRefs /\ RunOld /\ Generations /\ Lists /\ Logged /\ Counted
  BY DEF Inv, Heap, Counts, Program, Running
<1>2. Ready
  <2>1. \A c \in Ctx : ctx[c].ref = 0 => Unheld(c)
    BY <1>1, Uncounted
  <2> QED BY <1>1, <2>1 DEF Ready, Inv, Heap
<1>3. Tables
  BY <1>1, SharingTables
<1> QED BY <1>2, <1>3

(* The collector, the barriers, copy on write and the reference counts     *)
(* together implement plain objects: every instruction does to what a      *)
(* program sees what it does to plain objects, and a collection, at every  *)
(* step, only forgets what nothing refers to.                              *)
THEOREM ObjectsArePlain ==
  ASSUME ~ AnyLoc
  PROVE  Spec => Transparent
<1>1. ASSUME Init PROVE Inv /\ Sharing /\ Model!Init
  <2>1. /\ \A a \in ObjAddr : ~ obj[a].live
        /\ \A c \in Ctx : ctx[c].obj = Nil /\ ctx[c].slots = Nil
        /\ phase = "run" /\ stack = {} /\ frames = <<Global>>
    BY <1>1 DEF Init, DeadObj, DeadCtx
  <2>2. Inv /\ Sharing
    BY <1>1, <2>1, InitInv DEF Sharing
  <2>3. AbsObject = [o \in Obj |-> Nil]
    <3>1. \A o \in Obj : ~ Kept(o)
      BY <2>1, Addresses DEF Kept, UnusedObj
    <3> QED BY <3>1 DEF AbsObject
  <2>4. AbsScope = [c \in Ctx |-> IF c = Global THEN Model!NewCtx ELSE Nil]
    <3>1. ASSUME NEW c \in Ctx PROVE KeptCtx(c) <=> c = Global
      BY <1>1, <2>1 DEF Init, DeadCtx, KeptCtx
    <3>2. AbsScope[Global] = Model!NewCtx
      <4>1. SlotsOf(Nil) = [k \in Key |-> Nil] /\ Id(Nil) = Nil
        BY DEF SlotsOf, Id
      <4>2. ctx[Global].prev = Nil /\ Global \in Ctx
        BY <1>1, CollectorAssumption DEF Init, DeadCtx
      <4>3. AbsScope[Global] = [slots |-> SlotsOf(Nil), obj |-> Id(Nil), prev |-> Nil]
        BY <2>1, <3>1, <4>2 DEF AbsScope
      <4> QED BY <4>1, <4>3 DEF Model!NewCtx, Model!NoSlots
    <3>3. \A c \in Ctx \ {Global} : AbsScope[c] = Nil
      BY <3>1 DEF AbsScope
    <3>4. AbsScope = [c \in Ctx |-> AbsScope[c]]
      BY DEF AbsScope
    <3> QED BY <3>2, <3>3, <3>4
  <2>5. {a[1] : a \in stack} = {}
    BY <2>1
  <2> QED BY <2>1, <2>2, <2>3, <2>4, <2>5 DEF Model!Init
<1>2. ASSUME Inv, Sharing, [Next]_vars PROVE Inv' /\ Sharing' /\ [Model!Next]_Model!vars
  <2>1. Inv' /\ Sharing'
    BY <1>2, InvStep, ShareStep
  <2>2. CASE Running /\ Mutate /\ UNCHANGED <<gcVars, freeing>>
    <3>1. phase = "run" /\ phase' = "run"
      BY <2>2 DEF Running, gcVars
    <3>2. Between
      BY <1>2, <2>1, <2>2, <3>1, MutateReady DEF Between
    <3> QED BY <2>1, <2>2, <3>2, MutateSeen
  <2>3. CASE Running /\ Return /\ UNCHANGED gcVars
    BY <1>2, <2>1, <2>3, ReturnSeen DEF Model!Next
  <2>4. CASE ~ (Running /\ Mutate /\ UNCHANGED <<gcVars, freeing>>) /\ ~ (Running /\ Return /\ UNCHANGED gcVars)
    BY <1>2, <2>1, <2>4, CollectForgets DEF Model!Next
  <2> QED BY <2>2, <2>3, <2>4
<1> QED BY <1>1, <1>2, PTL DEF Spec, Transparent, Model!Spec
=============================================================================
