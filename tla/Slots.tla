------------------------------- MODULE Slots --------------------------------
(***************************************************************************)
(* Slot tables and the caches of the instructions that use them: vm/slot.c,*)
(* vm/obj.c and their inline parts.  A table is an array that is searched  *)
(* from the front while it is small and hashed, with linear probing, when  *)
(* it has grown; clones share a table until one of them writes.  The array *)
(* of a table has a number (uid): an instruction remembers the number of   *)
(* the array it used last and the cell in it, and skips the search when    *)
(* it meets the number again.  A collection moves arrays, and starts the   *)
(* numbers again when they have become large.                              *)
(*                                                                         *)
(* Left out: a table that is tied to a scope (Collector), and operators,   *)
(* which are slots of the same tables; and objects that die (Collector).   *)
(***************************************************************************)
EXTENDS Integers, Sequences, FiniteSets, SequencesExt, FiniteSetsExt

CONSTANTS
  Obj, Root,         \* objects, and the prototype of all objects
  Key, Val,          \* slots and values
  Instr, KeyOf,      \* instructions that use a slot, and its key
  Hash,              \* [Key -> Nat]
  Prealloc,          \* numbers of slots that an object is made for
  Nil, Absent, Gone,
  DefaultSize,       \* IVM_DEFAULT_SLOT_TABLE_SIZE
  ToHash,            \* IVM_DEFAULT_SLOT_TABLE_TO_HASH_THRESHOLD
  UidLimit,          \* IVM_INSTR_CACHE_UID_MAX
  MaxUid, MaxSize,   \* bounds: of the numbers given out, and of the size of a table
  Quirks             \* programs that are not left out: "proto", see SetProtoSlot,
                     \* and "restart", see Collect

(* Cells of tables, tables and objects.                                    *)
Entry  == [k : Key \cup {Nil}, v : Val \cup {Nil}]
Table  == [cells : Seq(Entry), hash : BOOLEAN, shared : BOOLEAN, uid : Nat, array : Nat]
Object == [slots : Nat \cup {Nil}, proto : Obj \cup {Nil}]

ASSUME SlotAssumption ==
  /\ Root \in Obj /\ Nil \notin Obj \cup Key \cup Val
  /\ Val \cap {Absent, Gone, Nil} = {} /\ Cardinality({Absent, Gone, Nil}) = 3
  /\ KeyOf \in [Instr -> Key] /\ Hash \in [Key -> Nat]
  /\ IsFiniteSet(Obj) /\ {DefaultSize, ToHash, UidLimit} \subseteq Nat \ {0}
  /\ Prealloc \subseteq Nat /\ MaxUid \in Nat /\ MaxSize \in Nat /\ 2 * DefaultSize <= MaxSize
  /\ Nil \notin Nat /\ Nil \notin Table /\ Nil \notin Object
  /\ Nil \notin [slots : [Key -> Val \cup {Absent, Gone}], proto : Obj \cup {Nil}]

VARIABLES
  obj,      \* of each object, [slots, proto], or Nil; slots: a table or Nil
  tab,      \* of each table, [cells, hash, shared, uid, array], or Nil
  uids,     \* vmstate.st_uid_gen
  cache     \* of each instruction, [uid, array, at]: cc_id, cc_data

vars == <<obj, tab, uids, cache>>

Tab  == 1 .. Cardinality(Obj)
Made == {o \in Obj : obj[o] # Nil}

(***************************************************************************)
(* A table and its cells.  A cell without a key has never been used; one   *)
(* with a key but no value was deleted, and is kept: searches go on past   *)
(* it.                                                                     *)
(***************************************************************************)
Empty      == [k |-> Nil, v |-> Nil]
Cells(n)   == [i \in 1 .. n |-> Empty]
Size(t)    == Len(t.cells)

(* The array of t moves, n being the last number given out.                *)
Moved(t, n) == [t EXCEPT !.uid = n + 1, !.array = n + 1]

NewTable(init, n) ==
  LET size == IF init < DefaultSize THEN DefaultSize ELSE init
      hash == size >= ToHash
  IN [cells |-> Cells(IF hash THEN 2 * size ELSE size), hash |-> hash, shared |-> FALSE,
      uid |-> n + 1, array |-> n + 1]

(* a & b: of the numbers without a bit that a and b do not both have, the  *)
(* largest.                                                                *)
Bits(a)      == {j \in 0 .. a : (a \div 2^j) % 2 = 1}
BitAnd(a, b) == Max({0} \cup {c \in 0 .. b : Bits(c) \subseteq Bits(a) \cap Bits(b)})

(* Where the search for a key begins in a hashed array, from its size.     *)
Home == [k \in Key |-> [size \in 1 .. MaxSize |-> 1 + BitAnd(Hash[k], size - 1)]]

(* The n-th cell that a search looks at: from there to the end of the      *)
(* array, and then from its start.                                         *)
Probe(t, k, n) ==
  LET i == Home[k][Size(t)] + n - 1
  IN IF ~t.hash THEN n ELSE IF i <= Size(t) THEN i ELSE i - Size(t)

(* Where the search for k ends: at a cell with that key or one never used; *)
(* 0 if there is neither.  Mutant: at one that was deleted, too.           *)
At_ReuseGone(t, k) ==
  LET stops == {n \in 1 .. Size(t) : t.cells[Probe(t, k, n)].k \in {Nil, k} \/ t.cells[Probe(t, k, n)].v = Nil}
  IN IF stops = {} THEN 0 ELSE Probe(t, k, Min(stops))
At(t, k) ==
  LET stops == {n \in 1 .. Size(t) : t.cells[Probe(t, k, n)].k \in {Nil, k}}
  IN IF stops = {} THEN 0 ELSE Probe(t, k, Min(stops))

(* ivm_slot_table_getSlot: the cell, or 0.                                 *)
Found(t, k) == LET i == At(t, k) IN IF i # 0 /\ t.cells[i].k = k /\ t.cells[i].v # Nil THEN i ELSE 0

Put(t, i, k, v) == [t EXCEPT !.cells[i] = [k |-> k, v |-> v]]

(* A cell that was in use goes to its place in a larger array, new; those  *)
(* before n have gone.                                                     *)
Rehash(t, c) ==
  LET free == {n \in 1 .. Size(t) : t.cells[Probe(t, c.k, n)].k = Nil} IN Put(t, Probe(t, c.k, Min(free)), c.k, c.v)
Rehashed(cells, new) ==
  LET upto[n \in 0 .. Len(cells)] ==
        IF n = 0 THEN new ELSE IF cells[n].k = Nil THEN upto[n - 1] ELSE Rehash(upto[n - 1], cells[n])
  IN upto

(* _ivm_slot_table_expand, ivm_slot_table_expandTo: the array moves, and   *)
(* is hashed from a size on.  Mutant: it keeps its number.                 *)
Expanded_KeepUid(t, size, n) ==
  LET new == [t EXCEPT !.cells = Cells(size), !.hash = @ \/ size >= ToHash, !.array = n + 1]
  IN IF new.hash THEN Rehashed(t.cells, new)[Size(t)] ELSE [new EXCEPT !.cells = t.cells \o Cells(size - Size(t))]
Expanded(t, size, n) ==
  LET new == [Moved(t, n) EXCEPT !.cells = Cells(size), !.hash = @ \/ size >= ToHash]
  IN IF new.hash THEN Rehashed(t.cells, new)[Size(t)] ELSE [new EXCEPT !.cells = t.cells \o Cells(size - Size(t))]
ExpandedTo(t, to, n) == IF to <= Size(t) THEN t ELSE Expanded(t, 2 * to, n)

(* ivm_slot_table_setSlot; v is Nil to delete.  A full table grows, but    *)
(* a hashed one not for a deletion; a small one takes the new cell even    *)
(* then, unless it gets hashed.                                            *)
Assigned(t, k, v, n) ==
  LET i == At(t, k) IN
  IF i # 0 THEN IF t.cells[i].k = k \/ v # Nil THEN Put(t, i, k, v) ELSE t
  ELSE IF t.hash /\ v = Nil THEN t
  ELSE LET big == Expanded(t, 2 * Size(t), n) IN
       IF big.hash /\ v = Nil THEN big
       ELSE Put(big, IF big.hash THEN At(big, k) ELSE Size(t) + 1, k, v)

(* ivm_slot_table_setEmptySlot: only where the key is not.                 *)
Filled(t, k, v, n) ==
  LET i == At(t, k) IN
  IF i # 0 THEN IF t.cells[i].k = k THEN t ELSE Put(t, i, k, v)
  ELSE LET big == Expanded(t, 2 * Size(t), n) IN
       Put(big, IF big.hash THEN At(big, k) ELSE Size(t) + 1, k, v)

(***************************************************************************)
(* Objects.  `Next number` after a table has been made or copied.          *)
(***************************************************************************)
NewObj   == [slots |-> Nil, proto |-> Root]
Given(t) == Max({uids, t.uid})
Users(o) == {obj[p].slots : p \in Made \ {o}}
TableOf(o)   == tab[obj[o].slots]
HasTable(o)  == obj[o] # Nil /\ obj[o].slots # Nil

(* ivm_slot_table_copy_state; what a copy shares with nobody yet.          *)
CopyState(t) == [Moved(t, uids) EXCEPT !.shared = FALSE]

(* The table that o may write to (ivm_object_copyOnWrite).                 *)
OwnTable(o) ==
  CASE ~HasTable(o)                        -> NewTable(0, uids)
    [] HasTable(o) /\ TableOf(o).shared    -> CopyState(TableOf(o))
    [] HasTable(o) /\ ~TableOf(o).shared   -> TableOf(o)

(* o has the table t from now on, its own; a table that no object has is   *)
(* left to the collector.                                                  *)
Place(o) == IF HasTable(o) /\ obj[o].slots \notin Users(o) THEN obj[o].slots ELSE Min(Tab \ Users(o))
Store(o, r, t) ==
  LET id == Place(o) IN
  /\ Given(t) <= MaxUid /\ Size(t) <= MaxSize
  /\ obj' = [obj EXCEPT ![o] = [r EXCEPT !.slots = id]]
  /\ tab' = [tab EXCEPT ![id] = t]
  /\ uids' = Given(t)

(***************************************************************************)
(* Prototypes.                                                             *)
(***************************************************************************)
Above == [o \in Obj \cup {Nil} |-> IF o = Nil THEN Nil ELSE IF obj[o] = Nil THEN Nil ELSE obj[o].proto]
Chain(o) ==
  LET next[n \in Nat] == IF n = 0 THEN o ELSE Above[next[n - 1]]
  IN [n \in {m \in 0 .. Cardinality(Obj) - 1 : next[m] # Nil} |-> next[n]]
HasProto(o, p) == \E n \in DOMAIN Chain(o) : Chain(o)[n] = p

(***************************************************************************)
(* Instructions.                                                           *)
(***************************************************************************)
New(o, init) ==
  /\ obj[o] = Nil /\ UNCHANGED cache
  /\ IF init = 0 THEN obj' = [obj EXCEPT ![o] = NewObj] /\ UNCHANGED <<tab, uids>>
     ELSE Store(o, NewObj, NewTable(init, uids))

Clone(a, o) ==
  /\ obj[o] = Nil /\ UNCHANGED <<uids, cache>>
  /\ obj' = [obj EXCEPT ![o] = obj[a]]
  /\ tab' = IF HasTable(a) THEN [tab EXCEPT ![obj[a].slots].shared = TRUE] ELSE tab

(* SET_SLOT: if the instruction knows the array, it stores into the cell.  *)
(* That of an array that has moved is in nobody's sight.                   *)
Knows(i, t) == cache[i].uid = t.uid
SetSlot(i, o, v) ==
  LET t   == OwnTable(o)
      c   == cache[i]
      new == IF Knows(i, t) THEN IF c.array = t.array THEN [t EXCEPT !.cells[c.at].v = v] ELSE t
             ELSE Assigned(t, KeyOf[i], v, Given(t))
  IN /\ Store(o, obj[o], new)
     /\ cache' = IF Knows(i, t) THEN cache
                 ELSE [cache EXCEPT ![i] = [uid |-> new.uid, array |-> new.array, at |-> At(new, KeyOf[i])]]

(* obj[k] = v and del obj[k]; v is Nil to delete (ivm_object_setSlot_d).   *)
SetIndex(o, k, v) ==
  LET t == OwnTable(o) IN
  /\ Store(o, obj[o], Assigned(t, k, v, Given(t)))
  /\ UNCHANGED cache

PutProto(o, p) == obj' = [obj EXCEPT ![o].proto = p] /\ UNCHANGED <<tab, uids, cache>>

(* SET_PROTO.  Mutant: the test asks for the object itself only.           *)
SetProto_Self(o, p) == p # o /\ PutProto(o, p)
SetProto(o, p)      == ~HasProto(p, o) /\ PutProto(o, p)

(* obj["proto"] = p, del obj["proto"]: the test is the wrong way round.    *)
(* Left out, without the quirk: programs that make a circle.               *)
SetProtoSlot(o, p) ==
  /\ ~HasProto(o, p)
  /\ "proto" \in Quirks \/ ~HasProto(p, o)
  /\ PutProto(o, p)

(* ivm_object_merge.                                                       *)
Merging(t, other, overwrite) ==
  LET Taken(u, c) == IF overwrite THEN Assigned(u, c.k, c.v, u.uid) ELSE Filled(u, c.k, c.v, u.uid)
      upto[n \in 0 .. Size(other)] ==
        IF n = 0 THEN ExpandedTo(t, Size(t) + Size(other), Given(t))
        ELSE IF other.cells[n].k = Nil THEN upto[n - 1] ELSE Taken(upto[n - 1], other.cells[n])
  IN upto
MergedTable(t, other, overwrite) == Merging(t, other, overwrite)[Size(other)]
Merge(a, b, overwrite) ==
  /\ HasTable(b) /\ UNCHANGED cache
  /\ IF HasTable(a)
     THEN LET t == OwnTable(a) IN
          /\ 2 * (Size(t) + Size(TableOf(b))) <= MaxSize
          /\ Store(a, obj[a], MergedTable(t, IF a = b THEN t ELSE TableOf(b), overwrite))
     ELSE Store(a, obj[a], CopyState(TableOf(b)))

(***************************************************************************)
(* What is found: the cell for k in the table of o, without and with the   *)
(* help of an instruction; 0 if there is none.                             *)
(***************************************************************************)
CellOf(o, k) == IF HasTable(o) THEN Found(TableOf(o), k) ELSE 0
CellFor(i, o) ==
  LET t == TableOf(o)  c == cache[i] IN
  CASE ~HasTable(o)                     -> 0
    [] HasTable(o) /\ Knows(i, t)       -> IF c.array = t.array /\ t.cells[c.at].v # Nil THEN c.at ELSE 0
    [] HasTable(o) /\ ~Knows(i, t)      -> Found(t, KeyOf[i])

(* The first object on the chain of o with a cell, and what is in it.      *)
Holder(o, Cell(_)) ==
  LET hits == {n \in DOMAIN Chain(o) : Cell(Chain(o)[n]) # 0} IN IF hits = {} THEN Nil ELSE Chain(o)[Min(hits)]
Value(o, Cell(_)) ==
  LET p == Holder(o, Cell) IN IF p = Nil THEN Nil ELSE TableOf(p).cells[Cell(p)].v
getSlot(o, k)    == Value(o, LAMBDA p : CellOf(p, k))
getSlot_cc(i, o) == Value(o, LAMBDA p : CellFor(i, p))

(* GET_SLOT remembers where it has found the slot.                         *)
GetSlot(i, o) ==
  LET p == Holder(o, LAMBDA q : CellFor(i, q)) IN
  /\ p # Nil
  /\ cache' = [cache EXCEPT ![i] = [uid |-> TableOf(p).uid, array |-> TableOf(p).array, at |-> CellFor(i, p)]]
  /\ UNCHANGED <<obj, tab, uids>>

(***************************************************************************)
(* A collection moves all tables if it is a full one, else those of the    *)
(* young generation: which are young is for module Collector to say, here  *)
(* it may be any.  When the numbers have become large they start again,    *)
(* and no instruction remembers any.  That happens in a partial collection *)
(* as well (gc.c does not look which it is), where old tables keep numbers *)
(* that are given out once more: left out, without the quirk.              *)
(* Mutant: instructions remember the numbers from before.                  *)
(***************************************************************************)
Forgotten_Not == cache
Forgotten     == [i \in Instr |-> [uid |-> 0, array |-> 0, at |-> 0]]
Collect(moves) ==
  LET again == uids >= UidLimit
      base  == IF again THEN 0 ELSE uids
  IN /\ again /\ "restart" \notin Quirks => moves = {x \in Tab : tab[x] # Nil}
     /\ base + Cardinality(moves) <= MaxUid
     /\ tab' = [x \in Tab |-> IF x \in moves THEN Moved(tab[x], base + Cardinality({y \in moves : y < x})) ELSE tab[x]]
     /\ uids' = base + Cardinality(moves)
     /\ cache' = IF again THEN Forgotten ELSE cache
     /\ UNCHANGED obj

Init ==
  /\ obj = [o \in Obj |-> IF o = Root THEN [NewObj EXCEPT !.slots = 1, !.proto = Nil] ELSE Nil]
  /\ tab = [x \in Tab |-> IF x = 1 THEN NewTable(0, 0) ELSE Nil]
  /\ uids = 1
  /\ cache = [i \in Instr |-> [uid |-> 0, array |-> 0, at |-> 0]]

Next ==
  \/ \E o \in Obj, init \in Prealloc \cup {0} : New(o, init)
  \/ \E a \in Made, o \in Obj : Clone(a, o)
  \/ \E i \in Instr, o \in Made, v \in Val : SetSlot(i, o, v)
  \/ \E o \in Made, k \in Key, v \in Val \cup {Nil} : SetIndex(o, k, v)
  \/ \E o, p \in Made : SetProto(o, p)
  \/ \E o \in Made, p \in Made \cup {Nil} : SetProtoSlot(o, p)
  \/ \E a, b \in Made, overwrite \in BOOLEAN : Merge(a, b, overwrite)
  \/ \E i \in Instr, o \in Made : GetSlot(i, o)
  \/ \E moves \in SUBSET {x \in Tab : tab[x] # Nil} : Collect(moves)

Spec == Init /\ [][Next]_vars

(***************************************************************************)
(* Properties.                                                             *)
(***************************************************************************)

(* An instruction that meets the number it remembers finds its own key     *)
(* there, in the array as it is: whatever has grown, was copied, moved or  *)
(* deleted since, and however often the numbers started again, if they     *)
(* never did in a partial collection ("restart").                          *)
CacheExact ==
  \A i \in Instr, x \in Tab :
    tab[x] # Nil /\ Knows(i, tab[x]) =>
      /\ cache[i].array = tab[x].array
      /\ cache[i].at \in 1 .. Size(tab[x]) /\ tab[x].cells[cache[i].at].k = KeyOf[i]

(* What a table says of a key is in the cell with that key, wherever it    *)
(* is: with that, objects are those of SlotModel, where none is its own    *)
(* prototype.                                                              *)
Content(cells, k) ==
  LET found == {c \in cells : c.k = k}  c == CHOOSE d \in found : TRUE
  IN IF found = {} THEN Absent ELSE IF c.v = Nil THEN Gone ELSE c.v
Plain(o) ==
  LET cells == IF HasTable(o) THEN ToSet(TableOf(o).cells) ELSE {}
  IN IF obj[o] = Nil THEN Nil ELSE [slots |-> [k \in Key |-> Content(cells, k)], proto |-> obj[o].proto]
Model == INSTANCE SlotModel WITH object <- [o \in Obj |-> Plain(o)]
Implements == Model!Spec

(* And what is found in them is what SlotModel says: by the search, and by *)
(* every instruction from what it remembers.                               *)
Lookups ==
  \A o \in Made :
    /\ \A k \in Key : getSlot(o, k) = Model!Lookup(o, k)
    /\ \A i \in Instr : getSlot_cc(i, o) = Model!Lookup(o, KeyOf[i])
=============================================================================
