----------------------------- MODULE SlotModel ------------------------------
(***************************************************************************)
(* What an ink program may assume of slots: an object is a function from   *)
(* keys to values, and the ones it does not have are those of its          *)
(* prototype.  There are no tables here, no hashing, no sharing and no     *)
(* caches; module Slots is shown to implement it.                          *)
(*                                                                         *)
(* A slot that was deleted is not like one that never was: a merge that    *)
(* does not overwrite leaves it alone.                                     *)
(***************************************************************************)
EXTENDS Naturals, FiniteSets

CONSTANTS Obj, Key, Val, Root, Nil, Absent, Gone

VARIABLE object      \* of each object, [slots, proto], or Nil

Made == {o \in Obj : object[o] # Nil}

NewObject == [slots |-> [k \in Key |-> Absent], proto |-> Root]

(* The objects from o on to the last prototype.                            *)
Above == [o \in Obj \cup {Nil} |-> IF o = Nil THEN Nil ELSE IF object[o] = Nil THEN Nil ELSE object[o].proto]
Chain(o) ==
  LET next[n \in Nat] == IF n = 0 THEN o ELSE Above[next[n - 1]]
  IN {next[n] : n \in 0 .. Cardinality(Obj) - 1} \ {Nil}

(* Whether p comes before q on the chain.                                  *)
Before(p, q) == p # q /\ q \in Chain(p)

Nearest(o, Has(_)) ==
  LET hits == {p \in Chain(o) : Has(p)} IN
  IF hits = {} THEN Nil ELSE CHOOSE p \in hits : \A q \in hits : p = q \/ Before(p, q)

Slot(p, k)   == object[p].slots[k]
Lookup(o, k) == LET p == Nearest(o, LAMBDA q : Slot(q, k) \in Val) IN IF p = Nil THEN Nil ELSE Slot(p, k)

Become(o, r) == object' = [object EXCEPT ![o] = r]

(* Reading a slot.                                                         *)
Get         == UNCHANGED object
New(o)      == object[o] = Nil /\ Become(o, NewObject)
Clone(a, o) == object[o] = Nil /\ Become(o, object[a])

(* What may be left where nothing was is not the program's business.       *)
Deleted(old) == IF old = Absent THEN {Absent, Gone} ELSE {Gone}

Set(o, k, v) == Become(o, [object[o] EXCEPT !.slots[k] = v])
Delete(o, k) == \E d \in Deleted(Slot(o, k)) : Become(o, [object[o] EXCEPT !.slots[k] = d])

(* No object is its own prototype, directly or not.                        *)
SetProto(o, p) == (p = Nil \/ o \notin Chain(p)) /\ Become(o, [object[o] EXCEPT !.proto = p])

(* A merge takes what the other object has, deletions too.  `left` are the *)
(* keys where one is left although nothing was there.                      *)
Merge(a, b, overwrite) ==
  LET deletes == {k \in Key : Slot(b, k) = Gone /\ Slot(a, k) = Absent} IN
  \E left \in IF overwrite THEN SUBSET deletes ELSE {deletes} :
    LET Takes(k) == /\ Slot(b, k) # Absent
                    /\ overwrite \/ Slot(a, k) = Absent
                    /\ k \in deletes => k \in left
    IN Become(a, [object[a] EXCEPT !.slots = [k \in Key |-> IF Takes(k) THEN Slot(b, k) ELSE Slot(a, k)]])

Init ==
  object = [o \in Obj |-> IF o = Root THEN [NewObject EXCEPT !.proto = Nil] ELSE Nil]

Next ==
  \/ Get
  \/ \E o \in Made, k \in Key, v \in Val : Set(o, k, v)
  \/ \E o \in Made, k \in Key : Delete(o, k)
  \/ \E o \in Obj : New(o)
  \/ \E a \in Made, o \in Obj : Clone(a, o)
  \/ \E o \in Made, p \in Made \cup {Nil} : SetProto(o, p)
  \/ \E a, b \in Made, overwrite \in BOOLEAN : Merge(a, b, overwrite)

Spec == Init /\ [][Next]_object
=============================================================================
