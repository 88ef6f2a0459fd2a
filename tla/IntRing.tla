------------------------------ MODULE IntRing ------------------------------
(***************************************************************************)
(* The interrupt buffer of a VM state: int_buf, int_next and int_head of   *)
(* ivm_vmstate_t (vm/vm.h).  Flags are pushed at int_next and popped from  *)
(* int_next again, so the buffer is a stack that lives in a ring; a push   *)
(* that catches up with int_head gives up the oldest flag.                 *)
(*                                                                         *)
(* The operators are the bodies of ivm_vmstate_setInt and                  *)
(* ivm_vmstate_popInt without their locking, which module Threads adds.    *)
(***************************************************************************)
EXTENDS Integers, FiniteSets

CONSTANT RingSize       \* IVM_DEFAULT_CORO_INT_BUFFER_SIZE

(* The source admits the powers of two from 2 to 128 (#error otherwise),   *)
(* so that "& _INT_ROUND_MASK" is the remainder; only RingSize > 1 matters. *)
ASSUME RingSizeAssumption == RingSize \in Nat /\ RingSize > 1

GC    == "gc"           \* IVM_CORO_INT_GC
Yield == "yield"        \* IVM_CORO_INT_THREAD_YIELD
NoInt == "none"         \* IVM_CORO_INT_NONE, also a cell that holds nothing
Flag  == {GC, Yield}

Index == 0 .. RingSize - 1
Ring  == [buf : [Index -> Flag \cup {NoInt}], next : Index, head : Index]

EmptyRing == [buf |-> [i \in Index |-> NoInt], next |-> 0, head |-> 0]

MutInc(i) == i + 1                          \* the mask forgotten
Inc(i) == (i + 1) % RingSize                \* _INC_ROUND
Dec(i) == (i + RingSize - 1) % RingSize     \* _DEC_ROUND on an unsigned

IsEmpty(r) == r.next = r.head

(* The head left behind when the ring is full.                             *)
MutPush(r, flag) ==
  [r EXCEPT !.buf[r.next] = flag, !.next = Inc(r.next)]

(* The body of setInt: store, advance, and drop the oldest when full.      *)
Push(r, flag) ==
  LET n == Inc(r.next)
      full == n = r.head
  IN  [buf  |-> IF full
                  THEN [r.buf EXCEPT ![r.next] = flag, ![r.head] = NoInt]
                  ELSE [r.buf EXCEPT ![r.next] = flag],
       next |-> n,
       head |-> IF full THEN Inc(r.head) ELSE r.head]

(* The body of popInt up to "ret = int_buf[int_next]".  The code leaves    *)
(* the old flag in the vacated cell, which is stored to before it is read  *)
(* again; the model clears it.                                             *)
Top(r)  == r.buf[Dec(r.next)]
Drop(r) == [r EXCEPT !.next = Dec(@), !.buf[Dec(r.next)] = NoInt]

(* "empty -> reset to zeros"                                               *)
Reset(r) == [r EXCEPT !.next = 0, !.head = 0]

(***************************************************************************)
(* What the ring holds.                                                    *)
(***************************************************************************)
Size(r)  == (r.next - r.head + RingSize) % RingSize
Held(r)  == {i \in Index : (i - r.head + RingSize) % RingSize < Size(r)}
Count(r, flag) == Cardinality({i \in Held(r) : r.buf[i] = flag})

(* Oldest flag first.                                                      *)
Contents(r) == [k \in 1 .. Size(r) |-> r.buf[(r.head + k - 1) % RingSize]]
=============================================================================
