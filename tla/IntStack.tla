------------------------------ MODULE IntStack ------------------------------
(***************************************************************************)
(* What the interrupt buffer of a VM state promises: a stack of at most    *)
(* Capacity pending flags.  A push on a full stack forgets the oldest      *)
(* flag and nothing else; a pop takes the youngest.                        *)
(***************************************************************************)
EXTENDS Integers, Sequences

CONSTANTS Flag, Capacity

VARIABLE pending        \* oldest flag first

Init == pending = <<>>

Push(flag) ==
  \/ /\ Len(pending) < Capacity
     /\ pending' = Append(pending, flag)
  \/ /\ Len(pending) = Capacity
     /\ pending' = Append(Tail(pending), flag)

Pop ==
  /\ pending # <<>>
  /\ pending' = SubSeq(pending, 1, Len(pending) - 1)

Next == Pop \/ \E flag \in Flag : Push(flag)

Spec == Init /\ [][Next]_pending
=============================================================================
