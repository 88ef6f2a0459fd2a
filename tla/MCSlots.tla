------------------------------ MODULE MCSlots ------------------------------
(* Values for checking Slots.                                              *)
EXTENDS Slots

CONSTANTS x, y

(* All keys meet at the last cell of an array.                             *)
TheHash  == [k \in Key |-> 3]
TheKeys  == [i \in Instr |-> x]
=============================================================================
