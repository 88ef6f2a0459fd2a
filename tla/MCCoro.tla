------------------------------- MODULE MCCoro -------------------------------
(***************************************************************************)
(* Instances of Coro for TLC.                                              *)
(***************************************************************************)
EXTENDS Coro
=============================================================================
