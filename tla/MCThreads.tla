----------------------------- MODULE MCThreads -----------------------------
(***************************************************************************)
(* Values for checking Threads with TLC: a main thread and two workers, so *)
(* that a third thread can step in between any two.                        *)
(***************************************************************************)
EXTENDS Threads

CONSTANTS m, w1, w2

OneWorker  == {w1}
TwoWorkers == {w1, w2}
OnlyMain   == {m}
Everyone   == {m, w1, w2}
=============================================================================
