------------------------------ MODULE MCLogQueue ------------------------------
(* Two writers (the loop thread and the worker) with two lines each. *)
EXTENDS LogQueue

CONSTANTS w1, w2

TwoWriters == {w1, w2}
==============================================================================
