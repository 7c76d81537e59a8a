---------------------------- MODULE MCHttpFraming ----------------------------
(* Bodies of one to three cells in a buffer of eight: requests fill it exactly, *)
(* leave part of it stale and make it grow.                                     *)
EXTENDS HttpFraming

SomeBodies == {1, 2, 3}
NoBodies == {0}
==============================================================================
