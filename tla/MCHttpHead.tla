------------------------------ MODULE MCHttpHead ------------------------------
(* All URLs and all header texts of a connection up to a length that has room  *)
(* for two requests with a parameter of the same key, or for two header lines  *)
(* or a head that was refused and one behind it.                               *)
EXTENDS HttpHead
==============================================================================
