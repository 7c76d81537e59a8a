------------------------------ MODULE MCLogFile ------------------------------
(* Files of four bytes and lines of one or two, so that a file may end with its   *)
(* last line inside or beyond it; three starts on two days, so that a file is     *)
(* gone on with, passed over, or left behind by a change of the date.             *)
EXTENDS LogFile
==============================================================================
