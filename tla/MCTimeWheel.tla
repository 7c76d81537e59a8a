----------------------------- MODULE MCTimeWheel -----------------------------
(* Two descriptors that are reused, on the wheel of three buckets the loop thread *)
(* has, with ticks that may come one unit of time late or a whole interval.       *)
EXTENDS IdleTimer
==============================================================================
