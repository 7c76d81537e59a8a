----------------------------- MODULE MCSafeQueue -----------------------------
(* Two producers and two consumers on queues with no limit, one slot and two. *)
EXTENDS SafeQueue

CONSTANTS p1, p2, c1, c2

MCProducer == {p1, p2}
MCConsumer == {c1, c2}
MCMaxSizes == {0, 1, 2}
==============================================================================
