------------------------------ MODULE MCSnServer ------------------------------
(* Two clients and one or two descriptors: with one, the second client can only *)
(* be served on the descriptor of the first, while answers to the first may     *)
(* still be under way; with two, both are served at once and may still swap.    *)
EXTENDS SnServer, TLC

CONSTANTS k1, k2, f1, f2

TwoConn == {k1, k2}
OneFd == {f1}
TwoFd == {f1, f2}

TwoAndOne == [c \in Conn |-> IF c = k1 THEN 2 ELSE 1]
OneEach == [c \in Conn |-> 1]

\* The descriptors are interchangeable; the clients differ in MaxReq.
Symmetric == Permutations(Fd)
==============================================================================
