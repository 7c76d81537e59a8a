----------------------------- MODULE EchoService -----------------------------
(***************************************************************************)
(* What the server promises a client, whatever threads, buffers and        *)
(* descriptors it uses to keep the promise: the answers a connection gets  *)
(* are the answers to its own requests, each once, in the order in which   *)
(* the requests were taken from it, and none is sent on a connection the   *)
(* server has given up.                                                    *)
(***************************************************************************)
EXTENDS Naturals, Sequences

CONSTANTS
  Conn,
  AnswerParts   \* the pieces an answer may be divided into

VARIABLES
  taken,   \* taken[c]: how many requests were taken from connection c
  given,   \* given[c]: the pieces of answers sent on c, in order
  gone     \* the connections the server has closed

echoVars == <<taken, given, gone>>

Init ==
  /\ taken = [c \in Conn |-> 0]
  /\ given = [c \in Conn |-> <<>>]
  /\ gone = {}

\* The first n pieces of the answers to the requests of c.
Answers(c, n) == [i \in 1..n |-> <<c, i>>]

TakeRequest(c) ==
  /\ c \notin gone
  /\ taken' = [taken EXCEPT ![c] = @ + 1]
  /\ UNCHANGED <<given, gone>>

\* One write may carry several answers, or only a part of one.
GiveAnswers(c) ==
  /\ c \notin gone
  /\ \E n \in Len(given[c])+1 .. taken[c] * AnswerParts :
       given' = [given EXCEPT ![c] = Answers(c, n)]
  /\ UNCHANGED <<taken, gone>>

Close(c) ==
  /\ c \notin gone
  /\ gone' = gone \cup {c}
  /\ UNCHANGED <<taken, given>>

Next == \E c \in Conn : TakeRequest(c) \/ GiveAnswers(c) \/ Close(c)

Spec == Init /\ [][Next]_echoVars
==============================================================================
