----------------------------- MODULE LossyQueue ------------------------------
(***************************************************************************)
(* What a receive ring promises: a queue of bounded length that hands out  *)
(* its messages in the order they came, each once, and loses the oldest    *)
(* one only to make room for a new one.  Message n is the n-th to arrive.  *)
(*                                                                         *)
(* Its user may also empty it at any time (Discard, for stm32_CAN_clear),  *)
(* so that implementing this queue does not exclude that all that waits is *)
(* lost without a call to clear it: the theorem EveryMessageIsTaken of     *)
(* CanRing_proofs does.                                                    *)
(***************************************************************************)
EXTENDS Naturals, Sequences

CONSTANT Capacity

VARIABLES
  queue,    \* the messages that wait
  arrived,  \* how many came in
  taken     \* the last one handed out, 0 for none

vars == <<queue, arrived, taken>>

Init == queue = << >> /\ arrived = 0 /\ taken = 0

Room == IF Len(queue) = Capacity THEN Tail(queue) ELSE queue

Arrive == /\ arrived' = arrived + 1
          /\ queue' = Append(Room, arrived')
          /\ UNCHANGED taken

Take == /\ queue # << >>
        /\ taken' = Head(queue)
        /\ queue' = Tail(queue)
        /\ UNCHANGED arrived

(* Everything that waits goes, at any time.                                *)
Discard == /\ queue' = << >>
           /\ UNCHANGED <<arrived, taken>>

Next == Arrive \/ Take \/ Discard

Spec == Init /\ [][Next]_vars
=============================================================================
