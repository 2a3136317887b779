----------------------------- MODULE BoundedFifo -----------------------------
(***************************************************************************)
(* What a UART ring buffer promises its two sides: a first-in first-out    *)
(* queue that holds at most Capacity elements.  One side appends, the      *)
(* other takes the oldest element into its hand and puts it down again     *)
(* when it has used it.  Nothing is lost, repeated or overtaken once it is *)
(* in the queue, and what is in the hand does not change while it is held. *)
(***************************************************************************)
EXTENDS Naturals, Sequences

CONSTANTS Element,   \* what the queue holds
          Capacity,  \* the most it holds
          Nothing    \* the hand is empty

VARIABLES queue, hand

vars == <<queue, hand>>

TypeOK == /\ queue \in Seq(Element)
          /\ Len(queue) <= Capacity
          /\ hand \in Element \cup {Nothing}

Init == queue = << >> /\ hand = Nothing

Put(e) == /\ Len(queue) < Capacity
          /\ queue' = Append(queue, e)
          /\ hand' = hand

Take == /\ queue # << >> /\ hand = Nothing
        /\ hand' = Head(queue)
        /\ queue' = Tail(queue)

Finish == /\ hand # Nothing
          /\ hand' = Nothing
          /\ queue' = queue

Next == (\E e \in Element : Put(e)) \/ Take \/ Finish

Spec == Init /\ [][Next]_vars
=============================================================================
