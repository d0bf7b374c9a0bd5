-------------------------------- MODULE Fifo --------------------------------
(***************************************************************************)
(* What the receive queue of a server promises: messages are taken one at  *)
(* a time, each once, whole and in the order they were put, and nothing    *)
(* touches a message while it is in hand.                                  *)
(***************************************************************************)
EXTENDS Sequences

CONSTANTS Msgs, Nothing

VARIABLES
  queue,  \* messages nobody has taken yet, the oldest first
  hand    \* the message being processed, or Nothing

vars == <<queue, hand>>

Init == queue = <<>> /\ hand = Nothing

Put(m) == queue' = Append(queue, m) /\ UNCHANGED hand

Take ==
  /\ hand = Nothing /\ queue # <<>>
  /\ hand' = Head(queue) /\ queue' = Tail(queue)

Done == hand # Nothing /\ hand' = Nothing /\ UNCHANGED queue

Next == (\E m \in Msgs : Put(m)) \/ Take \/ Done

Spec == Init /\ [][Next]_vars
=============================================================================
