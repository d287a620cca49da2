------------------------------- MODULE FifoQueue -------------------------------
(***************************************************************************)
(* What a FIFOBuffer promises to the producer and the consumer: a bounded  *)
(* queue of characters, from which the consumer takes them one at a time   *)
(* and in order, or discards the ones that are there.                      *)
(***************************************************************************)
EXTENDS Integers, Sequences

CONSTANTS
  Char,      \* the characters
  Capacity   \* how many of them fit

VARIABLES
  q,         \* the characters in the queue
  got        \* the character the consumer has taken last

Init == q = <<>> /\ got \in Char

Put(c) ==
  /\ Len(q) < Capacity
  /\ q' = Append(q, c)
  /\ UNCHANGED got

Take ==
  /\ q # <<>>
  /\ q' = Tail(q)
  /\ got' = Head(q)

Discard ==
  /\ \E n \in 0..Len(q) : q' = SubSeq(q, n + 1, Len(q))
  /\ UNCHANGED got

Next ==
  \/ \E c \in Char : Put(c)
  \/ Take
  \/ Discard

Spec == Init /\ [][Next]_<<q, got>>
===============================================================================
