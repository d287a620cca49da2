-------------------------------- MODULE FifoBuf --------------------------------
(***************************************************************************)
(* The FIFO buffer of bertos/struct/fifobuf.h with one producer and one    *)
(* consumer in concurrent contexts (a process and an interrupt handler, or *)
(* two processes), one memory access at a time, without locks.  "It is     *)
(* safe to call fifo_pop() and fifo_push() from concurrent contexts."      *)
(*                                                                         *)
(* The producer calls fifo_push() when fifo_isfull() says there is room,   *)
(* the consumer fifo_pop() when fifo_isempty() says there is something.    *)
(* The pointers are positions: begin is 0 and end is End.                  *)
(***************************************************************************)
EXTENDS Integers, Sequences

CONSTANTS
  Char,   \* the characters
  End     \* fb->end - fb->begin: the size less one, the capacity

ASSUME FifoAssumption ==
  /\ Char # {}
  /\ End \in Nat \ {0}     \* ASSERT(size > 1)

VARIABLES
  head, tail,  \* fb->head, fb->tail
  buf,         \* the memory from fb->begin to fb->end
  producer,    \* where the producer is
  consumer,    \* where the consumer is
  slot,        \* the position the consumer has still to read, or has read
               \* from fb->tail in fifo_flush()
  c            \* what the last fifo_pop() returned

vars == <<head, tail, buf, producer, consumer, slot, c>>

fifo_init ==
  /\ head = 0
  /\ tail = 0
  /\ buf \in [0..End -> Char]
  /\ producer = "idle"
  /\ consumer = "idle"
  /\ slot = 0
  /\ c \in Char

Forward(i) == IF i = End THEN 0 ELSE i + 1
-----------------------------------------------------------------------------
(* fifo_isfull() reads fb->head, and later reads it again. *)
fifo_isfull_begin ==
  /\ producer = "idle"
  /\ producer' = IF head = 0 /\ tail = End THEN "idle" ELSE "isfull"
  /\ UNCHANGED <<head, tail, buf, consumer, slot, c>>

(* mutant: the buffer is full only when the tail is on the head *)
fifo_isfull_mutant ==
  /\ producer = "isfull"
  /\ producer' = "push"
  /\ UNCHANGED <<head, tail, buf, consumer, slot, c>>

fifo_isfull ==
  /\ producer = "isfull"
  /\ producer' = IF tail = head - 1 THEN "idle" ELSE "push"
  /\ UNCHANGED <<head, tail, buf, consumer, slot, c>>

(* fifo_push() writes the character, then moves the tail. *)
fifo_push_write(ch) ==
  /\ producer = "push"
  /\ buf' = [buf EXCEPT ![tail] = ch]
  /\ producer' = "move"
  /\ UNCHANGED <<head, tail, consumer, slot, c>>

fifo_push ==
  /\ producer = "move"
  /\ tail' = Forward(tail)
  /\ producer' = "idle"
  /\ UNCHANGED <<head, buf, consumer, slot, c>>
-----------------------------------------------------------------------------
fifo_isempty ==
  /\ consumer = "idle"
  /\ head # tail
  /\ consumer' = "pop"
  /\ UNCHANGED <<head, tail, buf, producer, slot, c>>

(* fifo_pop() moves the head, then reads the character it was on. *)
fifo_pop ==
  /\ consumer = "pop"
  /\ slot' = head
  /\ head' = Forward(head)
  /\ consumer' = "read"
  /\ UNCHANGED <<tail, buf, producer, c>>

fifo_pop_read ==
  /\ consumer = "read"
  /\ c' = buf[slot]
  /\ consumer' = "idle"
  /\ UNCHANGED <<head, tail, buf, producer, slot>>

(* fifo_flush() of the consumer reads the tail, then sets the head. *)
fifo_flush_read ==
  /\ consumer = "idle"
  /\ slot' = tail
  /\ consumer' = "flush"
  /\ UNCHANGED <<head, tail, buf, producer, c>>

fifo_flush ==
  /\ consumer = "flush"
  /\ head' = slot
  /\ consumer' = "idle"
  /\ UNCHANGED <<tail, buf, producer, slot, c>>

Next ==
  \/ fifo_isfull_begin
  \/ fifo_isfull
  \/ \E ch \in Char : fifo_push_write(ch)
  \/ fifo_push
  \/ fifo_isempty
  \/ fifo_pop
  \/ fifo_pop_read
  \/ fifo_flush_read
  \/ fifo_flush

Spec == fifo_init /\ [][Next]_vars
-----------------------------------------------------------------------------
TypeOK ==
  /\ head \in 0..End
  /\ tail \in 0..End
  /\ buf \in [0..End -> Char]
  /\ producer \in {"idle", "isfull", "push", "move"}
  /\ consumer \in {"idle", "pop", "read", "flush"}
  /\ slot \in 0..End
  /\ c \in Char

(* The distance from position i forward to position j. *)
Distance(i, j) == IF i <= j THEN j - i ELSE j - i + End + 1

Count == Distance(head, tail)

(* The two contexts never meet: the producer writes only to a position     *)
(* that holds no character, the consumer takes a character only when there *)
(* is one, and what fifo_pop() is about to read has not been overwritten,  *)
(* although it has already given the position back; fifo_flush() only      *)
(* moves the head over characters.                                         *)
Apart ==
  /\ producer \in {"push", "move"} => Count < End
  /\ consumer = "pop" => Count > 0
  /\ consumer = "read" => head = Forward(slot)
  /\ consumer = "flush" => Distance(head, slot) <= Count

(* The inductive form adds what the first read of fifo_isfull() has        *)
(* learned: when the tail is at the end, the head is not at the beginning, *)
(* and it cannot get there before the tail moves.                          *)
IInv ==
  /\ TypeOK
  /\ Apart
  /\ producer = "isfull" /\ tail = End => head # 0

(* The n characters of b from position h on. *)
Slice(b, h, n) ==
  [i \in 1..n |-> b[IF h + i - 1 <= End THEN h + i - 1 ELSE h + i - 2 - End]]

Contents == Slice(buf, head, Count)

(* The consumer has the character as soon as the head has moved. *)
Queue == INSTANCE FifoQueue
           WITH q <- Contents, got <- IF consumer = "read" THEN buf[slot] ELSE c,
                Capacity <- End

(* The buffer is a bounded queue: every access to memory is a Put, a Take, *)
(* a Discard, or nothing.                                                  *)
ImplementsQueue == Queue!Spec
===============================================================================
