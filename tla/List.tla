--------------------------------- MODULE List ---------------------------------
(***************************************************************************)
(* The doubly-linked lists of bertos/struct/list.h, in which the kernel    *)
(* keeps its processes and the timers their queue.  A list is the sequence *)
(* of its nodes.  The place of a node is its position, and the place of    *)
(* the tail of the list, where FOREACH_NODE() ends, is the position after  *)
(* the last node.                                                          *)
(***************************************************************************)
EXTENDS Integers, Sequences, FiniteSetsExt

Contains(l, n) == \E i \in 1..Len(l) : l[i] = n

(* Every node is in the list at most once. *)
Distinct(l) == \A i, j \in 1..Len(l) : l[i] = l[j] => i = j

(* Where FOREACH_NODE(ln, l) is left: at the first of the places where the *)
(* body says "break", at the tail when there is none.                      *)
FOREACH_NODE(l, breaks) == Min(breaks \cup {Len(l) + 1})

(* The node n goes before the node, or the tail, that is at place i. *)
INSERT_BEFORE(l, i, n) == SubSeq(l, 1, i - 1) \o <<n>> \o SubSeq(l, i, Len(l))

(* The node n goes before the one where the loop is left: what             *)
(* LIST_ENQUEUE(), LIST_ENQUEUE_HEAD() and timer_addToList() do.           *)
InsertBefore(l, n, breaks) == INSERT_BEFORE(l, FOREACH_NODE(l, breaks), n)

REMOVE(l, n) ==
  LET i == FOREACH_NODE(l, {j \in 1..Len(l) : l[j] = n})
  IN  SubSeq(l, 1, i - 1) \o SubSeq(l, i + 1, Len(l))
=============================================================================
