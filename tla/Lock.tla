---------------------------------- MODULE Lock ----------------------------------
(***************************************************************************)
(* What the users of a semaphore rely on: a recursive lock that is granted *)
(* in the order of the requests.  A process that finds the lock taken, or  *)
(* promised to others, waits in line; the lock goes to the first in line   *)
(* when nobody is inside.  A process that is inside may try to enter again *)
(* at any time; if it insists on it while others are in line, everything   *)
(* may start over.                                                         *)
(***************************************************************************)
EXTENDS Naturals, Sequences

CONSTANTS Process, Semaphore

VARIABLES
  held,   \* held[s][p]: how many times p has entered s and not left it
  line    \* line[s]: the processes waiting for s, first come first served

Init ==
  /\ held = [s \in Semaphore |-> [p \in Process |-> 0]]
  /\ line = [s \in Semaphore |-> <<>>]

Inside(p, s) == held[s][p] > 0

Empty(s) == \A p \in Process : ~Inside(p, s)

Enter(p, s) ==
  /\ Inside(p, s) \/ (Empty(s) /\ line[s] = <<>>)
  /\ held' = [held EXCEPT ![s][p] = @ + 1]
  /\ UNCHANGED line

Queue(p, s) ==
  /\ ~Inside(p, s)
  /\ ~Empty(s) \/ line[s] # <<>>
  /\ line' = [line EXCEPT ![s] = Append(@, p)]
  /\ UNCHANGED held

Grant(s) ==
  /\ Empty(s)
  /\ line[s] # <<>>
  /\ held' = [held EXCEPT ![s][Head(line[s])] = 1]
  /\ line' = [line EXCEPT ![s] = Tail(@)]

Leave(p, s) ==
  /\ Inside(p, s)
  /\ held' = [held EXCEPT ![s][p] = @ - 1]
  /\ UNCHANGED line

StartOver(p, s) ==
  /\ Inside(p, s)
  /\ line[s] # <<>>
  /\ held' = [t \in Semaphore |-> [q \in Process |-> 0]]
  /\ line' = [t \in Semaphore |-> <<>>]

Next ==
  \E s \in Semaphore :
    \/ \E p \in Process : Enter(p, s) \/ Queue(p, s) \/ Leave(p, s) \/ StartOver(p, s)
    \/ Grant(s)

Spec == Init /\ [][Next]_<<held, line>>
===============================================================================
