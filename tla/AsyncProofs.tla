------------------------------ MODULE AsyncProofs ------------------------------
(***************************************************************************)
(* Theorems about the parts that something outside the process drives: an  *)
(* interrupt handler, a timer that expires, or the network.                *)
(*                                                                         *)
(* The preemption counter and the FIFO buffer are shared without a lock,   *)
(* one memory access at a time.  The counter is exact for any set of       *)
(* processes and any nesting of forbidden sections.  A FIFOBuffer of any   *)
(* size is safe with one producer and one consumer, and it is a bounded    *)
(* queue to them.                                                          *)
(*                                                                         *)
(* Events and waits with a timeout, for any number of events: a call       *)
(* reports what happened, its timer never outlives it and leaves no signal *)
(* behind, and nobody sleeps through what it waits for.                    *)
(*                                                                         *)
(* The boot loader writes a firmware page by page in its place, and runs   *)
(* only a whole one, whatever the network does with the datagrams.         *)
(***************************************************************************)
EXTENDS FifoBuf, Preempt, Event, Boot, SequenceTheorems, TLAPS

(* The preemption counter.                                                 *)

(* At the start no section is open and nobody has read the counter. *)
LEMMA CountInitially == CountInit => CountInv
  BY DEF CountInit, CountInv, CountTypes, CountExact, ReadStillValid

(* Every step of a process, and every context switch, keeps CountInv. *)
LEMMA CountStep == CountInv /\ [CountNext]_countVars => CountInv'
<1> SUFFICES ASSUME CountInv, [CountNext]_countVars
             PROVE  CountInv'
    OBVIOUS
<1> USE DEF CountInv, CountTypes, CountExact, ReadStillValid
<1>1. ASSUME NEW p \in Process, proc_forbid_read(p)
      PROVE  CountInv'
    BY <1>1 DEF proc_forbid_read, ReadCount
<1>2. ASSUME NEW p \in Process, proc_forbid_write(p)
      PROVE  CountInv'
    BY <1>2 DEF proc_forbid_write, WriteCount
<1>3. ASSUME NEW p \in Process, proc_permit_read(p)
      PROVE  CountInv'
    BY <1>3 DEF proc_permit_read, ReadCount
<1>4. ASSUME NEW p \in Process, proc_permit_write(p)
      PROVE  CountInv'
    BY <1>4 DEF proc_permit_write, WriteCount
<1>5. ASSUME NEW q \in Process, context_switch(q)
      PROVE  CountInv'
  <2>1. count = 0 /\ count' = 0 /\ current' = q /\ q # current
    BY <1>5 DEF context_switch, proc_preemptAllowed
  <2>2. UNCHANGED <<step, reg, depth>>
    BY <1>5 DEF context_switch
  <2>3. \A p \in Process : depth[p] = 0
    BY <2>1, Zenon
  <2>4. \A p \in Process : step[p] \in {"run", "forbid"} /\ (step[p] = "forbid" => reg[p] = 0)
    BY <2>1
  <2> QED
    BY <2>1, <2>2, <2>3, <2>4
<1>6. CASE UNCHANGED countVars
    BY <1>6 DEF countVars
<1> QED
    BY <1>1, <1>2, <1>3, <1>4, <1>5, <1>6 DEF CountNext

(* preempt_count is the number of open sections of the running process,    *)
(* and no other process is in one, whatever the interrupts do between the  *)
(* read and the write of ++preempt_count and --preempt_count.              *)
THEOREM CounterExact == CountSpec => []CountExact
<1>1. CountInv => CountExact
    BY DEF CountInv
<1> QED
    BY CountInitially, CountStep, <1>1, PTL DEF CountSpec

(* The claim of the comment in proc_forbid(): a value read before losing   *)
(* the CPU is valid when it is written back.                               *)
THEOREM ReadValid == CountSpec => []ReadStillValid
<1>1. CountInv => ReadStillValid
    BY DEF CountInv
<1> QED
    BY CountInitially, CountStep, <1>1, PTL DEF CountSpec

(* The same as an inductive invariant: in particular a process that has    *)
(* lost the CPU between the two accesses of ++preempt_count has read 0,    *)
(* and none loses it between those of --preempt_count.                     *)
THEOREM CounterInvariant == CountSpec => []CountInv
    BY CountInitially, CountStep, PTL DEF CountSpec

-----------------------------------------------------------------------------
(* The FIFO buffer.                                                        *)

USE FifoAssumption

(* fifo_init() makes a buffer where producer and consumer are apart. *)
LEMMA InitIInv == fifo_init => IInv
  BY DEF fifo_init, IInv, TypeOK, Apart, Count, Distance

(* Every access to memory keeps IInv. *)
LEMMA NextIInv == IInv /\ [Next]_vars => IInv'
<1> SUFFICES ASSUME IInv, [Next]_vars
             PROVE  IInv'
    OBVIOUS
<1> USE DEF IInv, TypeOK, Apart, Count, Distance, Forward
<1>1. CASE fifo_isfull_begin
    BY <1>1 DEF fifo_isfull_begin
<1>2. CASE fifo_isfull
    BY <1>2 DEF fifo_isfull
<1>3. ASSUME NEW ch \in Char, fifo_push_write(ch)
      PROVE  IInv'
    BY <1>3 DEF fifo_push_write
<1>4. CASE fifo_push
    BY <1>4 DEF fifo_push
<1>5. CASE fifo_isempty
    BY <1>5 DEF fifo_isempty
<1>6. CASE fifo_pop
    BY <1>6 DEF fifo_pop
<1>7. CASE fifo_pop_read
    BY <1>7 DEF fifo_pop_read
<1>8. CASE fifo_flush_read
    BY <1>8 DEF fifo_flush_read
<1>9. CASE fifo_flush
    BY <1>9 DEF fifo_flush
<1>10. CASE UNCHANGED vars
    BY <1>10 DEF vars
<1> QED
    BY <1>1, <1>2, <1>3, <1>4, <1>5, <1>6, <1>7, <1>8, <1>9, <1>10, Zenon DEF Next

(* The producer and the consumer are safe in each other's presence: what   *)
(* the notes of fifo_push() and fifo_pop() promise, for every size.        *)
THEOREM Safe == Spec => []IInv
  BY InitIInv, NextIInv, PTL DEF Spec
-----------------------------------------------------------------------------
(* The contents are a sequence of characters. *)
LEMMA SliceIsSeq ==
  ASSUME NEW b \in [0..End -> Char], NEW h \in 0..End, NEW n \in 0..End
  PROVE  /\ Slice(b, h, n) \in Seq(Char)
         /\ Len(Slice(b, h, n)) = n
         /\ \A i \in 1..n :
              Slice(b, h, n)[i] = b[IF h + i - 1 <= End THEN h + i - 1 ELSE h + i - 2 - End]
<1>1. \A i \in 1..n : b[IF h + i - 1 <= End THEN h + i - 1 ELSE h + i - 2 - End] \in Char
    OBVIOUS
<1> QED
    BY <1>1 DEF Slice

(* Writing outside of it leaves a slice alone. *)
LEMMA SliceWrite ==
  ASSUME NEW b \in [0..End -> Char], NEW h \in 0..End, NEW t \in 0..End, NEW ch \in Char
  PROVE  Slice([b EXCEPT ![t] = ch], h, Distance(h, t)) = Slice(b, h, Distance(h, t))
  BY DEF Slice, Distance

(* Moving the tail one position forward makes the distance one longer,     *)
(* unless the buffer is full.                                              *)
LEMMA DistanceForward ==
  ASSUME NEW h \in 0..End, NEW t \in 0..End, Distance(h, t) < End
  PROVE  /\ Distance(h, t) \in 0..End
         /\ Distance(h, Forward(t)) \in 0..End
         /\ Distance(h, Forward(t)) = Distance(h, t) + 1
  BY DEF Distance, Forward

(* A slice that grows by the character that follows it. *)
LEMMA SliceAppend ==
  ASSUME NEW b \in [0..End -> Char], NEW h \in 0..End, NEW n \in 0..(End - 1)
  PROVE  Slice(b, h, n + 1) =
           Append(Slice(b, h, n), b[IF h + n <= End THEN h + n ELSE h + n - 1 - End])
<1> DEFINE s == Slice(b, h, n)
           r == Slice(b, h, n + 1)
           e == b[IF h + n <= End THEN h + n ELSE h + n - 1 - End]
<1>1. /\ s \in Seq(Char) /\ Len(s) = n
      /\ \A i \in 1..n : s[i] = b[IF h + i - 1 <= End THEN h + i - 1 ELSE h + i - 2 - End]
  <2>1. n \in 0..End
    OBVIOUS
  <2> QED
    BY <2>1, SliceIsSeq, Zenon
<1>2. /\ r \in Seq(Char) /\ Len(r) = n + 1
      /\ \A i \in 1..(n + 1) :
           r[i] = b[IF h + i - 1 <= End THEN h + i - 1 ELSE h + i - 2 - End]
  <2>1. n + 1 \in 0..End
    OBVIOUS
  <2> QED
    BY <2>1, SliceIsSeq, Zenon
<1>3. e \in Char
    OBVIOUS
<1>4. r[n + 1] = e
    BY <1>2
<1>5. \A i \in 1..n : r[i] = s[i]
    BY <1>1, <1>2
<1> HIDE DEF s, r, e
<1>6. Append(s, e) \in Seq(Char) /\ Len(Append(s, e)) = n + 1
    BY <1>1, <1>3
<1>7. \A i \in 1..(n + 1) : r[i] = Append(s, e)[i]
    BY <1>1, <1>3, <1>4, <1>5
<1>8. r = Append(s, e)
    BY <1>2, <1>6, <1>7, SeqEqual
<1> QED
    BY <1>8 DEF s, r, e

(* A slice that loses k characters at the front is a suffix of what it was.*)
LEMMA SliceDrop ==
  ASSUME NEW b \in [0..End -> Char], NEW h \in 0..End, NEW n \in 0..End, NEW k \in 0..n,
         NEW g \in 0..End, g = (IF h + k <= End THEN h + k ELSE h + k - 1 - End)
  PROVE  Slice(b, g, n - k) = SubSeq(Slice(b, h, n), k + 1, n)
<1> DEFINE s == Slice(b, h, n)
           r == Slice(b, g, n - k)
           u == SubSeq(s, k + 1, n)
<1>1. /\ s \in Seq(Char) /\ Len(s) = n
      /\ \A i \in 1..n : s[i] = b[IF h + i - 1 <= End THEN h + i - 1 ELSE h + i - 2 - End]
    BY SliceIsSeq, Zenon
<1>2. /\ r \in Seq(Char) /\ Len(r) = n - k
      /\ \A i \in 1..(n - k) :
           r[i] = b[IF g + i - 1 <= End THEN g + i - 1 ELSE g + i - 2 - End]
  <2>1. n - k \in 0..End
    OBVIOUS
  <2> QED
    BY <2>1, SliceIsSeq, Zenon
<1>3. \A i \in 1..(n - k) : r[i] = s[k + i]
    BY <1>1, <1>2
<1> HIDE DEF s, r
<1>4. \A i \in (k + 1)..n : s[i] \in Char
    BY <1>1
<1>5. /\ u \in Seq(Char)
      /\ Len(u) = n - k
      /\ \A i \in 1..(n - k) : u[i] = s[k + i]
    BY <1>4, SubSeqProperties
<1> HIDE DEF u
<1>6. r = u
    BY <1>2, <1>3, <1>5, SeqEqual, Zenon
<1> QED
    BY <1>6 DEF r, s, u
-----------------------------------------------------------------------------
(* What the consumer has got, in terms of the buffer. *)
Got == IF consumer = "read" THEN buf[slot] ELSE c

(* Every step of the buffer is a step of the queue, or leaves it alone. *)
LEMMA NextQueue ==
  ASSUME IInv, [Next]_vars
  PROVE  \/ \E ch \in Char : Queue!Put(ch)
         \/ Queue!Take
         \/ Queue!Discard
         \/ UNCHANGED <<Contents, Got>>
<1>0. /\ head \in 0..End /\ tail \in 0..End /\ slot \in 0..End
      /\ Count \in 0..End
      /\ buf \in [0..End -> Char]
    BY DEF IInv, TypeOK, Count, Distance
<1>1. Contents \in Seq(Char) /\ Len(Contents) = Count
    BY <1>0, SliceIsSeq, Zenon DEF Contents
<1>2. CASE UNCHANGED <<head, tail, buf, c>> /\ (consumer = "read" <=> consumer' = "read") /\ (consumer = "read" => slot' = slot)
    BY <1>2 DEF Contents, Count, Distance, Got
<1>3. ASSUME NEW ch \in Char, fifo_push_write(ch)
      PROVE  UNCHANGED <<Contents, Got>>
  <2>1. buf' = [buf EXCEPT ![tail] = ch] /\ UNCHANGED <<head, tail, consumer, slot, c>> /\ Count < End
    BY <1>3 DEF fifo_push_write, IInv, Apart
  <2>2. Contents' = Contents
    BY <1>0, <2>1, SliceWrite, Zenon DEF Contents, Count
  <2>3. consumer = "read" => slot # tail
    BY <1>0, <2>1 DEF IInv, Apart, Count, Distance, Forward
  <2>4. Got' = Got
    BY <1>0, <2>1, <2>3 DEF Got
  <2> QED
    BY <2>2, <2>4
<1>4. ASSUME fifo_push
      PROVE  \E ch \in Char : Queue!Put(ch)
  <2>1. tail' = Forward(tail) /\ UNCHANGED <<head, buf, consumer, slot, c>> /\ Count < End
    BY <1>4 DEF fifo_push, IInv, Apart
  <2>2. Count' = Count + 1 /\ Count \in 0..(End - 1)
    BY <1>0, <2>1 DEF Count, Distance, Forward
  <2>3. tail = IF head + Count <= End THEN head + Count ELSE head + Count - 1 - End
    BY <1>0 DEF Count, Distance
  <2>4. Contents' = Append(Contents, buf[tail])
    BY <1>0, <2>1, <2>2, <2>3, SliceAppend, Zenon DEF Contents
  <2>5. buf[tail] \in Char /\ Len(Contents) < End
    BY <1>0, <1>1, <2>2
  <2>6. Got' = Got
    BY <2>1 DEF Got
  <2> QED
    BY <2>4, <2>5, <2>6 DEF Queue!Put, Got
<1>5. ASSUME fifo_pop
      PROVE  Queue!Take
  <2>1. head' = Forward(head) /\ slot' = head /\ consumer' = "read" /\ UNCHANGED <<tail, buf, c>>
        /\ Count > 0
    BY <1>5 DEF fifo_pop, IInv, Apart
  <2>2. PICK k \in 0..Count : k = 1
    BY <1>0, <2>1
  <2>3. /\ Count' = Count - k
        /\ head' \in 0..End
        /\ head' = IF head + k <= End THEN head + k ELSE head + k - 1 - End
    BY <1>0, <2>1, <2>2 DEF Count, Distance, Forward
  <2>4. Contents' = SubSeq(Contents, k + 1, Count)
    <3>1. Slice(buf, head', Count - k) = SubSeq(Slice(buf, head, Count), k + 1, Count)
      BY SMTT(40), <1>0, <2>3, SliceDrop
    <3> QED
      BY <2>1, <2>3, <3>1 DEF Contents
  <2>5. Contents # <<>> /\ Contents' = Tail(Contents)
    BY <1>1, <2>1, <2>2, <2>4, TailIsSubSeq
  <2>6. Head(Contents) = buf[head]
    <3>1. Contents[1] = buf[head]
      BY <1>0, <2>1 DEF Contents, Slice
    <3> QED
      BY <1>1, <2>5, <3>1
  <2>7. Got' = buf[head]
    BY <2>1 DEF Got
  <2> QED
    BY <2>5, <2>6, <2>7 DEF Queue!Take, Got
<1>6. ASSUME fifo_flush
      PROVE  Queue!Discard
  <2>1. head' = slot /\ consumer = "flush" /\ consumer' = "idle" /\ UNCHANGED <<tail, buf, c>>
        /\ Distance(head, slot) <= Count
    BY <1>6 DEF fifo_flush, IInv, Apart
  <2>2. /\ Distance(head, slot) \in 0..Count
        /\ Count' = Count - Distance(head, slot)
        /\ slot = IF head + Distance(head, slot) <= End THEN head + Distance(head, slot)
                  ELSE head + Distance(head, slot) - 1 - End
    BY <1>0, <2>1 DEF Count, Distance
  <2>3. Contents' = SubSeq(Contents, Distance(head, slot) + 1, Count)
    <3>1. PICK k \in 0..Count : k = Distance(head, slot)
      BY <2>2
    <3>2. slot = IF head + k <= End THEN head + k ELSE head + k - 1 - End
      BY <2>2, <3>1
    <3>3. Slice(buf, slot, Count - k) = SubSeq(Slice(buf, head, Count), k + 1, Count)
      BY SMTT(40), <1>0, <3>2, SliceDrop
    <3> QED
      BY <2>1, <2>2, <3>1, <3>3 DEF Contents
  <2>4. Got' = Got
    BY <2>1 DEF Got
  <2> QED
    BY <1>1, <2>2, <2>3, <2>4, Zenon DEF Queue!Discard, Got
<1>7. CASE fifo_pop_read
    BY <1>7 DEF fifo_pop_read, Contents, Count, Got
<1>8. CASE fifo_isfull_begin \/ fifo_isfull \/ fifo_isempty \/ fifo_flush_read \/ UNCHANGED vars
    BY <1>8, <1>2 DEF fifo_isfull_begin, fifo_isfull, fifo_isempty, fifo_flush_read, vars
<1> QED
    BY <1>3, <1>4, <1>5, <1>6, <1>7, <1>8 DEF Next

(* A FIFOBuffer of any size, with one producer and one consumer that race, *)
(* is a bounded queue: nothing is lost, made up, duplicated or reordered.  *)
THEOREM IsQueue == Spec => ImplementsQueue
<1>1. fifo_init => Queue!Init
  <2>1. SUFFICES ASSUME fifo_init PROVE Contents = <<>> /\ Got \in Char
    BY DEF Queue!Init, Got
  <2>2. Count = 0
    BY <2>1 DEF fifo_init, Count, Distance
  <2> QED
    BY <2>1, <2>2 DEF fifo_init, Contents, Slice, Got
<1>2. IInv /\ [Next]_vars => [Queue!Next]_<<Contents, Got>>
    BY NextQueue DEF Queue!Next
<1> QED
    BY <1>1, <1>2, InitIInv, NextIInv, PTL DEF Spec, ImplementsQueue, Queue!Spec, Got

-----------------------------------------------------------------------------
(* Events.                                                                 *)

(* The bits of event_select() stay below those of the timeouts.            *)
FewEvents == \A n \in Lengths : n <= SIG_SINGLE

Timed == {"waitTimeout", "selectTimeout"}

Bits == 0..7
InCall == at \in {"arm", "wait", "sleep", "stop"}

EventTypes ==
  /\ recv \in [Signals -> SUBSET Bits]
  /\ wait \in [Signals -> SUBSET Bits]
  /\ multiple \in [Events -> BOOLEAN]
  /\ bit \in [Events -> Bits]
  /\ armed \in SUBSET (Signals \X Bits)
  /\ at \in {"user", "arm", "wait", "sleep", "stop"}
  /\ call.sig \in Signals
  /\ call.mask \in SUBSET Bits
  /\ InCall => call.mask # {}

(* The sleeper's mask is the one of its call until a signal clears it.     *)
WakeInv ==
  at = "sleep" => \/ wait[call.sig] = {} /\ recv[call.sig] \cap call.mask # {}
                  \/ wait[call.sig] = call.mask /\ recv[call.sig] \cap call.mask = {}

(* An event posts to its own Signal until event_select() maps it, and then *)
(* to that of the process with its index.                                  *)
Mapped ==
  \A e \in Events : /\ multiple[e] => bit[e] = e /\ e < SIG_SINGLE
                                      /\ EVENT_GENERIC_SIGNAL \notin recv[e]
                    /\ ~multiple[e] => bit[e] = EVENT_GENERIC_SIGNAL

(* A signal stands for an event that has happened and was not reported.    *)
Stands ==
  /\ \A e \in Events : EVENT_GENERIC_SIGNAL \in recv[e] => e \in pending
  /\ \A b \in recv[Own] : b < SIG_SINGLE => b \in Events /\ b \in pending /\ multiple[b]

CallShape ==
  InCall =>
    \/ /\ call.op \in {"wait", "waitTimeout"}
       /\ call.sig \in Events
       /\ call.on = {call.sig}
       /\ call.mask = {EVENT_GENERIC_SIGNAL} \cup (IF call.op \in Timed THEN {SIG_TIMEOUT} ELSE {})
    \/ /\ call.op \in {"select", "selectTimeout"}
       /\ call.sig = Own
       /\ call.on \subseteq Events /\ call.on \subseteq 0..(SIG_SINGLE - 1)
       /\ call.mask = call.on \cup (IF call.op \in Timed THEN {SIG_TIMEOUT} ELSE {})
    \/ /\ call.op = "delay"
       /\ call.sig = Own
       /\ call.on = {}
       /\ call.mask = {SIG_SINGLE}

(* What the timer on the stack posts.                                      *)
TimerBit == IF call.op = "delay" THEN SIG_SINGLE ELSE SIG_TIMEOUT

NoTimerSignal == \A s \in Signals : SIG_TIMEOUT \notin recv[s] /\ SIG_SINGLE \notin recv[s]

OnlyMine ==
  /\ TimerBit \in recv[call.sig]
  /\ \A s \in Signals, b \in {SIG_TIMEOUT, SIG_SINGLE} :
       b \in recv[s] => s = call.sig /\ b = TimerBit

Added == at \in {"wait", "sleep", "stop"} /\ call.op \in Timed \cup {"delay"}

(* Once added, the timer is queued or its signal is there, never both; and *)
(* no other signal of a timer is anywhere.                                 *)
TimerInv ==
  /\ at = "arm" => call.op \in Timed \cup {"delay"}
  /\ at = "stop" => call.op \in Timed
  /\ IF Added
     THEN \/ armed = {<<call.sig, TimerBit>>} /\ NoTimerSignal
          \/ armed = {} /\ OnlyMine
     ELSE armed = {} /\ NoTimerSignal

EventInv == Mapped /\ Stands /\ CallShape /\ TimerInv /\ OnlyWhatHappened
-----------------------------------------------------------------------------
(* The lowest and the highest bit of a mask.                               *)
LEMMA LowestAndHighest ==
  ASSUME NEW m \in SUBSET Bits, m # {}
  PROVE  Min(m) \in m /\ Max(m) \in m
<1>1. \E x \in m : \A y \in m : x <= y
  <2> SUFFICES ASSUME \A x \in m : \E y \in m : y < x
               PROVE  FALSE
    BY DEF Bits
  <2>1. m \subseteq Int /\ \A x \in m : 0 <= x /\ x <= 7
    BY DEF Bits
  <2>2. 0 \notin m
    BY <2>1
  <2>3. 1 \notin m
    BY <2>1, <2>2
  <2>4. 2 \notin m
    BY <2>1, <2>2, <2>3
  <2>5. 3 \notin m
    BY <2>1, <2>2, <2>3, <2>4
  <2>6. 4 \notin m
    BY <2>1, <2>2, <2>3, <2>4, <2>5
  <2>7. 5 \notin m
    BY <2>1, <2>2, <2>3, <2>4, <2>5, <2>6
  <2>8. 6 \notin m
    BY <2>1, <2>2, <2>3, <2>4, <2>5, <2>6, <2>7
  <2>9. 7 \notin m
    BY <2>1, <2>2, <2>3, <2>4, <2>5, <2>6, <2>7, <2>8
  <2>10. PICK z \in m : TRUE
    OBVIOUS
  <2> QED
    BY <2>1, <2>2, <2>3, <2>4, <2>5, <2>6, <2>7, <2>8, <2>9, <2>10
<1>2. \E x \in m : \A y \in m : y <= x
  <2> SUFFICES ASSUME \A x \in m : \E y \in m : x < y
               PROVE  FALSE
    BY DEF Bits
  <2>1. m \subseteq Int /\ \A x \in m : 0 <= x /\ x <= 7
    BY DEF Bits
  <2>2. 7 \notin m
    BY <2>1
  <2>3. 6 \notin m
    BY <2>1, <2>2
  <2>4. 5 \notin m
    BY <2>1, <2>2, <2>3
  <2>5. 4 \notin m
    BY <2>1, <2>2, <2>3, <2>4
  <2>6. 3 \notin m
    BY <2>1, <2>2, <2>3, <2>4, <2>5
  <2>7. 2 \notin m
    BY <2>1, <2>2, <2>3, <2>4, <2>5, <2>6
  <2>8. 1 \notin m
    BY <2>1, <2>2, <2>3, <2>4, <2>5, <2>6, <2>7
  <2>9. 0 \notin m
    BY <2>1, <2>2, <2>3, <2>4, <2>5, <2>6, <2>7, <2>8
  <2>10. PICK z \in m : TRUE
    OBVIOUS
  <2> QED
    BY <2>1, <2>2, <2>3, <2>4, <2>5, <2>6, <2>7, <2>8, <2>9, <2>10
<1>3. Min(m) \in m
  BY <1>1 DEF Min
<1>4. Max(m) \in m
  BY <1>2 DEF Max
<1> QED
  BY <1>3, <1>4

LEMMA ConstantTypes ==
  /\ Events \subseteq Nat /\ Events \subseteq Signals /\ Own \in Signals /\ Own \notin Events
  /\ \A e \in Waited \cup Firing : e \in Events
  /\ \A n \in Lengths : 0..(n - 1) \subseteq Events /\ 0..(n - 1) \subseteq Bits /\ n - 1 \in Nat
  BY EventAssumption DEF EventAssumption, Events, Own, Signals, Bits

(* sig_postSignal() wakes up whoever waits for the signal, and only them.  *)
LEMMA PostWakes ==
  ASSUME EventTypes, WakeInv, NEW s \in Signals, NEW b \in Bits, sig_postSignal(s, b),
         armed' \in {armed, {}}, UNCHANGED <<multiple, bit, at, call>>
  PROVE  EventTypes' /\ WakeInv'
<1>1. EventTypes'
  BY DEF EventTypes, sig_postSignal, InCall
<1>2. WakeInv'
  BY DEF EventTypes, WakeInv, sig_postSignal
<1> QED
  BY <1>1, <1>2

LEMMA WakeStep ==
  ASSUME EventTypes, WakeInv, [EventNext]_eventVars
  PROVE  EventTypes' /\ WakeInv'
<1> USE DEF EVENT_GENERIC_SIGNAL, SIG_SINGLE, SIG_TIMEOUT
<1>1. CASE UNCHANGED eventVars
  BY <1>1 DEF eventVars, EventTypes, WakeInv, InCall
<1>2. ASSUME NEW e \in Waited, event_wait(e)
      PROVE  EventTypes' /\ WakeInv'
  <2>1. /\ call'.sig \in Signals /\ call'.mask \in SUBSET Bits /\ call'.mask # {}
    <3>1. e \in Signals
      BY ConstantTypes, Zenon
    <3> QED
      BY <1>2, <3>1 DEF event_wait, Enter, Bits
  <2> QED
    BY <1>2, <2>1 DEF event_wait, EventTypes, WakeInv
<1>3. ASSUME NEW e \in Waited, event_waitTimeout(e)
      PROVE  EventTypes' /\ WakeInv'
  <2>1. /\ call'.sig \in Signals /\ call'.mask \in SUBSET Bits /\ call'.mask # {}
    <3>1. e \in Signals
      BY ConstantTypes, Zenon
    <3> QED
      BY <1>3, <3>1 DEF event_waitTimeout, Enter, Bits
  <2>2. /\ recv' \in [Signals -> SUBSET Bits] /\ at' \in {"user", "arm"}
        /\ UNCHANGED <<wait, multiple, bit, armed>>
    BY <1>3 DEF event_waitTimeout, EventTypes, Calling
  <2> QED
    BY <2>1, <2>2 DEF EventTypes, WakeInv
<1>4. ASSUME NEW n \in Lengths, NEW op \in {"select", "selectTimeout"}, event_select(n, op)
      PROVE  EventTypes' /\ WakeInv'
  <2>1. 0..(n - 1) \in SUBSET Bits /\ 0..(n - 1) # {} /\ Own \in Signals
    BY ConstantTypes
  <2>2. /\ call'.sig \in Signals /\ call'.mask \in SUBSET Bits /\ call'.mask # {}
    BY <1>4, <2>1 DEF event_select, Enter, Bits
  <2>3. /\ recv' \in [Signals -> SUBSET Bits] /\ at' \in {"user", "arm", "wait"}
        /\ multiple' \in [Events -> BOOLEAN] /\ bit' \in [Events -> Bits]
        /\ UNCHANGED <<wait, armed>>
    <3>1. at' \in {"user", "arm", "wait"} /\ UNCHANGED <<wait, armed>>
      BY <1>4 DEF event_select, EventTypes, Calling
    <3>2. recv' \in [Signals -> SUBSET Bits]
      BY <1>4 DEF event_select, EventTypes
    <3>3. multiple' \in [Events -> BOOLEAN]
      BY <1>4, Zenon DEF event_select, EventTypes
    <3>4. bit' \in [Events -> Bits]
      BY <1>4, <2>1 DEF event_select, EventTypes
    <3> QED
      BY <3>1, <3>2, <3>3, <3>4
  <2> QED
    BY <2>2, <2>3 DEF EventTypes, WakeInv
<1>5. CASE timer_delayTicks
  <2>1. /\ call'.sig \in Signals /\ call'.mask \in SUBSET Bits /\ call'.mask # {}
    BY <1>5, ConstantTypes DEF timer_delayTicks, Enter, Bits
  <2> QED
    BY <1>5, <2>1, Zenon DEF timer_delayTicks, EventTypes, WakeInv
<1>6. CASE timer_add
  BY <1>6 DEF timer_add, EventTypes, WakeInv, InCall, Bits
<1>7. CASE sig_waitSignal
  <2> DEFINE got == recv[call.sig] \cap call.mask
  <2>1. UNCHANGED <<multiple, bit, armed, call>> /\ at \in {"wait", "sleep"}
    BY <1>7 DEF sig_waitSignal
  <2>2. CASE got # {}
    BY <1>7, <2>1, <2>2 DEF sig_waitSignal, EventTypes, WakeInv, InCall
  <2>3. CASE got = {}
    BY <1>7, <2>1, <2>3 DEF sig_waitSignal, EventTypes, WakeInv, InCall
  <2> QED
    BY <2>2, <2>3
<1>8. CASE sig_waitTimeoutSignal_stop
  BY <1>8 DEF sig_waitTimeoutSignal_stop, EventTypes, WakeInv, InCall
<1>9. ASSUME NEW e \in Firing, event_do(e)
      PROVE  EventTypes' /\ WakeInv'
  <2>1. PICK s \in Signals, b \in Bits : sig_postSignal(s, b) /\ UNCHANGED <<multiple, bit, armed, at, call>>
    BY <1>9, ConstantTypes, Zenon DEF event_do, EventTypes
  <2> QED
    BY <2>1, PostWakes
<1>10. CASE timer_expires
  <2>1. PICK t \in Signals \X Bits : sig_postSignal(t[1], t[2]) /\ armed' = {}
                                      /\ UNCHANGED <<multiple, bit, at, call>>
    BY <1>10 DEF timer_expires, EventTypes
  <2> QED
    BY <2>1, PostWakes
<1> QED
  BY <1>1, <1>2, <1>3, <1>4, <1>5, <1>6, <1>7, <1>8, <1>9, <1>10 DEF EventNext, Step

(* Whoever sleeps in a wait of an event, a select or a delay is woken up   *)
(* by what it waits for, and is not woken up for nothing.                  *)
THEOREM WakesUp == EventSpec => []NoLostWakeup
<1>1. EventInit => EventTypes /\ WakeInv
  BY ConstantTypes DEF EventInit, EventTypes, WakeInv, InCall, Bits, EVENT_GENERIC_SIGNAL
<1>2. EventTypes /\ WakeInv /\ [EventNext]_eventVars => EventTypes' /\ WakeInv'
  BY WakeStep
<1>3. EventTypes /\ WakeInv => NoLostWakeup
  BY DEF EventTypes, WakeInv, NoLostWakeup, Asleep, InCall
<1> QED
  BY <1>1, <1>2, <1>3, PTL DEF EventSpec
-----------------------------------------------------------------------------
(* The signals of the timers are as they were.                             *)
LEMMA TimerKept ==
  ASSUME EventTypes, TimerInv, UNCHANGED <<armed, at, call>>,
         \A s \in Signals, b \in {SIG_TIMEOUT, SIG_SINGLE} : b \in recv'[s] <=> b \in recv[s]
  PROVE  TimerInv'
<1>1. TimerBit' = TimerBit /\ Added' = Added /\ TimerBit \in {SIG_TIMEOUT, SIG_SINGLE}
  BY DEF TimerBit, Added
<1>2. NoTimerSignal => NoTimerSignal'
  BY DEF NoTimerSignal
<1>3. OnlyMine => OnlyMine'
  BY <1>1 DEF OnlyMine, EventTypes
<1> QED
  BY <1>1, <1>2, <1>3 DEF TimerInv

(* The step of an interrupt that triggers an event.                        *)
LEMMA DoStep ==
  ASSUME EventTypes, EventInv, NEW e \in Events, event_do(e)
  PROVE  EventInv'
<1> USE DEF EVENT_GENERIC_SIGNAL, SIG_SINGLE, SIG_TIMEOUT
<1>1. /\ Events \subseteq Signals /\ Own \in Signals /\ Own \notin Events /\ Events \subseteq Nat
      /\ UNCHANGED <<multiple, bit, armed, at, call, answer>> /\ pending' = pending \cup {e}
  BY ConstantTypes DEF event_do
<1>2. CASE multiple[e]
  <2>1. /\ bit[e] = e /\ e < 4 /\ e \in Nat
        /\ recv' = [recv EXCEPT ![Own] = @ \cup {e}]
    BY <1>1, <1>2, Zenon DEF event_do, sig_postSignal, EventInv, Mapped
  <2>2. Mapped'
    BY <1>1, <2>1, Zenon DEF EventTypes, EventInv, Mapped
  <2>3. Stands'
    BY <1>1, <1>2, <2>1 DEF EventTypes, EventInv, Stands
  <2>4. \A s \in Signals, b \in {SIG_TIMEOUT, SIG_SINGLE} : b \in recv'[s] <=> b \in recv[s]
    BY <1>1, <2>1 DEF EventTypes
  <2>5. TimerInv'
    BY <1>1, <2>4, TimerKept DEF EventInv
  <2> QED
    BY <1>1, <2>2, <2>3, <2>5 DEF EventInv, CallShape, InCall, OnlyWhatHappened
<1>3. CASE ~multiple[e]
  <2>1. /\ bit[e] = 6
        /\ recv' = [recv EXCEPT ![e] = @ \cup {6}]
    BY <1>1, <1>3, Zenon DEF event_do, sig_postSignal, EventInv, Mapped
  <2>2. Mapped'
    BY <1>1, <1>3, <2>1 DEF EventTypes, EventInv, Mapped
  <2>3. Stands'
    BY <1>1, <1>3, <2>1 DEF EventTypes, EventInv, Stands
  <2>4. \A s \in Signals, b \in {SIG_TIMEOUT, SIG_SINGLE} : b \in recv'[s] <=> b \in recv[s]
    BY <1>1, <2>1 DEF EventTypes
  <2>5. TimerInv'
    BY <1>1, <2>4, TimerKept DEF EventInv
  <2> QED
    BY <1>1, <2>2, <2>3, <2>5 DEF EventInv, CallShape, InCall, OnlyWhatHappened
<1> QED
  BY <1>2, <1>3

(* The timer on the stack expires.                                         *)
LEMMA ExpiresStep ==
  ASSUME EventTypes, EventInv, timer_expires
  PROVE  EventInv'
<1> USE DEF EVENT_GENERIC_SIGNAL, SIG_SINGLE, SIG_TIMEOUT
<1>1. PICK t \in armed : /\ sig_postSignal(t[1], t[2]) /\ armed' = {}
                         /\ UNCHANGED <<multiple, bit, at, call, answer, pending>>
  BY DEF timer_expires
<1>2. Added /\ armed = {<<call.sig, TimerBit>>} /\ NoTimerSignal
  BY <1>1 DEF EventInv, TimerInv
<1>3. recv' = [recv EXCEPT ![call.sig] = @ \cup {TimerBit}]
  <2>1. t[1] = call.sig /\ t[2] = TimerBit
    BY <1>1, <1>2
  <2> QED
    BY <1>1, <2>1 DEF sig_postSignal
<1>4. TimerBit \in {4, 7} /\ call.sig \in Signals /\ Events \subseteq Signals /\ Own \in Signals
  BY ConstantTypes DEF TimerBit, EventTypes
<1>5. Mapped' /\ Stands'
  BY <1>1, <1>3, <1>4 DEF EventTypes, EventInv, Mapped, Stands
<1>6. OnlyMine' /\ Added'
  BY <1>1, <1>2, <1>3, <1>4 DEF EventTypes, NoTimerSignal, OnlyMine, TimerBit, Added
<1>7. TimerInv'
  BY <1>1, <1>6 DEF EventInv, TimerInv
<1> QED
  BY <1>1, <1>5, <1>7 DEF EventInv, CallShape, InCall, OnlyWhatHappened

(* A call that finds its event at once reports it and clears its signal.   *)
LEMMA FoundStep ==
  ASSUME EventTypes, EventInv, NEW e \in Events, EVENT_GENERIC_SIGNAL \in recv[e],
         NEW evs, e \in evs, Found(e, evs), at = "user",
         recv' = [recv EXCEPT ![e] = @ \ {EVENT_GENERIC_SIGNAL}],
         UNCHANGED <<multiple, bit, armed, at>>
  PROVE  EventInv'
<1> USE DEF EVENT_GENERIC_SIGNAL, SIG_SINGLE, SIG_TIMEOUT
<1>1. Events \subseteq Signals /\ Own \in Signals /\ Own \notin Events /\ e \in Signals
  BY ConstantTypes
<1>2. e \in pending /\ ~multiple[e]
  BY DEF EventInv, Stands, Mapped
<1>3. /\ answer' = [result |-> e, happened |-> pending \cap evs] /\ pending' = pending \ {e}
  BY DEF Found
<1>4. Mapped'
  BY <1>1, SMTT(30) DEF EventTypes, EventInv, Mapped
<1>5. Stands'
  BY <1>1, <1>2, <1>3 DEF EventTypes, EventInv, Stands
<1>6. armed = {} /\ NoTimerSignal
  BY DEF EventInv, TimerInv, Added
<1>7. TimerInv'
  BY <1>1, <1>6, SMTT(30) DEF EventTypes, TimerInv, Added, NoTimerSignal
<1> QED
  BY <1>2, <1>3, <1>4, <1>5, <1>7 DEF EventInv, OnlyWhatHappened, CallShape, InCall

(* A call that begins to wait: to arm its timer first, or without one.     *)
LEMMA BeginStep ==
  ASSUME EventTypes, EventInv, at = "user", CallShape', Mapped', Stands',
         UNCHANGED <<armed, answer>>,
         \A s \in Signals, b \in {SIG_TIMEOUT, SIG_SINGLE} : b \in recv'[s] => b \in recv[s],
         \/ at' = "arm" /\ call'.op \in Timed \cup {"delay"}
         \/ at' = "wait" /\ call'.op \notin Timed \cup {"delay"}
  PROVE  EventInv'
<1>1. armed = {} /\ NoTimerSignal
  BY DEF EventInv, TimerInv, Added
<1>2. armed' = {} /\ NoTimerSignal' /\ ~Added'
  BY <1>1 DEF NoTimerSignal, Added
<1>3. TimerInv'
  BY <1>2 DEF TimerInv
<1> QED
  BY <1>3 DEF EventInv, OnlyWhatHappened

LEMMA CallStep ==
  ASSUME FewEvents, EventTypes, EventInv,
         \/ \E e \in Waited : event_wait(e) \/ event_waitTimeout(e)
         \/ \E n \in Lengths, op \in {"select", "selectTimeout"} : event_select(n, op)
         \/ timer_delayTicks
  PROVE  EventInv'
<1> USE DEF EVENT_GENERIC_SIGNAL, SIG_SINGLE, SIG_TIMEOUT
<1>1. /\ Events \subseteq Nat /\ Events \subseteq Signals /\ Own \in Signals /\ Own \notin Events
      /\ \A e \in Waited : e \in Events
  BY ConstantTypes
<1>2. ASSUME NEW e \in Waited, event_wait(e)
      PROVE  EventInv'
  <2>1. /\ at = "user" /\ at' = "wait" /\ UNCHANGED <<recv, multiple, bit, armed, answer, pending>>
        /\ call' = [op |-> "wait", on |-> {e}, sig |-> e, mask |-> {6}]
    BY <1>2, SMTT(30) DEF event_wait, Calling, Enter
  <2>2. CallShape' /\ Mapped' /\ Stands'
    BY <1>1, <2>1 DEF EventInv, CallShape, Mapped, Stands, Timed
  <2>3. call'.op \notin Timed \cup {"delay"}
    BY <2>1 DEF Timed
  <2> QED
    BY <2>1, <2>2, <2>3, BeginStep
<1>3. ASSUME NEW e \in Waited, event_waitTimeout(e)
      PROVE  EventInv'
  <2>1. /\ at = "user" /\ UNCHANGED <<wait, multiple, bit, armed>>
        /\ call' = [op |-> "waitTimeout", on |-> {e}, sig |-> e, mask |-> {6} \cup {7}]
    BY <1>3, SMTT(30) DEF event_waitTimeout, Calling, Enter
  <2>2. CASE 6 \in recv[e]
    BY <1>1, <1>3, <2>1, <2>2, FoundStep, Zenon DEF event_waitTimeout
  <2>3. CASE 6 \notin recv[e]
    <3>1. at' = "arm" /\ UNCHANGED <<recv, answer, pending>>
      BY <1>3, <2>3 DEF event_waitTimeout
    <3>2. CallShape' /\ Mapped' /\ Stands'
      BY <1>1, <2>1, <3>1, Zenon DEF EventInv, CallShape, Mapped, Stands, Timed
    <3>3. call'.op \in Timed \cup {"delay"}
      BY <2>1 DEF Timed
    <3> QED
      BY <2>1, <3>1, <3>2, <3>3, BeginStep
  <2> QED
    BY <2>2, <2>3
<1>4. ASSUME NEW n \in Lengths, NEW op \in {"select", "selectTimeout"}, event_select(n, op)
      PROVE  EventInv'
  <2> DEFINE evs == 0..(n - 1)
             done == {e \in evs : 6 \in recv[e]}
  <2>1. evs \subseteq Events /\ evs \subseteq Bits /\ evs \subseteq 0..3
    BY ConstantTypes, EventAssumption, SMTT(30) DEF FewEvents, EventAssumption
  <2>2. /\ at = "user" /\ UNCHANGED <<wait, armed>>
        /\ call' = [op |-> op, on |-> evs, sig |-> Own,
                    mask |-> IF op \in Timed THEN evs \cup {7} ELSE evs]
    BY <1>4 DEF event_select, Calling, Enter, Timed
  <2>3. CASE done # {}
    <3>1. Min(done) \in done
      BY <2>1, <2>3, LowestAndHighest
    <3>2. /\ recv' = [recv EXCEPT ![Min(done)] = @ \ {6}]
          /\ Found(Min(done), evs)
          /\ UNCHANGED <<multiple, bit, at>>
      BY <1>4, <2>3 DEF event_select
    <3> QED
      BY <2>1, <2>2, <3>1, <3>2, FoundStep, Zenon
  <2>4. CASE done = {}
    <3>1. /\ multiple' = [e \in Events |-> multiple[e] \/ e \in evs]
          /\ bit' = [e \in Events |-> IF e \in evs THEN e ELSE bit[e]]
          /\ at' = IF op = "selectTimeout" THEN "arm" ELSE "wait"
          /\ UNCHANGED <<recv, answer, pending>>
      BY <1>4, <2>4 DEF event_select
    <3>2. CallShape'
      BY <2>1, <2>2 DEF CallShape, Timed
    <3>3. Mapped'
      <4>1. ASSUME NEW e \in Events
            PROVE  /\ multiple'[e] => bit'[e] = e /\ e < 4 /\ 6 \notin recv'[e]
                   /\ ~multiple'[e] => bit'[e] = 6
        <5>1. CASE e \in evs
          <6>1. e < 4 /\ 6 \notin recv[e]
            BY <2>1, <2>4, <5>1
          <6> QED
            BY <3>1, <5>1, <6>1, Zenon
        <5>2. CASE e \notin evs
          BY <3>1, <5>2 DEF EventTypes, EventInv, Mapped
        <5> QED
          BY <5>1, <5>2
      <4> QED
        BY <4>1 DEF Mapped
    <3>4. Stands'
      BY <3>1 DEF EventTypes, EventInv, Stands
    <3>5. \/ at' = "arm" /\ call'.op \in Timed \cup {"delay"}
          \/ at' = "wait" /\ call'.op \notin Timed \cup {"delay"}
      BY <2>2, <3>1 DEF Timed
    <3> QED
      BY <2>2, <3>1, <3>2, <3>3, <3>4, <3>5, BeginStep, Zenon
  <2> QED
    BY <2>3, <2>4
<1>5. CASE timer_delayTicks
  <2>1. /\ at = "user" /\ at' = "arm" /\ UNCHANGED <<multiple, bit, armed, answer, pending>>
        /\ recv' = [recv EXCEPT ![Own] = @ \ {4}]
        /\ call' = [op |-> "delay", on |-> {}, sig |-> Own, mask |-> {4}]
    BY <1>5 DEF timer_delayTicks, Calling, Enter
  <2>2. CallShape'
    BY <2>1, SMTT(30) DEF CallShape
  <2>3. Mapped' /\ Stands'
    BY <1>1, <2>1, SMTT(30) DEF EventTypes, EventInv, Mapped, Stands
  <2>4. \A s \in Signals, b \in {7, 4} : b \in recv'[s] => b \in recv[s]
    BY <1>1, <2>1, SMTT(30) DEF EventTypes
  <2> QED
    BY <2>1, <2>2, <2>3, <2>4, BeginStep, SMTT(30)
<1> QED
  BY <1>2, <1>3, <1>4, <1>5

(* timer_add() of the timer on the stack.                                  *)
LEMMA AddStep ==
  ASSUME EventTypes, EventInv, timer_add
  PROVE  EventInv'
<1>1. /\ at = "arm" /\ at' = "wait" /\ armed' = {<<call.sig, TimerBit>>}
      /\ UNCHANGED <<recv, multiple, bit, call, answer, pending>>
  BY DEF timer_add, TimerBit
<1>2. NoTimerSignal /\ call.op \in Timed \cup {"delay"}
  BY <1>1 DEF EventInv, TimerInv, Added
<1>3. TimerInv'
  BY <1>1, <1>2 DEF TimerInv, Added, NoTimerSignal, TimerBit
<1> QED
  BY <1>1, <1>3 DEF EventInv, Mapped, Stands, CallShape, InCall, OnlyWhatHappened

(* The end of sig_waitTimeoutSignal().                                     *)
LEMMA StopStep ==
  ASSUME EventTypes, EventInv, sig_waitTimeoutSignal_stop
  PROVE  EventInv'
<1> USE DEF EVENT_GENERIC_SIGNAL, SIG_SINGLE, SIG_TIMEOUT
<1>1. /\ at = "stop" /\ at' = "user" /\ UNCHANGED <<multiple, bit, call, answer, pending>>
      /\ call.sig \in Signals /\ Events \subseteq Signals /\ Own \in Signals
  BY ConstantTypes DEF sig_waitTimeoutSignal_stop, EventTypes
<1>2. Added /\ call.op \in Timed /\ TimerBit = 7
  BY <1>1, SMTT(30) DEF EventInv, TimerInv, Added, TimerBit, Timed
<1>3. CASE 7 \in recv[call.sig]
  <2>1. armed' = armed /\ recv' = [recv EXCEPT ![call.sig] = @ \ {7}]
    BY <1>3 DEF sig_waitTimeoutSignal_stop
  <2>2. armed = {} /\ OnlyMine
    BY <1>1, <1>2, <1>3 DEF EventInv, TimerInv, NoTimerSignal
  <2>3. NoTimerSignal'
    BY <1>1, <1>2, <2>1, <2>2 DEF EventTypes, NoTimerSignal, OnlyMine
  <2>4. Mapped' /\ Stands'
    BY <1>1, <2>1, SMTT(30) DEF EventTypes, EventInv, Mapped, Stands
  <2> QED
    BY <1>1, <2>1, <2>2, <2>3, <2>4 DEF EventInv, TimerInv, Added, CallShape, InCall, OnlyWhatHappened
<1>4. CASE 7 \notin recv[call.sig]
  <2>1. armed' = {} /\ recv' = recv
    BY <1>4 DEF sig_waitTimeoutSignal_stop
  <2>2. NoTimerSignal
    BY <1>2, <1>4, SMTT(30) DEF EventInv, TimerInv, OnlyMine
  <2> QED
    BY <1>1, <2>1, <2>2 DEF EventInv, TimerInv, Added, NoTimerSignal, CallShape, InCall,
                            OnlyWhatHappened, Mapped, Stands
<1> QED
  BY <1>3, <1>4

(* What sig_waitSignal() returns stands for what the call reports.         *)
LEMMA DecodeEvent ==
  ASSUME EventTypes, EventInv, InCall, NEW got, got = recv[call.sig] \cap call.mask, got # {},
         Decode(got) \in Events
  PROVE  /\ Decode(got) \in call.on /\ Decode(got) \in pending
         /\ \/ /\ call.sig = Decode(got) /\ call.sig \in Events
               /\ EVENT_GENERIC_SIGNAL \in recv[call.sig] /\ EVENT_GENERIC_SIGNAL \in call.mask
            \/ call.sig = Own /\ Decode(got) \in got /\ multiple[Decode(got)]
<1> USE DEF EVENT_GENERIC_SIGNAL, SIG_SINGLE, SIG_TIMEOUT
<1>1. Decode(got) \in Nat
  BY ConstantTypes, Zenon
<1>2. CASE call.op = "delay" \/ (call.op # "wait" /\ 7 \in got)
  BY <1>1, <1>2 DEF Decode, Nothing, TimedOut
<1>3. CASE call.op = "wait" \/ (call.op = "waitTimeout" /\ 7 \notin got)
  <2>1. Decode(got) = call.sig /\ call.sig \in Events /\ call.on = {call.sig} /\ 6 \in got
    BY <1>3 DEF Decode, EventInv, CallShape, Timed
  <2> QED
    BY <2>1 DEF EventInv, Stands
<1>4. CASE call.op \in {"select", "selectTimeout"} /\ 7 \notin got
  <2>1. Decode(got) = Max(got) /\ got \in SUBSET Bits
    BY <1>4, SMTT(30) DEF Decode, EventTypes
  <2>2. Max(got) \in got
    BY <2>1, LowestAndHighest
  <2>3. call.sig = Own /\ got \subseteq call.on /\ \A b \in got : b < 4
    BY <1>4 DEF EventInv, CallShape, Timed
  <2>4. Max(got) \in recv[Own] /\ Max(got) < 4
    BY <2>2, <2>3
  <2> QED
    BY <2>1, <2>2, <2>3, <2>4 DEF EventInv, Stands
<1> QED
  BY <1>2, <1>3, <1>4 DEF EventInv, CallShape

(* sig_waitSignal(), entered and resumed.                                  *)
LEMMA WaitStep ==
  ASSUME EventTypes, EventInv, sig_waitSignal
  PROVE  EventInv'
<1> USE DEF EVENT_GENERIC_SIGNAL, SIG_SINGLE, SIG_TIMEOUT
<1>1. PICK got : got = recv[call.sig] \cap call.mask
  BY Zenon
<1>2. /\ at \in {"wait", "sleep"} /\ InCall /\ UNCHANGED <<multiple, bit, armed, call>>
      /\ call.sig \in Signals /\ Events \subseteq Signals /\ Own \in Signals /\ Own \notin Events
  BY ConstantTypes DEF sig_waitSignal, EventTypes, InCall
<1>3. CASE got = {}
  <2>1. at' = "sleep" /\ UNCHANGED <<recv, answer, pending>>
    BY <1>1, <1>3 DEF sig_waitSignal
  <2>2. TimerInv'
    BY <1>2, <2>1 DEF EventInv, TimerInv, Added, NoTimerSignal, OnlyMine, TimerBit
  <2> QED
    BY <1>2, <2>1, <2>2, Zenon DEF EventInv, Mapped, Stands, CallShape, InCall, OnlyWhatHappened
<1>4. CASE got # {}
  <2>1. PICK r : r = Decode(got)
    BY SMTT(30)
  <2>2. /\ recv' = [recv EXCEPT ![call.sig] = @ \ call.mask]
        /\ answer' = [result |-> r, happened |-> pending \cap call.on]
        /\ pending' = pending \ {r}
        /\ at' = IF 7 \in call.mask /\ call.op # "select" /\ 7 \notin got THEN "stop" ELSE "user"
    BY <1>1, <1>4, <2>1, SMTT(30) DEF sig_waitSignal, Found
  <2>3. r \in Events =>
          /\ r \in call.on /\ r \in pending
          /\ \/ /\ call.sig = r
                /\ 6 \in recv[call.sig] /\ 6 \in call.mask
             \/ call.sig = Own /\ r \in got /\ multiple[r]
    BY <1>1, <1>2, <1>4, <2>1, DecodeEvent
  <2>4. OnlyWhatHappened'
    BY <2>2, <2>3, SMTT(30) DEF OnlyWhatHappened
  <2>5. Mapped'
    BY <1>2, <2>2 DEF EventTypes, EventInv, Mapped
  <2>6. Stands'
    <3>1. ASSUME NEW e \in Events, 6 \in recv'[e]
          PROVE  e \in pending'
      <4>1. 6 \in recv[e] /\ e \in pending /\ ~multiple[e]
        BY <1>2, <2>2, <3>1, SMTT(30) DEF EventTypes, EventInv, Stands, Mapped
      <4>2. e # r
        BY <1>2, <2>2, <2>3, <3>1, <4>1, SMTT(30) DEF EventTypes
      <4> QED
        BY <2>2, <4>1, <4>2, SMTT(30)
    <3>2. ASSUME NEW b \in recv'[Own], b < 4
          PROVE  b \in Events /\ b \in pending' /\ multiple'[b]
      <4>1. b \in recv[Own] /\ b \in Events /\ b \in pending /\ multiple[b]
        BY <1>2, <2>2, <3>2 DEF EventTypes, EventInv, Stands
      <4>2. 6 \notin recv[b]
        BY <4>1, SMTT(30) DEF EventInv, Mapped
      <4>3. b # r
        BY <1>1, <1>2, <2>2, <2>3, <3>2, <4>1, <4>2 DEF EventTypes
      <4> QED
        BY <1>2, <2>2, <4>1, <4>3, SMTT(30)
    <3> QED
      BY <3>1, <3>2 DEF Stands
  <2>7. TimerInv'
    <3>1. CASE call.op \in Timed
      <4>1. Added /\ TimerBit = 7 /\ 7 \in call.mask /\ call.op \notin {"select", "delay"}
        BY <1>2, <3>1 DEF EventInv, CallShape, Added, TimerBit, Timed
      <4>2. CASE 7 \in got
        <5>1. 7 \in recv[call.sig]
          BY <1>1, <4>2
        <5>2. armed = {} /\ OnlyMine
          BY <1>2, <4>1, <5>1, SMTT(30) DEF EventInv, TimerInv, NoTimerSignal
        <5>3. NoTimerSignal' /\ at' = "user"
          BY <1>2, <2>2, <4>1, <4>2, <5>2 DEF EventTypes, OnlyMine, NoTimerSignal
        <5> QED
          BY <1>2, <5>2, <5>3 DEF TimerInv, Added
      <4>3. CASE 7 \notin got
        <5>1. 7 \notin recv[call.sig]
          BY <1>1, <4>1, <4>3
        <5>2. armed = {<<call.sig, TimerBit>>} /\ NoTimerSignal
          BY <4>1, <5>1, SMTT(30) DEF EventInv, TimerInv, OnlyMine
        <5>3. NoTimerSignal' /\ at' = "stop" /\ TimerBit' = TimerBit
          BY <1>2, <2>2, <4>1, <4>3, <5>2 DEF EventTypes, NoTimerSignal, TimerBit
        <5> QED
          BY <1>2, <3>1, <5>2, <5>3 DEF TimerInv, Added
      <4> QED
        BY <4>2, <4>3
    <3>2. CASE call.op = "delay"
      <4>1. Added /\ TimerBit = 4 /\ call.mask = {4} /\ call.sig = Own
        BY <1>2, <3>2 DEF EventInv, CallShape, Added, TimerBit
      <4>2. 4 \in recv[call.sig]
        BY <1>1, <1>4, <4>1
      <4>3. armed = {} /\ OnlyMine
        BY <1>2, <4>1, <4>2, SMTT(30) DEF EventInv, TimerInv, NoTimerSignal
      <4>4. NoTimerSignal' /\ at' = "user"
        BY <1>2, <2>2, <4>1, <4>3 DEF EventTypes, OnlyMine, NoTimerSignal
      <4> QED
        BY <1>2, <4>3, <4>4 DEF TimerInv, Added
    <3>3. CASE call.op \notin Timed \cup {"delay"}
      <4>1. armed = {} /\ NoTimerSignal /\ call.op \in {"wait", "select"} /\ 7 \notin call.mask
        BY <1>2, <3>3 DEF EventInv, TimerInv, Added, CallShape, Timed
      <4>2. NoTimerSignal' /\ at' = "user"
        BY <1>2, <2>2, <4>1 DEF EventTypes, NoTimerSignal
      <4> QED
        BY <1>2, <4>1, <4>2, SMTT(30) DEF TimerInv, Added
    <3> QED
      BY <3>1, <3>2, <3>3
  <2>8. CallShape'
    BY <1>2, <2>2, Zenon DEF EventInv, CallShape, InCall
  <2> QED
    BY <2>4, <2>5, <2>6, <2>7, <2>8 DEF EventInv
<1> QED
  BY <1>3, <1>4

LEMMA EventStep ==
  ASSUME FewEvents, EventTypes, EventInv, [EventNext]_eventVars
  PROVE  EventInv'
<1>1. CASE UNCHANGED eventVars
  <2>1. UNCHANGED <<recv, wait, multiple, bit, armed, at, call, answer, pending>>
    BY <1>1 DEF eventVars
  <2>2. Mapped' /\ Stands' /\ OnlyWhatHappened'
    BY <2>1, Zenon DEF EventInv, Mapped, Stands, OnlyWhatHappened
  <2>3. CallShape'
    BY <2>1, Zenon DEF EventInv, CallShape, InCall
  <2>4. TimerInv'
    BY <2>1, Zenon DEF EventInv, TimerInv, Added, NoTimerSignal, OnlyMine, TimerBit
  <2> QED
    BY <2>2, <2>3, <2>4 DEF EventInv
<1>2. CASE \E e \in Firing : event_do(e)
  BY <1>2, ConstantTypes, DoStep, Zenon
<1> QED
  BY <1>1, <1>2, CallStep, AddStep, WaitStep, StopStep, ExpiresStep DEF EventNext, Step

(* The three invariants of a wait with a timeout follow from EventInv. *)
LEMMA EventSafe ==
  ASSUME FewEvents
  PROVE  EventSpec => [](OnlyWhatHappened /\ StackTimer /\ NoStaleTimeout)
<1> DEFINE Inv == EventTypes /\ WakeInv /\ EventInv
<1>1. EventInit => Inv
  <2>1. ASSUME EventInit PROVE EventTypes /\ WakeInv
    BY <2>1, ConstantTypes, SMTT(30) DEF EventInit, EventTypes, WakeInv, InCall, Bits, EVENT_GENERIC_SIGNAL
  <2>2. ASSUME EventInit PROVE EventInv
    BY <2>2, ConstantTypes DEF EventInit, EventInv, Mapped, Stands, CallShape, InCall, TimerInv, Added,
                    NoTimerSignal, OnlyWhatHappened, Nothing
  <2> QED
    BY <2>1, <2>2
<1>2. Inv /\ [EventNext]_eventVars => Inv'
  BY WakeStep, EventStep
<1>3. Inv => OnlyWhatHappened /\ StackTimer /\ NoStaleTimeout
  <2>1. ASSUME Inv PROVE StackTimer
    BY <2>1, Zenon DEF EventInv, TimerInv, Added, OnlyMine, TimerBit, Timed, StackTimer
  <2>2. ASSUME Inv PROVE NoStaleTimeout
    BY <2>2 DEF EventInv, TimerInv, Added, NoTimerSignal, NoStaleTimeout
  <2> QED
    BY <2>1, <2>2 DEF EventInv
<1> QED
  BY <1>1, <1>2, <1>3, PTL DEF EventSpec

(* A wait, a select or a delay reports only what happened and was not yet  *)
(* reported, with at most four events in a select, so that their bits stay *)
(* below SIG_SINGLE.                                                       *)
THEOREM ReportsAreTrue ==
  ASSUME FewEvents
  PROVE  EventSpec => []OnlyWhatHappened
<1>1. EventSpec => [](OnlyWhatHappened /\ StackTimer /\ NoStaleTimeout)
  BY EventSafe
<1> QED
  BY <1>1, PTL

(* The timer on the stack of a call is in the timer queue only while the   *)
(* call lasts, and is still there when it is aborted.                      *)
THEOREM TimerDiesWithCall ==
  ASSUME FewEvents
  PROVE  EventSpec => []StackTimer
<1>1. EventSpec => [](OnlyWhatHappened /\ StackTimer /\ NoStaleTimeout)
  BY EventSafe
<1> QED
  BY <1>1, PTL

(* No SIG_TIMEOUT or SIG_SINGLE is left for a later call, although the     *)
(* timer may expire between the wake-up and the abort.                     *)
THEOREM TimeoutsAreClean ==
  ASSUME FewEvents
  PROVE  EventSpec => []NoStaleTimeout
<1>1. EventSpec => [](OnlyWhatHappened /\ StackTimer /\ NoStaleTimeout)
  BY EventSafe
<1> QED
  BY <1>1, PTL

-----------------------------------------------------------------------------
(* The boot loader.  The inductive invariant follows the cells of the file *)
(* on their way: the datagrams carry a file and a block number, what       *)
(* tftp_read has left and what of recv_buf is not written yet are the      *)
(* cells after the one in RAM, in order, and while the transfer goes on    *)
(* they end where the last acknowledged block ends.  The flash below the   *)
(* page in RAM holds cells in their place, and the rest of the sector of   *)
(* that page is erased unless storing the page will erase it.              *)

(* The cells of files that belong in page i.                               *)
CellAt(i) == {Cell(f, i) : f \in {g \in Files : i <= g}}

PageCell == UNION {CellAt(i) : i \in Pages}

(* A sequence of the cells that follow the page `from'.                    *)
InOrder(s, from) ==
  /\ s \in Seq(PageCell)
  /\ \A k \in 1..Len(s) : s[k] \in CellAt(from + k)

NetOK(n) == \A d \in n : d.file \in Files /\ d.n \in Nat

ClientOK(w) ==
  /\ w = [busy |-> w.busy, tid |-> w.tid, file |-> w.file, sent |-> w.sent]
  /\ w.sent \in Nat
  /\ w.busy => w.file \in Files

SessionOK(s) ==
  /\ s = [addr |-> s.addr, block |-> s.block, data |-> s.data, is_xfer_end |-> s.is_xfer_end]
  /\ s.block \in Nat

FlashOK(F) ==
  /\ F = [i \in Pages |-> F[i]]
  /\ \A i \in Pages : F[i] \notin {Erased, Garbage} => F[i].at = i

(* Storing v in page p leaves v there.                                     *)
Storable(p, v, F) ==
  (p - 1) % Sector = 0 \/ F[p] \in {Erased, v, [v EXCEPT !.whole = FALSE]}

(* A dirty page is a cell in its place, and can be stored; a clean one is  *)
(* the flash's.                                                            *)
CacheOK(w, F) ==
  /\ w = [curr_blk |-> w.curr_blk, dirty |-> w.dirty, page |-> w.page]
  /\ w.curr_blk \in Nat
  /\ w.dirty =>
       /\ w.curr_blk \in Pages /\ w.page \in CellAt(w.curr_blk)
       /\ Storable(w.curr_blk, w.page, F)
  /\ ~w.dirty => w.page = F[w.curr_blk]

(* What is received and not written yet.                                   *)
StreamOK(going, ch, s, p) ==
  /\ InOrder(ch, p)
  /\ InOrder(s.data, p + Len(ch))
  /\ going /\ ~s.is_xfer_end => p + Len(ch) + Len(s.data) = s.block * Packet

(* The pages of the sector of p from p on are erased.                      *)
Fresh(p, F) ==
  (p - 1) % Sector # 0 =>
    \A q \in Pages : q >= p /\ (q - 1) \div Sector = (p - 1) \div Sector => F[q] = Erased

(* What is written.                                                        *)
DoneOK(p, w, F) ==
  p # 0 =>
    /\ w.curr_blk = p /\ w.dirty
    /\ \A i \in 1..(p - 1) : F[i] \in CellAt(i)
    /\ Fresh(p, F)

(* What crcCheckOk has found.                                              *)
Checked(F, w) ==
  \E f \in Files : \A i \in 1..f :
    \/ F[i] = Cell(f, i)
    \/ w.dirty /\ w.curr_blk = i /\ w.page = Cell(f, i)

(* The inductive invariant.                                                *)
BootInv ==
  /\ NetOK(net) /\ ClientOK(client) /\ SessionOK(session)
  /\ FlashOK(flash) /\ CacheOK(cache, flash)
  /\ pos \in Nat
  /\ pc # "write" => chunk = <<>>
  /\ pc \in {"read", "write"} =>
       /\ StreamOK(pc = "read" \/ full, chunk, session, pos)
       /\ DoneOK(pos, cache, flash)
  /\ pc = "app" => Checked(flash, cache)


(* The constants.                                                          *)
LEMMA BootConstants ==
  /\ Packet \in Nat \ {0} /\ Buffer \in Nat \ {0} /\ Sector \in Nat \ {0}
  /\ \A f \in Files : f \in Nat /\ f # 0 /\ f # 1
  /\ Accepted \subseteq Files
  BY TftpAssumption, BootAssumption DEF TftpAssumption, BootAssumption

(* The flash holds the pages of every file.                                *)
LEMMA PagesProperties ==
  /\ \A i \in Pages : i \in Nat /\ i # 0
  /\ 1 \in Pages
  /\ \A f \in Files : f \in Pages
  /\ \A f \in Files : \A i \in Nat \ {0} : i <= f => i \in Pages
<1>1. PICK M \in Files : (\A f \in Files : f <= M) /\ Pages = 1..M
  <2>1. \E n \in Files : \A f \in Files : f <= n
    BY BootAssumption DEF BootAssumption
  <2> QED
    BY <2>1, Zenon DEF Pages
<1>2. M \in Nat /\ M # 0 /\ M # 1 /\ \A f \in Files : f \in Nat /\ f # 0 /\ f # 1
  BY BootConstants
<1>3. \A i \in 1..M : i \in Nat /\ i # 0
  BY <1>2
<1>4. 1 \in 1..M
  BY <1>2
<1>5. \A f \in Files : f \in 1..M
  <2>1. \A f \in Files : f <= M
    BY <1>1, Zenon
  <2>2. \A f \in Nat \ {0} : f <= M => f \in 1..M
    BY <1>2
  <2> QED
    BY <1>2, <2>1, <2>2, Zenon
<1>6. \A f \in Files : \A i \in Nat \ {0} : i <= f => i \in 1..M
  BY <1>1, <1>2
<1> QED
  BY <1>1, <1>3, <1>4, <1>5, <1>6, Zenon

(* A cell knows its page, also when the page is half programmed.           *)
LEMMA CellFacts ==
  ASSUME NEW i, NEW v \in CellAt(i)
  PROVE  /\ \E f \in Files : v = Cell(f, i) /\ i <= f
         /\ v.at = i
         /\ [v EXCEPT !.whole = FALSE].at = i
         /\ i \in Nat \ {0} => i \in Pages
<1>1. PICK f \in Files : v = Cell(f, i) /\ i <= f
  BY Zenon DEF CellAt
<1>2. v = [file |-> f, at |-> i, whole |-> TRUE]
  BY <1>1, Zenon DEF Cell
<1>3. v.at = i /\ [v EXCEPT !.whole = FALSE].at = i
  BY <1>2
<1> QED
  BY <1>1, <1>3, PagesProperties, Zenon

(* Sequences of cells.                                                     *)
LEMMA OrderEmpty ==
  ASSUME NEW from
  PROVE  InOrder(<<>>, from) /\ Len(<<>>) = 0
<1>1. <<>> \in Seq(PageCell) /\ Len(<<>>) = 0
  OBVIOUS
<1>2. 1..0 = {}
  OBVIOUS
<1> QED
  BY <1>1, <1>2, Zenon DEF InOrder

(* Runs of consecutive cells: length, concatenation, cut and head.         *)
LEMMA OrderLen ==
  ASSUME NEW s, NEW from, InOrder(s, from)
  PROVE  Len(s) \in Nat /\ s \in Seq(PageCell)
  BY DEF InOrder

(* A run continued by the next one is a run.                               *)
LEMMA OrderConcat ==
  ASSUME NEW s, NEW t, NEW from \in Nat, InOrder(s, from), InOrder(t, from + Len(s))
  PROVE  InOrder(s \o t, from) /\ Len(s \o t) = Len(s) + Len(t)
<1>1. s \in Seq(PageCell) /\ t \in Seq(PageCell) /\ Len(s) \in Nat /\ Len(t) \in Nat
  BY DEF InOrder
<1>2. /\ s \o t \in Seq(PageCell) /\ Len(s \o t) = Len(s) + Len(t)
      /\ \A k \in 1..(Len(s) + Len(t)) : (s \o t)[k] = IF k <= Len(s) THEN s[k] ELSE t[k - Len(s)]
  BY <1>1, ConcatProperties
<1>3. ASSUME NEW k \in 1..(Len(s) + Len(t))
      PROVE  (s \o t)[k] \in CellAt(from + k)
  <2>1. CASE k <= Len(s)
    <3>1. k \in 1..Len(s)
      BY <1>1, <2>1
    <3> QED
      BY <1>2, <2>1, <3>1, Zenon DEF InOrder
  <2>2. CASE ~(k <= Len(s))
    <3>1. k - Len(s) \in 1..Len(t) /\ from + Len(s) + (k - Len(s)) = from + k
      BY <1>1, <2>2
    <3>2. t[k - Len(s)] \in CellAt(from + Len(s) + (k - Len(s)))
      BY <3>1, Zenon DEF InOrder
    <3> QED
      BY <1>2, <2>2, <3>1, <3>2, Zenon
  <2> QED
    BY <2>1, <2>2
<1> QED
  BY <1>2, <1>3, Zenon DEF InOrder

(* A run that is cut leaves two runs.                                      *)
LEMMA OrderSplit ==
  ASSUME NEW s, NEW from \in Nat, InOrder(s, from), NEW m \in 0..Len(s)
  PROVE  /\ InOrder(SubSeq(s, 1, m), from) /\ Len(SubSeq(s, 1, m)) = m
         /\ InOrder(SubSeq(s, m + 1, Len(s)), from + m)
         /\ Len(SubSeq(s, m + 1, Len(s))) = Len(s) - m
<1>1. s \in Seq(PageCell) /\ Len(s) \in Nat /\ m \in Nat
  BY DEF InOrder
<1>2. PICK a, b : a = SubSeq(s, 1, m) /\ b = SubSeq(s, m + 1, Len(s))
  BY Zenon
<1>3. a \in Seq(PageCell) /\ Len(a) = m /\ \A k \in 1..m : a[k] = s[k] /\ k \in 1..Len(s)
  BY <1>1, <1>2, SubSeqProperties
<1>4. /\ b \in Seq(PageCell) /\ Len(b) = Len(s) - m
      /\ \A k \in 1..(Len(s) - m) : b[k] = s[m + k] /\ m + k \in 1..Len(s) /\ from + (m + k) = from + m + k
  BY <1>1, <1>2, SubSeqProperties
<1>5. InOrder(a, from)
  BY <1>3, Zenon DEF InOrder
<1>6. InOrder(b, from + m)
  <2> SUFFICES ASSUME NEW k \in 1..(Len(s) - m)
               PROVE  b[k] \in CellAt(from + m + k)
    BY <1>4, Zenon DEF InOrder
  <2>1. s[m + k] \in CellAt(from + (m + k))
    BY <1>4, Zenon DEF InOrder
  <2> QED
    BY <1>4, <2>1, Zenon
<1> QED
  BY <1>2, <1>3, <1>4, <1>5, <1>6, Zenon

(* The first cell of a run goes into the next page.                        *)
LEMMA OrderTail ==
  ASSUME NEW s, NEW from \in Nat, InOrder(s, from), s # <<>>
  PROVE  /\ Head(s) \in CellAt(from + 1) /\ from + 1 \in Pages
         /\ InOrder(Tail(s), from + 1) /\ Len(s) = Len(Tail(s)) + 1
<1>1. s \in Seq(PageCell) /\ Len(s) \in Nat /\ Len(s) # 0
  BY DEF InOrder
<1>2. /\ Head(s) = s[1] /\ Tail(s) \in Seq(PageCell) /\ Len(Tail(s)) = Len(s) - 1
      /\ \A k \in 1..(Len(s) - 1) : Tail(s)[k] = s[k + 1]
  BY <1>1, HeadTailProperties
<1>3. 1 \in 1..Len(s) /\ \A k \in 1..(Len(s) - 1) : k + 1 \in 1..Len(s) /\ from + (k + 1) = from + 1 + k
  BY <1>1
<1>4. s[1] \in CellAt(from + 1)
  BY <1>3, Zenon DEF InOrder
<1>5. \A k \in 1..(Len(s) - 1) : Tail(s)[k] \in CellAt(from + 1 + k)
  <2> SUFFICES ASSUME NEW k \in 1..(Len(s) - 1)
               PROVE  Tail(s)[k] \in CellAt(from + 1 + k)
    BY Zenon
  <2>1. s[k + 1] \in CellAt(from + (k + 1))
    BY <1>3, Zenon DEF InOrder
  <2> QED
    BY <1>2, <1>3, <2>1, Zenon
<1>6. from + 1 \in Nat \ {0}
  OBVIOUS
<1>7. from + 1 \in Pages
  BY <1>4, <1>6, CellFacts, Zenon
<1>8. Len(s) = Len(Tail(s)) + 1
  BY <1>1, <1>2
<1> QED
  BY <1>2, <1>4, <1>5, <1>7, <1>8, Zenon DEF InOrder


(* The cells of a packet follow those of the packets before.               *)
LEMMA DataOrder ==
  ASSUME NEW f \in Files, NEW n \in Nat \ {0}
  PROVE  /\ InOrder(Data(f, n), (n - 1) * Packet)
         /\ ~(Len(Data(f, n)) < Packet) => Len(Data(f, n)) = Packet
<1>1. f \in Nat /\ Packet \in Nat /\ Packet # 0
  BY BootConstants
<1>0. PICK base \in Nat : base = (n - 1) * Packet
  <2>1. PICK x \in Nat, y \in Nat : x = n - 1 /\ y = Packet
    BY <1>1
  <2>2. x * y \in Nat
    OBVIOUS
  <2> QED
    BY <2>1, <2>2, Zenon
<1>2. PICK k \in Int : k = Min2(Packet, f - (n - 1) * Packet) /\ k <= Packet /\ k <= f - base
  <2>1. PICK k \in Int : k = Min2(Packet, f - base) /\ k <= Packet /\ k <= f - base
    BY <1>1 DEF Min2
  <2> QED
    BY <1>0, <2>1, Zenon
<1>3. PICK w : w = Data(f, n)
  BY Zenon
<1>4. w = [i \in 1..k |-> Cell(f, (n - 1) * Packet + i)]
  BY <1>2, <1>3, Zenon DEF Data
<1>5. \A i \in 1..k : Cell(f, (n - 1) * Packet + i) \in CellAt((n - 1) * Packet + i) /\ (n - 1) * Packet + i \in Pages
  <2>1. \A i \in 1..k : base + i \in Nat \ {0} /\ base + i <= f
    <3>1. k <= f - base
      BY <1>2, Zenon
    <3> QED
      BY <1>1, <3>1
  <2>2. \A i \in 1..k : (n - 1) * Packet + i \in Nat \ {0} /\ (n - 1) * Packet + i <= f
    BY <1>0, <2>1, Zenon
  <2> QED
    BY <2>2, PagesProperties, Zenon DEF CellAt
<1>6. \A i \in 1..k : Cell(f, (n - 1) * Packet + i) \in PageCell
  BY <1>5, Zenon DEF PageCell
<1>7. PICK m \in Nat : 1..m = 1..k /\ m <= Packet /\ (~(m < Packet) => m = Packet)
  <2>1. CASE k >= 0
    BY <1>1, <1>2, <2>1
  <2>2. CASE ~(k >= 0)
    <3>1. 1..0 = 1..k /\ 0 <= Packet /\ (~(0 < Packet) => 0 = Packet) /\ 0 \in Nat
      BY <1>1, <2>2
    <3> QED
      BY <3>1, Zenon
  <2> QED
    BY <2>1, <2>2
<1>8. w = [i \in 1..m |-> Cell(f, (n - 1) * Packet + i)]
  BY <1>4, <1>7, Zenon
<1>9. w \in Seq(PageCell) /\ Len(w) = m
  <2>1. w \in [1..m -> PageCell] /\ DOMAIN w = 1..m
    BY <1>6, <1>7, <1>8, Zenon
  <2>2. w \in Seq(PageCell)
    BY <2>1, SeqDef, Zenon
  <2>3. Len(w) = m
    BY <2>1, <2>2, LenProperties
  <2> QED
    BY <2>2, <2>3
<1>10. \A i \in 1..m : w[i] = Cell(f, (n - 1) * Packet + i)
  BY <1>8, Zenon
<1> QED
  BY <1>3, <1>5, <1>7, <1>9, <1>10, Zenon DEF InOrder

(* Quotient and remainder.                                                 *)
LEMMA Quotient ==
  ASSUME NEW m \in Nat \ {0}, NEW n \in Int
  PROVE  /\ n \div m \in Int /\ n % m \in 0..(m - 1)
         /\ n = (n \div m) * m + (n % m)
  BY SMT

(* The next page is in the same sector unless it starts one.               *)
LEMMA NextPage ==
  ASSUME NEW n \in Nat, (n + 1) % Sector # 0
  PROVE  (n + 1) \div Sector = n \div Sector
<1>1. PICK S \in Nat \ {0} : S = Sector
  BY BootConstants
<1>2. PICK q \in Int, r \in 0..(S - 1) : q = n \div S /\ r = n % S /\ n = q * S + r
  <2>1. n \in Int
    OBVIOUS
  <2> QED
    BY <2>1, Quotient, Zenon
<1>3. PICK u \in Int, v \in 0..(S - 1) : u = (n + 1) \div S /\ v = (n + 1) % S /\ n + 1 = u * S + v
  <2>1. n + 1 \in Int
    OBVIOUS
  <2> QED
    BY <2>1, Quotient, Zenon
<1>4. v # 0
  BY <1>1, <1>3, Zenon
<1>5. PICK d \in Int : d = u - q
  OBVIOUS
<1>6. d * S = r + 1 - v
  <2>1. d * S = u * S - q * S
    BY <1>5
  <2>2. PICK x \in Int, y \in Int : x = u * S /\ y = q * S
    OBVIOUS
  <2>3. n = y + r /\ n + 1 = x + v /\ d * S = x - y
    BY <1>2, <1>3, <2>1, <2>2, Zenon
  <2> QED
    BY <2>3
<1>7. ~(d >= 1)
  <2> SUFFICES ASSUME d >= 1 PROVE FALSE
    OBVIOUS
  <2>1. PICK e \in Nat : d = 1 + e
    <3>1. d - 1 \in Nat /\ d = 1 + (d - 1)
      OBVIOUS
    <3> QED BY <3>1
  <2>2. d * S = S + e * S /\ e * S \in Nat
    BY <2>1
  <2> QED
    BY <1>4, <1>6, <2>2
<1>8. ~(d <= -1)
  <2> SUFFICES ASSUME d <= -1 PROVE FALSE
    OBVIOUS
  <2>1. PICK e \in Nat : e = -1 - d
    OBVIOUS
  <2>2. PICK x \in Nat : x = e * S
    OBVIOUS
  <2>3. d * S = -S - x
    BY <2>1, <2>2
  <2> QED
    BY <1>6, <2>2, <2>3
<1>9. d = 0
  BY <1>7, <1>8
<1>10. u = q
  BY <1>5, <1>9
<1> QED
  BY <1>1, <1>2, <1>3, <1>10, Zenon

(* A page that starts a sector is the first of it.                         *)
LEMMA SectorStart ==
  ASSUME NEW p \in Nat, NEW i \in Nat, p # 0, i # 0,
         (p - 1) % Sector = 0, (i - 1) \div Sector = (p - 1) \div Sector
  PROVE  p <= i
<1>1. PICK S \in Nat \ {0} : S = Sector
  BY BootConstants
<1>2. p - 1 \in Int /\ i - 1 \in Int
  OBVIOUS
<1>3. PICK q \in Int, r \in 0..(S - 1) : q = (p - 1) \div S /\ r = (p - 1) % S /\ p - 1 = q * S + r
  BY <1>2, Quotient, Zenon
<1>4. PICK u \in Int, v \in 0..(S - 1) : u = (i - 1) \div S /\ v = (i - 1) % S /\ i - 1 = u * S + v
  BY <1>2, Quotient, Zenon
<1>5. r = 0 /\ u = q
  BY <1>1, <1>3, <1>4, Zenon
<1>6. PICK x \in Int : x = q * S
  OBVIOUS
<1>7. p - 1 = x + 0 /\ i - 1 = x + v
  BY <1>3, <1>4, <1>5, <1>6, Zenon
<1> QED
  BY <1>7


(* The flash page by page, after a store.                                  *)
LEMMA StorePages ==
  ASSUME NEW p \in Pages, NEW v
  PROVE  /\ Store(p, v) = [i \in Pages |-> Store(p, v)[i]]
         /\ Store(p, v)[p] \in {v, Garbage}
         /\ (p - 1) % Sector = 0 => Store(p, v)[p] = v
         /\ flash[p] = Erased => Store(p, v)[p] = v
         /\ Storable(p, v, flash) => Store(p, v)[p] = v
         /\ \A i \in Pages : i # p =>
              IF (p - 1) % Sector = 0 /\ (i - 1) \div Sector = (p - 1) \div Sector
              THEN Store(p, v)[i] = Erased ELSE Store(p, v)[i] = flash[i]
<1> DEFINE starts == (p - 1) % Sector = 0
           same(i) == (i - 1) \div Sector = (p - 1) \div Sector
           old == IF starts THEN Erased ELSE flash[p]
           new(i) == CASE i = p -> IF old \in {Erased, v, [v EXCEPT !.whole = FALSE]}
                                   THEN v ELSE Garbage
                       [] i # p /\ starts /\ same(i) -> Erased
                       [] OTHER -> flash[i]
<1>1. Store(p, v) = [i \in Pages |-> new(i)]
  BY Zenon DEF Store
<1>2. new(p) \in {v, Garbage} /\ (old = Erased => new(p) = v)
  BY Zenon
<1>3. ASSUME NEW i \in Pages, i # p
      PROVE  IF starts /\ same(i) THEN new(i) = Erased ELSE new(i) = flash[i]
  BY <1>3, Zenon
<1>4. (starts => old = Erased) /\ (flash[p] = Erased => old = Erased)
  BY Zenon
<1>6. Storable(p, v, flash) => new(p) = v
  BY Zenon DEF Storable
<1> HIDE DEF new, old
<1>5. Store(p, v) = [i \in Pages |-> Store(p, v)[i]] /\ \A i \in Pages : Store(p, v)[i] = new(i)
  BY <1>1, Zenon
<1> QED
  BY <1>2, <1>3, <1>4, <1>5, <1>6, Zenon

(* A store puts a cell in its place, and one that fails or that a reset    *)
(* interrupts leaves no cell in another.                                   *)
LEMMA StoreOK ==
  ASSUME FlashOK(flash), NEW p \in Pages, NEW v \in CellAt(p)
  PROVE  /\ FlashOK(Store(p, v))
         /\ \A F \in Interrupted(p, v) : FlashOK(F)
<1> DEFINE torn == [v EXCEPT !.whole = FALSE]
<1>1. PICK done : done = Store(p, v)
  BY Zenon
<1>2. /\ done = [i \in Pages |-> done[i]]
      /\ done[p] \in {v, Garbage}
      /\ \A i \in Pages : i # p => done[i] = Erased \/ done[i] = flash[i]
  <2>1. Store(p, v) = [i \in Pages |-> Store(p, v)[i]] /\ Store(p, v)[p] \in {v, Garbage}
    BY StorePages, Zenon
  <2>2. ASSUME NEW i \in Pages, i # p
        PROVE  Store(p, v)[i] = Erased \/ Store(p, v)[i] = flash[i]
    <3>1. IF (p - 1) % Sector = 0 /\ (i - 1) \div Sector = (p - 1) \div Sector
          THEN Store(p, v)[i] = Erased ELSE Store(p, v)[i] = flash[i]
      BY <2>2, StorePages, ZenonT(40)
    <3> QED
      BY <3>1, Zenon
  <2> QED
    BY <1>1, <2>1, <2>2, Zenon
<1>3. v.at = p /\ torn.at = p
  BY CellFacts, Zenon
<1> HIDE DEF torn
<1>4. \A i \in Pages : i # p => (done[i] \notin {Erased, Garbage} => done[i].at = i)
  BY <1>2, Zenon DEF FlashOK
<1>5. FlashOK(done)
  BY <1>2, <1>3, <1>4, Zenon DEF FlashOK
<1>6. ASSUME NEW x, x \in {torn, Garbage, Erased}, NEW F, F = [done EXCEPT ![p] = x]
      PROVE  FlashOK(F)
  <2>1. F = [i \in Pages |-> F[i]] /\ \A i \in Pages : F[i] = IF i = p THEN x ELSE done[i]
    BY <1>2, <1>6, Zenon
  <2> QED
    BY <1>3, <1>4, <1>6, <2>1, Zenon DEF FlashOK
<1>7. ASSUME NEW F, F = [done EXCEPT ![p] = IF @ = v THEN torn ELSE @]
      PROVE  FlashOK(F)
  <2>1. PICK x : x = IF done[p] = v THEN torn ELSE done[p]
    BY Zenon
  <2>2. x \in {torn, Garbage, Erased}
    BY <1>2, <2>1, Zenon
  <2>3. F = [done EXCEPT ![p] = x]
    BY <1>7, <2>1, Zenon
  <2> QED
    BY <1>6, <2>2, <2>3, Zenon
<1>8. ASSUME NEW F, F = [i \in Pages |-> IF i = p \/ done[i] # flash[i] THEN Garbage ELSE flash[i]]
      PROVE  FlashOK(F)
  <2>1. F = [i \in Pages |-> F[i]] /\ \A i \in Pages : F[i] = Garbage \/ F[i] = flash[i]
    BY <1>8, Zenon
  <2> QED
    BY <2>1, Zenon DEF FlashOK
<1>9. ASSUME NEW F \in Interrupted(p, v)
      PROVE  FlashOK(F)
  <2>1. \/ F = flash
        \/ F = [done EXCEPT ![p] = IF @ = v THEN torn ELSE @]
        \/ F = [done EXCEPT ![p] = Erased]
        \/ F = [i \in Pages |-> IF i = p \/ done[i] # flash[i] THEN Garbage ELSE flash[i]]
    BY <1>1, <1>9, Zenon DEF Interrupted, torn
  <2> QED
    BY <1>6, <1>7, <1>8, <2>1, Zenon
<1> QED
  BY <1>1, <1>5, <1>9, Zenon

(* A store that fails or that a reset interrupts can be done again.        *)
LEMMA StoreAgain ==
  ASSUME NEW p \in Pages, NEW v, Storable(p, v, flash), NEW F \in Interrupted(p, v)
  PROVE  Storable(p, v, F)
<1>1. CASE (p - 1) % Sector = 0
  BY <1>1, Zenon DEF Storable
<1>2. CASE (p - 1) % Sector # 0
  <2>1. PICK done : done = Store(p, v)
    BY Zenon
  <2>2. done = [i \in Pages |-> done[i]] /\ done[p] = v
    <3>1. Store(p, v) = [i \in Pages |-> Store(p, v)[i]] /\ Store(p, v)[p] = v
      BY StorePages, Zenon
    <3> QED
      BY <2>1, <3>1, Zenon
  <2>3. F = flash \/ F = [done EXCEPT ![p] = IF @ = v THEN [v EXCEPT !.whole = FALSE] ELSE @]
    BY <1>2, <2>1, Zenon DEF Interrupted
  <2>4. CASE F = [done EXCEPT ![p] = IF @ = v THEN [v EXCEPT !.whole = FALSE] ELSE @]
    <3>1. F[p] = [v EXCEPT !.whole = FALSE]
      BY <2>2, <2>4, Zenon
    <3> QED
      BY <3>1, Zenon DEF Storable
  <2> QED
    BY <2>3, <2>4, Zenon
<1> QED
  BY <1>1, <1>2

(* kblock_flush.                                                           *)
LEMMA FlushOK ==
  ASSUME FlashOK(flash), CacheOK(cache, flash)
  PROVE  FlashOK(Flushed) /\ Flushed[cache.curr_blk] = cache.page
<1>1. CASE ~cache.dirty
  <2>1. Flushed = flash
    BY <1>1, Zenon DEF Flushed
  <2> QED
    BY <1>1, <2>1, Zenon DEF CacheOK
<1>2. CASE cache.dirty
  <2>1. Flushed = Store(cache.curr_blk, cache.page)
    BY <1>2, Zenon DEF Flushed
  <2>2. /\ cache.curr_blk \in Pages /\ cache.page \in CellAt(cache.curr_blk)
        /\ Storable(cache.curr_blk, cache.page, flash)
    BY <1>2, Zenon DEF CacheOK
  <2>3. FlashOK(Flushed)
    BY <2>1, <2>2, StoreOK, Zenon
  <2>4. Store(cache.curr_blk, cache.page)[cache.curr_blk] = cache.page
    BY <2>2, StorePages, Zenon
  <2> QED
    BY <2>1, <2>3, <2>4, Zenon
<1> QED
  BY <1>1, <1>2

(* A store that fails leaves the page in RAM, and every page in its place. *)
LEMMA FailOK ==
  ASSUME FlashOK(flash), CacheOK(cache, flash), cache.dirty,
         NEW F \in Interrupted(cache.curr_blk, cache.page)
  PROVE  FlashOK(F) /\ CacheOK(cache, F)
  BY StoreOK, StoreAgain, Zenon DEF CacheOK

(* The page in RAM is stored in a flash that was made ready for it.        *)
LEMMA FlushDone ==
  ASSUME NEW p \in Nat, p # 0, DoneOK(p, cache, flash), CacheOK(cache, flash)
  PROVE  /\ \A i \in 1..p : Flushed[i] \in CellAt(i)
         /\ Fresh(p + 1, Flushed)
<1>1. cache.curr_blk = p /\ cache.dirty /\ Fresh(p, flash) /\ \A i \in 1..(p - 1) : flash[i] \in CellAt(i)
  BY Zenon DEF DoneOK
<1>2. PICK v : v = cache.page
  BY Zenon
<1>3. p \in Pages /\ v \in CellAt(p)
  BY <1>1, <1>2, Zenon DEF CacheOK
<1>4. PICK done : done = Store(p, v) /\ Flushed = done
  BY <1>1, <1>2, Zenon DEF Flushed
<1>5. /\ (p - 1) % Sector = 0 => done[p] = v
      /\ flash[p] = Erased => done[p] = v
      /\ \A i \in Pages : i # p =>
           IF (p - 1) % Sector = 0 /\ (i - 1) \div Sector = (p - 1) \div Sector
           THEN done[i] = Erased ELSE done[i] = flash[i]
  <2>1. /\ (p - 1) % Sector = 0 => Store(p, v)[p] = v
        /\ flash[p] = Erased => Store(p, v)[p] = v
    BY <1>3, StorePages, Zenon
  <2>2. \A i \in Pages : i # p =>
          IF (p - 1) % Sector = 0 /\ (i - 1) \div Sector = (p - 1) \div Sector
          THEN Store(p, v)[i] = Erased ELSE Store(p, v)[i] = flash[i]
    BY <1>3, StorePages, Zenon
  <2> QED
    BY <1>4, <2>1, <2>2, Zenon
<1>6. done[p] = v
  <2>1. p >= p
    OBVIOUS
  <2> QED
    BY <1>1, <1>3, <1>5, <2>1, Zenon DEF Fresh
<1>7. ASSUME NEW i \in 1..p
      PROVE  done[i] \in CellAt(i)
  <2>1. CASE i = p
    BY <1>3, <1>6, <2>1, Zenon
  <2>2. CASE i # p
    <3>1. i \in 1..(p - 1) /\ i \in Nat /\ i # 0 /\ ~(p <= i)
      BY <2>2
    <3>2. flash[i] \in CellAt(i)
      BY <1>1, <3>1, Zenon
    <3>3. i \in Pages
      BY <3>1, <3>2, CellFacts
    <3>4. done[i] = flash[i]
      BY <1>5, <2>2, <3>1, <3>3, SectorStart, Zenon
    <3> QED
      BY <3>2, <3>4, Zenon
  <2> QED
    BY <2>1, <2>2
<1>8. Fresh(p + 1, done)
  <2>1. p + 1 - 1 = p
    OBVIOUS
  <2> SUFFICES ASSUME (p + 1 - 1) % Sector # 0, NEW q \in Pages, q >= p + 1,
                      (q - 1) \div Sector = (p + 1 - 1) \div Sector
               PROVE  done[q] = Erased
    BY DEF Fresh
  <2>a. p % Sector # 0 /\ (q - 1) \div Sector = p \div Sector
    BY <2>1, Zenon
  <2>2. p \div Sector = (p - 1) \div Sector
    <3>1. PICK n \in Nat : n = p - 1 /\ n + 1 = p
      <4>1. p - 1 \in Nat /\ p - 1 + 1 = p
        OBVIOUS
      <4> QED
        BY <4>1
    <3> QED
      BY <2>a, <3>1, NextPage, Zenon
  <2>3. q # p /\ q >= p
    BY PagesProperties
  <2>4. (q - 1) \div Sector = (p - 1) \div Sector
    BY <2>2, <2>a, Zenon
  <2>5. CASE (p - 1) % Sector = 0
    BY <1>5, <2>3, <2>4, <2>5, Zenon
  <2>6. CASE (p - 1) % Sector # 0
    <3>1. flash[q] = Erased
      BY <1>1, <2>3, <2>4, <2>6, Zenon DEF Fresh
    <3> QED
      BY <1>5, <2>3, <2>6, <3>1, Zenon
  <2> QED
    BY <2>5, <2>6, Zenon
<1> QED
  BY <1>4, <1>7, <1>8, Zenon


(* While no transfer goes on, the invariant is about the flash only.       *)
LEMMA IdleInv ==
  ASSUME NetOK(net'), ClientOK(client'), SessionOK(session'), FlashOK(flash'),
         CacheOK(cache', flash'), pos' \in Nat, chunk' = <<>>, pc' \in {"listen", "crc"}
  PROVE  BootInv'
<1>1. pc' \notin {"read", "write"} /\ pc' # "app"
  OBVIOUS
<1> QED
  BY <1>1, Zenon DEF BootInv

(* A transfer goes on.                                                     *)
LEMMA BusyInv ==
  ASSUME NetOK(net'), ClientOK(client'), SessionOK(session'), FlashOK(flash'),
         CacheOK(cache', flash'), pos' \in Nat,
         pc' = "read" \/ pc' = "write", pc' # "write" => chunk' = <<>>,
         StreamOK(pc' = "read" \/ full', chunk', session', pos'), DoneOK(pos', cache', flash')
  PROVE  BootInv'
<1>1. pc' # "app"
  OBVIOUS
<1> QED
  BY <1>1, Zenon DEF BootInv

(* A new session has read nothing.                                         *)
LEMMA SessionInit ==
  ASSUME NEW t
  PROVE  SessionOK(Session(t)) /\ Session(t).data = <<>> /\ Session(t).block = 0
  BY DEF Session, SessionOK

(* receiveFirmware() that fails goes back to listening or to the CRC.      *)
LEMMA FailedPc == ASSUME Failed PROVE pc' \in {"listen", "crc"}
  BY DEF Failed

(* What arrives was sent.                                                  *)
LEMMA ArrivesNet ==
  ASSUME NEW d, Arrives(d), NetOK(net)
  PROVE  NetOK(net') /\ d.file \in Files /\ d.n \in Nat
  BY Zenon DEF Arrives, NetOK

(* Each step of the board keeps the invariant.                             *)
LEMMA ListenStep ==
  ASSUME BootInv, NEW d, Listen(d)
  PROVE  BootInv'
<1>1. pc = "listen" /\ Arrives(d) /\ session' = Session(d.tid) /\ pos' = 0
      /\ UNCHANGED <<client, first, flash, cache, chunk, full>>
      /\ (pc' = "read" \/ Failed)
  BY Zenon DEF Listen
<1>2. NetOK(net') /\ ClientOK(client') /\ FlashOK(flash') /\ CacheOK(cache', flash') /\ SessionOK(session')
  BY <1>1, ArrivesNet, SessionInit, Zenon DEF BootInv
<1>3. pos' \in Nat
  BY <1>1
<1>4. chunk' = <<>>
  <2>1. pc # "write"
    BY <1>1
  <2> QED
    BY <1>1, <2>1, Zenon DEF BootInv
<1>5. CASE Failed
  BY <1>2, <1>3, <1>4, <1>5, FailedPc, IdleInv, Zenon
<1>6. CASE pc' = "read"
  <2>1. session'.data = <<>> /\ session'.block = 0
    BY <1>1, SessionInit, Zenon
  <2>2. Packet \in Nat
    BY BootConstants
  <2>3. 0 + Len(<<>>) + Len(<<>>) = 0 * Packet
    BY <2>2
  <2>4. StreamOK(pc' = "read" \/ full', chunk', session', pos')
    BY <1>1, <1>4, <2>1, <2>3, OrderEmpty, Zenon DEF StreamOK
  <2>5. DoneOK(pos', cache', flash')
    BY <1>1, Zenon DEF DoneOK
  <2> QED
    BY <1>2, <1>3, <1>4, <1>6, <2>4, <2>5, BusyInv, Zenon
<1> QED
  BY <1>1, <1>5, <1>6, Zenon

LEMMA ListenTimeoutStep ==
  ASSUME BootInv, ListenTimeout
  PROVE  BootInv'
<1>1. pc = "listen" /\ Failed /\ session' = Session(session.addr) /\ pos' = 0
      /\ UNCHANGED <<net, acks, client, faults, first, flash, cache, chunk, full>>
  BY Zenon DEF ListenTimeout
<1>2. pc # "write" /\ pos' \in Nat
  BY <1>1
<1> QED
  BY <1>1, <1>2, FailedPc, SessionInit, IdleInv, Zenon DEF BootInv

(* What tftp_read returns goes before what it leaves.                      *)
LEMMA ReadOrder ==
  ASSUME SessionOK(session), NEW s, SessionOK(s), pos \in Nat, InOrder(s.data, pos),
         ~s.is_xfer_end => pos + Len(s.data) = s.block * Packet,
         Read(s), pos' = pos
  PROVE  /\ SessionOK(session') /\ pc' = "write"
         /\ StreamOK(pc' = "read" \/ full', chunk', session', pos')
<1>1. /\ chunk' = Chunk(s) /\ session' = Rest(s) /\ pc' = "write"
  BY Zenon DEF Read
<1>a. PICK t : t = s.data
  BY Zenon
<1>2. PICK n \in Nat : t = s.data /\ n = Len(t) /\ t \in Seq(PageCell)
  BY <1>a, OrderLen, Zenon
<1>3. PICK m \in 0..n : m = Min2(Buffer, Len(t))
  BY <1>2, BootConstants DEF Min2
<1>4. PICK a, b : a = SubSeq(t, 1, m) /\ b = SubSeq(t, m + 1, Len(t))
  BY Zenon
<1>5. InOrder(a, pos) /\ Len(a) = m /\ InOrder(b, pos + m) /\ Len(b) = n - m
  BY <1>2, <1>3, <1>4, OrderSplit, Zenon
<1>6. chunk' = a
  BY <1>1, <1>2, <1>3, <1>4, Zenon DEF Chunk
<1>7. session' = [s EXCEPT !.data = b]
  BY <1>1, <1>2, <1>3, <1>4, <1>5, <1>6, Zenon DEF Rest
<1>8. SessionOK(session') /\ session'.data = b /\ session'.block = s.block /\ session'.is_xfer_end = s.is_xfer_end
  BY <1>7 DEF SessionOK
<1>9. pos + m + (n - m) = pos + n
  BY <1>3
<1>10. ~s.is_xfer_end => pos + Len(a) + Len(b) = s.block * Packet
  BY <1>2, <1>5, <1>9, Zenon
<1> QED
  BY <1>1, <1>5, <1>6, <1>8, <1>10, Zenon DEF StreamOK

(* A transfer that waits for a packet.                                     *)
LEMMA Reading ==
  ASSUME BootInv, pc = "read"
  PROVE  /\ NetOK(net) /\ ClientOK(client) /\ SessionOK(session) /\ FlashOK(flash)
         /\ CacheOK(cache, flash) /\ pos \in Nat /\ chunk = <<>> /\ DoneOK(pos, cache, flash)
         /\ InOrder(session.data, pos)
         /\ ~session.is_xfer_end => pos + Len(session.data) = session.block * Packet
<1>1. pc # "write"
  OBVIOUS
<1>2. chunk = <<>> /\ pos \in Nat /\ StreamOK(pc = "read" \/ full, chunk, session, pos)
  BY <1>1, Zenon DEF BootInv
<1>3. pos + Len(<<>>) = pos
  BY <1>2
<1> QED
  BY <1>2, <1>3, Zenon DEF BootInv, StreamOK

LEMMA tftp_readStep ==
  ASSUME BootInv, tftp_read
  PROVE  BootInv'
<1>1. pc = "read" /\ Read(session) /\ UNCHANGED <<net, acks, client, faults, first, flash, cache, pos>>
  BY Zenon DEF tftp_read
<1>2. SessionOK(session') /\ pc' = "write" /\ StreamOK(pc' = "read" \/ full', chunk', session', pos')
  BY <1>1, Reading, ReadOrder, Zenon
<1> QED
  BY <1>1, <1>2, Reading, BusyInv, Zenon


(* The packet tftp_read takes is the next one, and follows what it has.    *)
LEMMA FilledOrder ==
  ASSUME SessionOK(session), pos \in Nat, InOrder(session.data, pos),
         pos + Len(session.data) = session.block * Packet,
         NEW d, d.file \in Files, d.n \in Nat, checkPacket(session, d) = "ok",
         NEW s, s = Filled(session, d)
  PROVE  /\ SessionOK(s) /\ InOrder(s.data, pos)
         /\ ~s.is_xfer_end => pos + Len(s.data) = s.block * Packet
<1>1. PICK b \in Nat, k \in Nat, P \in Nat : b = session.block /\ k = Len(session.data) /\ P = Packet
  <2>1. session.block \in Nat /\ Len(session.data) \in Nat /\ Packet \in Nat
    BY OrderLen, BootConstants DEF SessionOK
  <2> QED
    BY <2>1, Zenon
<1>2. d.n = b + 1 /\ d.n \in Nat \ {0}
  BY <1>1 DEF checkPacket
<1>3. PICK cells : cells = Data(d.file, d.n)
  BY Zenon
<1>4. (d.n - 1) * Packet = pos + k
  <2>1. d.n - 1 = b
    BY <1>2
  <2> QED
    BY <1>1, <2>1, Zenon
<1>5. InOrder(cells, pos + k) /\ (~(Len(cells) < Packet) => Len(cells) = Packet)
  BY <1>2, <1>3, <1>4, DataOrder, Zenon
<1>6. s = [session EXCEPT !.block = @ + 1, !.data = @ \o cells, !.is_xfer_end = (Len(cells) < Packet)]
  BY <1>3, Zenon DEF Filled
<1>7. /\ s = [addr |-> session.addr, block |-> b + 1, data |-> session.data \o cells,
              is_xfer_end |-> (Len(cells) < Packet)]
  BY <1>1, <1>6, Zenon DEF SessionOK
<1>8. s.block = b + 1 /\ s.data = session.data \o cells /\ s.is_xfer_end = (Len(cells) < Packet)
  BY <1>7
<1>9. SessionOK(s)
  <2>1. b + 1 \in Nat
    OBVIOUS
  <2> QED
    BY <1>7, <2>1 DEF SessionOK
<1>10. InOrder(s.data, pos) /\ Len(s.data) = k + Len(cells)
  BY <1>1, <1>5, <1>8, OrderConcat, Zenon
<1>11. ASSUME ~s.is_xfer_end
       PROVE  pos + Len(s.data) = s.block * Packet
  <2>1. Len(cells) = P
    BY <1>1, <1>5, <1>8, <1>11, Zenon
  <2>2. pos + k = b * P
    BY <1>1, Zenon
  <2>3. (b + 1) * P = b * P + P
    OBVIOUS
  <2>4. PICK x \in Nat : x = b * P
    OBVIOUS
  <2>5. pos + (k + P) = x + P
    BY <2>2, <2>4
  <2> QED
    BY <1>1, <1>8, <1>10, <2>1, <2>3, <2>4, <2>5, Zenon
<1> QED
  BY <1>9, <1>10, <1>11, Zenon

LEMMA ReadPacketStep ==
  ASSUME BootInv, NEW d, ReadPacket(d)
  PROVE  BootInv'
<1>1. /\ pc = "read" /\ ~Enough /\ Arrives(d)
      /\ UNCHANGED <<client, first, flash, cache, pos>>
  BY Zenon DEF ReadPacket
<1>2. NetOK(net') /\ d.file \in Files /\ d.n \in Nat
  BY <1>1, Reading, ArrivesNet, Zenon
<1>3. CASE checkPacket(session, d) = "ok"
  <2>1. Read(Filled(session, d))
    BY <1>3, Zenon DEF ReadPacket
  <2>2. ~session.is_xfer_end
    BY <1>1, Zenon DEF Enough
  <2>3. PICK s : s = Filled(session, d)
    BY Zenon
  <2>4. /\ SessionOK(s) /\ InOrder(s.data, pos)
        /\ ~s.is_xfer_end => pos + Len(s.data) = s.block * Packet
    BY <1>1, <1>2, <1>3, <2>2, <2>3, Reading, FilledOrder, Zenon
  <2>5. SessionOK(session') /\ pc' = "write" /\ StreamOK(pc' = "read" \/ full', chunk', session', pos')
    BY <1>1, <2>1, <2>3, <2>4, Reading, ReadOrder, Zenon
  <2> QED
    BY <1>1, <1>2, <2>5, Reading, BusyInv, Zenon
<1>4. CASE checkPacket(session, d) # "ok"
  <2>1. UNCHANGED <<session, pc, chunk, full>>
    BY <1>4, Zenon DEF ReadPacket
  <2>2. StreamOK(pc = "read" \/ full, chunk, session, pos)
    BY <1>1, Zenon DEF BootInv
  <2>3. StreamOK(pc' = "read" \/ full', chunk', session', pos')
    BY <1>1, <2>1, <2>2, Zenon
  <2> QED
    BY <1>1, <1>2, <2>1, <2>3, Reading, BusyInv, Zenon
<1> QED
  BY <1>3, <1>4

LEMMA ReadErrorStep ==
  ASSUME BootInv, pc = "read", ReadError, NetOK(net')
  PROVE  BootInv'
<1>1. /\ session' = [session EXCEPT !.data = <<>>]
      /\ UNCHANGED <<acks, client, first, flash, cache, pos>>
      /\ \/ Failed /\ UNCHANGED <<chunk, full>>
         \/ pc' = "write" /\ chunk' = <<>> /\ full' = FALSE
  BY Zenon DEF ReadError
<1>2. SessionOK(session') /\ session'.data = <<>>
  BY <1>1, Reading DEF SessionOK
<1>3. CASE Failed /\ UNCHANGED <<chunk, full>>
  BY <1>1, <1>2, <1>3, Reading, FailedPc, IdleInv, Zenon
<1>4. CASE pc' = "write" /\ chunk' = <<>> /\ full' = FALSE
  <2>1. ~(pc' = "read" \/ full')
    BY <1>4
  <2>2. StreamOK(pc' = "read" \/ full', chunk', session', pos')
    BY <1>2, <1>4, <2>1, OrderEmpty, Zenon DEF StreamOK
  <2> QED
    BY <1>1, <1>2, <1>4, <2>2, Reading, BusyInv, Zenon
<1> QED
  BY <1>1, <1>3, <1>4, Zenon

LEMMA BadPacketStep ==
  ASSUME BootInv, NEW d, BadPacket(d)
  PROVE  BootInv'
<1>1. pc = "read" /\ ReadError /\ (Arrives(d) \/ net' = net \ {d})
  BY Zenon DEF BadPacket
<1>2. NetOK(net')
  BY <1>1, Reading, ArrivesNet, Zenon DEF NetOK
<1> QED
  BY <1>1, <1>2, ReadErrorStep, Zenon

LEMMA ReadTimeoutStep ==
  ASSUME BootInv, ReadTimeout
  PROVE  BootInv'
<1>1. pc = "read" /\ ReadError /\ UNCHANGED net
  BY Zenon DEF ReadTimeout
<1> QED
  BY <1>1, Reading, ReadErrorStep, Zenon


(* recv_buf is being written.                                              *)
LEMMA Writing ==
  ASSUME BootInv, pc = "write"
  PROVE  /\ NetOK(net) /\ ClientOK(client) /\ SessionOK(session) /\ FlashOK(flash)
         /\ CacheOK(cache, flash) /\ pos \in Nat /\ DoneOK(pos, cache, flash)
         /\ InOrder(chunk, pos) /\ InOrder(session.data, pos + Len(chunk))
         /\ full /\ ~session.is_xfer_end =>
              pos + Len(chunk) + Len(session.data) = session.block * Packet
  BY Zenon DEF BootInv, StreamOK

LEMMA WriteStep ==
  ASSUME BootInv, Write
  PROVE  BootInv'
<1>1. /\ pc = "write" /\ chunk # <<>>
      /\ IF cache.curr_blk = pos + 1 THEN UNCHANGED flash ELSE flash' = Flushed
      /\ cache' = [curr_blk |-> pos + 1, dirty |-> TRUE, page |-> Head(chunk)]
      /\ pos' = pos + 1 /\ chunk' = Tail(chunk)
      /\ UNCHANGED <<net, acks, client, session, faults, pc, first, full>>
  BY Zenon DEF Write, tftpVars
<1>2. /\ Head(chunk) \in CellAt(pos + 1) /\ pos + 1 \in Pages
      /\ InOrder(Tail(chunk), pos + 1) /\ Len(chunk) = Len(Tail(chunk)) + 1
  BY <1>1, Writing, OrderTail, ZenonT(40)
<1>3. PICK p \in Nat : p = pos
  BY <1>1, Writing, Zenon
<1>4. cache'.curr_blk = pos + 1 /\ cache'.dirty /\ cache'.page = Head(chunk)
  BY <1>1
<1>6. FlashOK(flash')
  BY <1>1, Writing, FlushOK, Zenon
<1>7. StreamOK(pc' = "read" \/ full', chunk', session', pos')
  <2>1. PICK n \in Nat, m \in Nat : n = Len(Tail(chunk)) /\ m = Len(session.data)
    BY <1>1, <1>2, Writing, OrderLen, Zenon
  <2>2. p + 1 + n = p + (n + 1) /\ p + 1 + n + m = p + (n + 1) + m
    OBVIOUS
  <2>4. InOrder(session'.data, pos' + Len(chunk'))
    BY <1>1, <1>2, <1>3, <2>1, <2>2, Writing, Zenon
  <2>5. full' /\ ~session'.is_xfer_end => pos' + Len(chunk') + Len(session'.data) = session'.block * Packet
    BY <1>1, <1>2, <1>3, <2>1, <2>2, Writing, Zenon
  <2>6. pc' # "read"
    BY <1>1
  <2> QED
    BY <1>1, <1>2, <2>4, <2>5, <2>6, Zenon DEF StreamOK
<1>8. DoneOK(pos', cache', flash')
  <2>1. CASE p = 0
    <3>1. PICK S \in Nat \ {0} : S = Sector
      BY BootConstants
    <3>2. (1 - 1) % S = 0 /\ 1..(1 - 1) = {} /\ 0 + 1 = 1
      OBVIOUS
    <3>3. pos' = 1
      BY <1>1, <1>3, <2>1, <3>2, Zenon
    <3>4. Fresh(1, flash')
      <4>1. (1 - 1) % Sector = 0
        BY <3>1, <3>2, Zenon
      <4> QED
        BY <4>1, Zenon DEF Fresh
    <3>5. \A i \in 1..(1 - 1) : flash'[i] \in CellAt(i)
      BY <3>2, Zenon
    <3> QED
      BY <1>1, <1>4, <3>3, <3>4, <3>5, Zenon DEF DoneOK
  <2>2. CASE p # 0
    <3>1. cache.curr_blk = p
      BY <1>1, <1>3, <2>2, Writing, Zenon DEF DoneOK
    <3>2. p # p + 1 /\ p + 1 - 1 = p
      OBVIOUS
    <3>3. flash' = Flushed
      BY <1>1, <1>3, <3>1, <3>2, Zenon
    <3>4. (\A i \in 1..p : Flushed[i] \in CellAt(i)) /\ Fresh(p + 1, Flushed)
      BY <1>1, <1>3, <2>2, Writing, FlushDone, Zenon
    <3>5. \A i \in 1..(p + 1 - 1) : flash'[i] \in CellAt(i)
      BY <3>2, <3>3, <3>4, Zenon
    <3> QED
      BY <1>1, <1>3, <1>4, <3>3, <3>4, <3>5 DEF DoneOK
  <2> QED
    BY <2>1, <2>2
<1>9. Storable(pos + 1, Head(chunk), flash')
  <2>1. Fresh(pos + 1, flash')
    <3>1. pos + 1 # 0
      BY <1>3
    <3> QED
      BY <1>1, <1>8, <3>1, Zenon DEF DoneOK
  <2>2. pos + 1 >= pos + 1
    BY <1>3
  <2> QED
    BY <1>2, <2>1, <2>2, Zenon DEF Storable, Fresh
<1>5. CacheOK(cache', flash') /\ pos' \in Nat
  <2>1. cache' = [curr_blk |-> cache'.curr_blk, dirty |-> cache'.dirty, page |-> cache'.page]
    BY <1>1
  <2>2. p + 1 \in Nat
    OBVIOUS
  <2> QED
    BY <1>1, <1>2, <1>3, <1>4, <1>9, <2>1, <2>2, Zenon DEF CacheOK
<1> QED
  BY <1>1, <1>5, <1>6, <1>7, <1>8, Writing, BusyInv, Zenon

LEMMA WriteFailsStep ==
  ASSUME BootInv, WriteFails
  PROVE  BootInv'
<1>1. /\ pc = "write" /\ StoreFails /\ Failed /\ chunk' = <<>>
      /\ UNCHANGED <<net, acks, client, session, first, cache, full, pos>>
  BY Zenon DEF WriteFails
<1>2. FlashOK(flash') /\ CacheOK(cache', flash')
  BY <1>1, Writing, FailOK, Zenon DEF StoreFails
<1> QED
  BY <1>1, <1>2, Writing, FailedPc, IdleInv, Zenon

LEMMA WrittenStep ==
  ASSUME BootInv, Written
  PROVE  BootInv'
<1>1. /\ pc = "write" /\ chunk = <<>>
      /\ UNCHANGED <<net, acks, client, session, first, chunk, full, pos>>
      /\ \/ full /\ pc' = "read" /\ UNCHANGED <<flash, cache, faults>>
         \/ pc' = "crc" /\ flash' = Flushed /\ cache' = [cache EXCEPT !.dirty = FALSE]
         \/ pc' = "crc" /\ StoreFails /\ UNCHANGED cache
  BY Zenon DEF Written
<1>2. CASE full /\ pc' = "read" /\ UNCHANGED <<flash, cache, faults>>
  <2>1. StreamOK(pc' = "read" \/ full', chunk', session', pos')
    BY <1>1, <1>2, Writing, Zenon DEF StreamOK
  <2> QED
    BY <1>1, <1>2, <2>1, Writing, BusyInv, Zenon
<1>3. CASE pc' = "crc" /\ flash' = Flushed /\ cache' = [cache EXCEPT !.dirty = FALSE]
  <2>1. cache' = [curr_blk |-> cache.curr_blk, dirty |-> FALSE, page |-> cache.page]
    BY <1>1, <1>3, Writing, Zenon DEF CacheOK
  <2>2. /\ cache' = [curr_blk |-> cache'.curr_blk, dirty |-> cache'.dirty, page |-> cache'.page]
        /\ cache'.curr_blk = cache.curr_blk /\ ~cache'.dirty /\ cache'.page = cache.page
    BY <2>1
  <2>3. FlashOK(Flushed) /\ Flushed[cache.curr_blk] = cache.page /\ cache.curr_blk \in Nat
    BY <1>1, Writing, FlushOK, Zenon DEF CacheOK
  <2>4. CacheOK(cache', flash')
    BY <1>3, <2>2, <2>3, Zenon DEF CacheOK
  <2> QED
    BY <1>1, <1>3, <2>3, <2>4, Writing, IdleInv, Zenon
<1>4. CASE pc' = "crc" /\ StoreFails /\ UNCHANGED cache
  <2>1. FlashOK(flash') /\ CacheOK(cache', flash')
    BY <1>1, <1>4, Writing, FailOK, Zenon DEF StoreFails
  <2> QED
    BY <1>1, <1>4, <2>1, Writing, IdleInv, Zenon
<1> QED
  BY <1>1, <1>2, <1>3, <1>4, Zenon


(* A page that is loaded is the page of the flash.                         *)
LEMMA LoadedOK ==
  ASSUME NEW F, NEW p \in Nat
  PROVE  CacheOK(Loaded(F, p), F)
<1>1. PICK w : w = Loaded(F, p)
  BY Zenon
<1>2. /\ w = [curr_blk |-> w.curr_blk, dirty |-> w.dirty, page |-> w.page]
      /\ w.curr_blk = p /\ ~w.dirty /\ w.page = F[p]
  BY <1>1 DEF Loaded
<1> QED
  BY <1>1, <1>2, Zenon DEF CacheOK

(* crcCheckOk: what it reads is the flash, but for a dirty page.           *)
LEMMA CrcCheckStep ==
  ASSUME BootInv, CrcCheck
  PROVE  BootInv'
<1> DEFINE content == [i \in Pages |-> ReadPage(i)]
           ok == \E f \in Files : ReadPage(1) = Cell(f, 1) /\ CrcOk(f, content)
<1>1. /\ pc = "crc" /\ pc' = IF ok THEN "app" ELSE "listen"
      /\ pos' = 0
      /\ UNCHANGED <<net, acks, client, session, faults, flash, cache, chunk, full>>
  BY Zenon DEF CrcCheck, tftpVars
<1>2. /\ NetOK(net) /\ ClientOK(client) /\ SessionOK(session) /\ FlashOK(flash)
      /\ CacheOK(cache, flash)
  BY Zenon DEF BootInv
<1>3. chunk' = <<>> /\ pos' \in Nat
  <2>1. pc # "write" /\ 0 \in Nat
    BY <1>1
  <2> QED
    BY <1>1, <2>1, Zenon DEF BootInv
<1>4. CASE ok
  <2>1. PICK f \in Files : CrcOk(f, content)
    BY <1>4, Zenon
  <2>2. ASSUME NEW i \in 1..f
        PROVE  flash[i] = Cell(f, i) \/ (cache.dirty /\ cache.curr_blk = i /\ cache.page = Cell(f, i))
    <3>1. i \in Pages
      BY <2>1, PagesProperties
    <3>2. ReadPage(i) = Cell(f, i)
      BY <2>1, <3>1, Zenon DEF CrcOk, Whole
    <3> QED
      BY <1>2, <3>2, Zenon DEF ReadPage, CacheOK
  <2>3. Checked(flash', cache')
    BY <1>1, <2>2, Zenon DEF Checked
  <2>4. pc' = "app"
    BY <1>1, <1>4, Zenon
  <2>5. pc' \notin {"read", "write"}
    BY <2>4
  <2> QED
    BY <1>1, <1>2, <1>3, <2>3, <2>5, Zenon DEF BootInv
<1>5. CASE ~ok
  <2>1. pc' \in {"listen", "crc"}
    BY <1>1, <1>5, Zenon
  <2> QED
    BY <1>1, <1>2, <1>3, <2>1, IdleInv, Zenon
<1> QED
  BY <1>4, <1>5

LEMMA StartStep ==
  ASSUME BootInv, Start, FlashOK(flash')
  PROVE  BootInv'
<1>1. /\ pc' = "listen" /\ chunk' = <<>> /\ pos' = 0 /\ session' = Session(0)
      /\ cache' = Loaded(flash', 1) /\ UNCHANGED <<net, acks, client>>
  BY Zenon DEF Start
<1>2. pos' \in Nat /\ 1 \in Nat
  BY <1>1
<1> QED
  BY <1>1, <1>2, SessionInit, LoadedOK, IdleInv, Zenon DEF BootInv

LEMMA ResetStep ==
  ASSUME BootInv, Reset
  PROVE  BootInv'
<1>1. /\ Start
      /\ \/ UNCHANGED flash
         \/ cache.dirty /\ flash' \in Interrupted(cache.curr_blk, cache.page)
  BY Zenon DEF Reset
<1>2. FlashOK(flash')
  BY <1>1, FailOK, Zenon DEF BootInv
<1> QED
  BY <1>1, <1>2, StartStep, Zenon

(* The client and the network only move datagrams.                         *)
LEMMA NetStep ==
  ASSUME BootInv, NetOK(net'), ClientOK(client'), UNCHANGED <<session, bootVars>>
  PROVE  BootInv'
<1>1. UNCHANGED <<session, pc, first, flash, cache, chunk, full, pos>>
  BY Zenon DEF bootVars
<1> QED
  BY <1>1, Zenon DEF BootInv

(* What the client sends.                                                  *)
LEMMA DatagramOK ==
  ASSUME NEW w, w.file \in Files, w.sent \in Nat
  PROVE  Datagram(w).file \in Files /\ Datagram(w).n \in Nat
<1>1. Datagram(w).file = w.file /\ Datagram(w).n = w.sent
  BY DEF Datagram
<1> QED
  BY <1>1, Zenon

(* Each step of the client and of the network keeps the invariant.         *)
LEMMA BeginAttemptStep ==
  ASSUME BootInv, BeginAttempt
  PROVE  BootInv'
<1>1. PICK f \in Files : ClientStart(f) /\ UNCHANGED <<session, bootVars>>
  BY Zenon DEF BeginAttempt
<1>2. PICK w : w = [busy |-> TRUE, tid |-> 1 - client.tid, file |-> f, sent |-> 0]
  BY Zenon
<1>3. client' = w /\ net' = {d \in net : d.tid # w.tid} \union {Datagram(w)}
  BY <1>1, <1>2, Zenon DEF ClientStart
<1>4. ClientOK(w) /\ w.file = f /\ w.sent \in Nat
  BY <1>2 DEF ClientOK
<1>5. NetOK(net')
  BY <1>3, <1>4, DatagramOK, Zenon DEF NetOK, BootInv
<1> QED
  BY <1>1, <1>3, <1>4, <1>5, NetStep, Zenon

LEMMA EndAttemptStep ==
  ASSUME BootInv, EndAttempt
  PROVE  BootInv'
<1>1. /\ client' = [client EXCEPT !.busy = FALSE]
      /\ UNCHANGED <<net, acks, session>> /\ UNCHANGED bootVars
  BY Zenon DEF EndAttempt, ClientGiveUp
<1>2. ClientOK(client) /\ NetOK(net)
  BY Zenon DEF BootInv
<1>3. ClientOK(client')
  BY <1>1, <1>2, Zenon DEF ClientOK
<1> QED
  BY <1>1, <1>2, <1>3, NetStep, Zenon

LEMMA ResendStep ==
  ASSUME BootInv, Resend
  PROVE  BootInv'
<1>1. /\ client.busy /\ net' = net \union {Datagram(client)}
      /\ UNCHANGED <<acks, client, session>> /\ UNCHANGED bootVars
  BY Zenon DEF Resend, ClientResend
<1>2. ClientOK(client) /\ NetOK(net)
  BY Zenon DEF BootInv
<1>3. NetOK(net')
  BY <1>1, <1>2, DatagramOK, Zenon DEF NetOK, ClientOK
<1> QED
  BY <1>1, <1>2, <1>3, NetStep, Zenon

LEMMA ReceiveStep ==
  ASSUME BootInv, NEW a, ClientReceive(a), UNCHANGED bootVars
  PROVE  BootInv'
<1>1. PICK next : next = [client EXCEPT !.sent = @ + 1]
  BY Zenon
<1>2. /\ UNCHANGED session
      /\ \/ UNCHANGED <<client, net>>
         \/ client' = [client EXCEPT !.busy = FALSE] /\ UNCHANGED net
         \/ client.busy /\ client' = next /\ net' = net \union {Datagram(next)}
  BY <1>1, Zenon DEF ClientReceive
<1>3. ClientOK(client) /\ NetOK(net)
  BY Zenon DEF BootInv
<1>4. CASE UNCHANGED <<client, net>>
  BY <1>2, <1>3, <1>4, NetStep, Zenon
<1>5. CASE client' = [client EXCEPT !.busy = FALSE] /\ UNCHANGED net
  <2>1. ClientOK(client')
    BY <1>3, <1>5, Zenon DEF ClientOK
  <2> QED
    BY <1>2, <1>3, <1>5, <2>1, NetStep, Zenon
<1>6. CASE client.busy /\ client' = next /\ net' = net \union {Datagram(next)}
  <2>1. next = [busy |-> client.busy, tid |-> client.tid, file |-> client.file, sent |-> client.sent + 1]
    BY <1>1, <1>3 DEF ClientOK
  <2>2. client.sent \in Nat /\ client.file \in Files
    BY <1>3, <1>6, Zenon DEF ClientOK
  <2>3. ClientOK(next) /\ next.file \in Files /\ next.sent \in Nat
    BY <2>1, <2>2 DEF ClientOK
  <2>4. NetOK(net')
    BY <1>3, <1>6, <2>3, DatagramOK, Zenon DEF NetOK
  <2> QED
    BY <1>2, <1>6, <2>3, <2>4, NetStep, Zenon
<1> QED
  BY <1>2, <1>4, <1>5, <1>6, Zenon

LEMMA LoseStep ==
  ASSUME BootInv, Lose, UNCHANGED bootVars
  PROVE  BootInv'
<1>1. UNCHANGED <<client, session>> /\ (UNCHANGED net \/ \E d \in net : net' = net \ {d})
  BY Zenon DEF Lose
<1>2. ClientOK(client) /\ NetOK(net)
  BY Zenon DEF BootInv
<1>3. NetOK(net')
  BY <1>1, <1>2, Zenon DEF NetOK
<1> QED
  BY <1>1, <1>2, <1>3, NetStep, Zenon


(* The flash starts erased or with one file, and nothing is received yet.  *)
LEMMA BootInitial == BootInit => BootInv
<1> SUFFICES ASSUME BootInit PROVE BootInv
  OBVIOUS
<1>1. /\ net = {} /\ client = [busy |-> FALSE, tid |-> 0, file |-> 0, sent |-> 0]
      /\ session = Session(0) /\ pc = "listen" /\ chunk = <<>> /\ pos = 0
      /\ cache = Loaded(flash, 1)
      /\ \/ flash = [i \in Pages |-> Erased]
         \/ \E f \in Accepted : flash = [i \in Pages |-> IF i <= f THEN Cell(f, i) ELSE Erased]
  BY Zenon DEF BootInit, TftpInit
<1>2. NetOK(net)
  BY <1>1, Zenon DEF NetOK
<1>3. ClientOK(client)
  BY <1>1 DEF ClientOK
<1>4. SessionOK(session)
  BY <1>1, SessionInit, Zenon
<1>5. FlashOK(flash)
  <2>1. ASSUME flash = [i \in Pages |-> Erased]
        PROVE  FlashOK(flash)
    <3>1. flash = [i \in Pages |-> flash[i]] /\ \A i \in Pages : flash[i] = Erased
      BY <2>1, Zenon
    <3> QED
      BY <3>1, Zenon DEF FlashOK
  <2>2. ASSUME NEW f \in Accepted, flash = [i \in Pages |-> IF i <= f THEN Cell(f, i) ELSE Erased]
        PROVE  FlashOK(flash)
    <3>1. flash = [i \in Pages |-> flash[i]] /\ \A i \in Pages : flash[i] = Erased \/ flash[i] = Cell(f, i)
      BY <2>2, Zenon
    <3>2. \A i : Cell(f, i).at = i
      BY DEF Cell
    <3> QED
      BY <3>1, <3>2, Zenon DEF FlashOK
  <2> QED
    BY <1>1, <2>1, <2>2, Zenon
<1>6. CacheOK(cache, flash) /\ pos \in Nat
  <2>1. 0 \in Nat /\ 1 \in Nat
    OBVIOUS
  <2> QED
    BY <1>1, <2>1, LoadedOK, Zenon
<1>7. pc \notin {"read", "write"} /\ pc # "app"
  BY <1>1
<1> QED
  BY <1>1, <1>2, <1>3, <1>4, <1>5, <1>6, <1>7, Zenon DEF BootInv

(* Every step keeps the invariant.                                         *)
LEMMA BootSteps == BootInv /\ [BootNext]_boardVars => BootInv'
<1> SUFFICES ASSUME BootInv, [BootNext]_boardVars PROVE BootInv'
  OBVIOUS
<1>1. CASE UNCHANGED boardVars
  BY <1>1, Zenon DEF boardVars, tftpVars, bootVars, BootInv
<1>2. CASE Board
  BY <1>2, ListenTimeoutStep, ListenStep, ReadPacketStep, BadPacketStep, tftp_readStep,
     ReadTimeoutStep, WriteStep, WrittenStep, CrcCheckStep, Zenon DEF Board
<1>3. CASE Client
  BY <1>3, BeginAttemptStep, EndAttemptStep, ResendStep, ReceiveStep, Zenon DEF Client
<1>4. CASE Faulty
  BY <1>4, LoseStep, WriteFailsStep, ResetStep, Zenon DEF Faulty
<1> QED
  BY <1>1, <1>2, <1>3, <1>4, Zenon DEF BootNext

(* The invariant of the boot loader.                                       *)
LEMMA BootInvariance == BootSpec => []BootInv
  BY BootInitial, BootSteps, PTL DEF BootSpec

(* The board jumps to the application only when every page of one firmware *)
(* is in the flash, or is the dirty page in RAM: crcCheckOk (boot/main.c)  *)
(* reads the page in RAM in place of the flash's, and only a dirty one     *)
(* differs, for any files, sizes and number of faults.                     *)
THEOREM BootRunsWholeFirmware == BootSpec => []RunsWholeFirmware
<1>1. BootInv => RunsWholeFirmware
  BY Zenon DEF BootInv, Checked, RunsWholeFirmware
<1> QED
  BY <1>1, BootInvariance, PTL

(* Every page of a file is in its place, and while receiveFirmware runs    *)
(* the flash holds all the pages before the one in RAM: tftp_read, the     *)
(* leftover it keeps, the acknowledgements and the erasure of the sectors  *)
(* never skip, repeat or shift a part of the file, for any sizes of the    *)
(* packets, of recv_buf and of the sectors.                                *)
THEOREM BootPagesInPlace == BootSpec => []PagesInPlace
<1>1. BootInv => PagesInPlace
  <2> SUFFICES ASSUME BootInv PROVE PagesInPlace
    OBVIOUS
  <2>1. \A i \in Pages : flash[i] \notin {Erased, Garbage} => flash[i].at = i
    BY Zenon DEF BootInv, FlashOK
  <2>2. ASSUME pc \in {"read", "write"}, pos # 0
        PROVE  /\ cache.curr_blk = pos /\ cache.page.at = pos
               /\ \A i \in 1..(pos - 1) : \E f \in Files : flash[i] = Cell(f, i)
    <3>1. cache.curr_blk = pos /\ cache.dirty /\ \A i \in 1..(pos - 1) : flash[i] \in CellAt(i)
      BY <2>2, Zenon DEF BootInv, DoneOK
    <3>2. cache.page \in CellAt(pos)
      BY <3>1, Zenon DEF BootInv, CacheOK
    <3>3. cache.page.at = pos
      BY <3>2, CellFacts, Zenon
    <3>4. \A i \in 1..(pos - 1) : \E f \in Files : flash[i] = Cell(f, i)
      BY <3>1, Zenon DEF CellAt
    <3> QED
      BY <3>1, <3>3, <3>4, Zenon
  <2> QED
    BY <2>1, <2>2, Zenon DEF PagesInPlace
<1> QED
  BY <1>1, BootInvariance, PTL
===============================================================================
