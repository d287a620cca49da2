--------------------------------- MODULE Event ---------------------------------
(***************************************************************************)
(* Events (bertos/mware/event.c) and the waits with a timeout they rest on *)
(* (sig_waitTimeoutSignal() of bertos/kern/signal.c, timer_delayTicks() of *)
(* bertos/drv/timer.c), in a build with signals.                           *)
(*                                                                         *)
(* One process waits; interrupts trigger the events whenever they are      *)
(* enabled, and the timer on the stack of the process expires at any time  *)
(* while it is queued.  When the process is asleep its wait mask is set;   *)
(* once a signal has cleared the mask the process is ready, and the        *)
(* scheduler may let it run at any later time.  How long a timer stays in  *)
(* the queue is the matter of Timer.                                       *)
(***************************************************************************)
EXTENDS Integers, FiniteSetsExt

CONSTANTS
  NEvents,  \* the events are 0 .. NEvents - 1
  Firing,   \* those that interrupts trigger
  Waited,   \* those that event_wait() and event_waitTimeout() are called on
  Lengths,  \* event_select() is called with the first n events, n in Lengths
  Ops       \* the calls the process makes

Events == 0..(NEvents - 1)

(* The Signal structures: the one in each event, and that of the process. *)
Own == NEvents
Signals == Events \cup {Own}

ASSUME EventAssumption ==
  /\ NEvents \in Nat \ {0}
  /\ Firing \cup Waited \subseteq Events
  /\ Lengths \subseteq 1..NEvents
  /\ \A n \in Lengths : n <= 8

(* Masks are sets of bit numbers: an unsigned char has the bits 0 to 7. *)
SIG_SINGLE == 4
EVENT_GENERIC_SIGNAL == 6
SIG_TIMEOUT == 7

VARIABLES
  recv, wait,  \* recv[s], wait[s]: the masks of Signal s
  multiple,    \* multiple[e]: the action is event_hook_generic_multiple_signal
  bit,         \* bit[e]: e->Ev.Sig.sig_bit
  armed,       \* what the timer will post while it is queued: {<<signal, bit>>}
  at,          \* where the process is
  call,        \* the call it is in: the events, the Signal and the mask
  answer,      \* what the last call found, and what had happened by then
  pending      \* history: the events triggered since they were last reported

eventVars == <<recv, wait, multiple, bit, armed, at, call, answer, pending>>

TimedOut == -1
Nothing == -2

EventInit ==
  /\ recv = [s \in Signals |-> {}]
  /\ wait = [s \in Signals |-> {}]
  /\ multiple = [e \in Events |-> FALSE]
  /\ bit = [e \in Events |-> EVENT_GENERIC_SIGNAL]
  /\ armed = {}
  /\ at = "user"
  /\ call = [op |-> "none", on |-> {}, sig |-> Own, mask |-> {}]
  /\ answer = [result |-> Nothing, happened |-> {}]
  /\ pending = {}
-----------------------------------------------------------------------------
(* mutant: the wait mask survives the wake-up *)
sig_postSignal_mutant(s, b) ==
  /\ recv' = [recv EXCEPT ![s] = @ \cup {b}]
  /\ UNCHANGED wait

sig_postSignal(s, b) ==
  /\ recv' = [recv EXCEPT ![s] = @ \cup {b}]
  /\ wait' = [wait EXCEPT ![s] = IF b \in @ THEN {} ELSE @]

(* event_do() in an interrupt: the event's own Signal, or after            *)
(* event_select() the Signal of the process.                               *)
event_do(e) ==
  /\ sig_postSignal(IF multiple[e] THEN Own ELSE e, bit[e])
  /\ pending' = pending \cup {e}
  /\ UNCHANGED <<multiple, bit, armed, at, call, answer>>

timer_expires ==
  \E t \in armed :
    /\ sig_postSignal(t[1], t[2])
    /\ armed' = {}
    /\ UNCHANGED <<multiple, bit, at, call, answer, pending>>
-----------------------------------------------------------------------------
Calling(op) == at = "user" /\ op \in Ops

(* The calls that end with a timeout do so with SIG_TIMEOUT. *)
Enter(op, evs, s, m) ==
  call' = [op |-> op, on |-> evs, sig |-> s,
           mask |-> IF op \in {"waitTimeout", "selectTimeout"} THEN m \cup {SIG_TIMEOUT} ELSE m]

(* The signals found tell what the call reports. *)
Found(e, evs) ==
  /\ answer' = [result |-> e, happened |-> pending \cap evs]
  /\ pending' = pending \ {e}

event_wait(e) ==
  /\ Calling("wait")
  /\ Enter("wait", {e}, e, {EVENT_GENERIC_SIGNAL})
  /\ at' = "wait"
  /\ UNCHANGED <<recv, wait, multiple, bit, armed, answer, pending>>

event_waitTimeout(e) ==
  /\ Calling("waitTimeout")
  /\ Enter("waitTimeout", {e}, e, {EVENT_GENERIC_SIGNAL})
  /\ IF EVENT_GENERIC_SIGNAL \in recv[e]
     THEN /\ recv' = [recv EXCEPT ![e] = @ \ {EVENT_GENERIC_SIGNAL}]
          /\ Found(e, {e})
          /\ UNCHANGED at
     ELSE /\ at' = "arm"
          /\ UNCHANGED <<recv, answer, pending>>
  /\ UNCHANGED <<wait, multiple, bit, armed>>

(* event_select() looks at the events and maps them to signal bits with    *)
(* interrupts disabled.                                                    *)
event_select(n, op) ==
  LET evs == 0..(n - 1)
      done == {e \in evs : EVENT_GENERIC_SIGNAL \in recv[e]}
  IN  /\ Calling(op)
      /\ Enter(op, evs, Own, evs)
      /\ IF done # {}
         THEN /\ recv' = [recv EXCEPT ![Min(done)] = @ \ {EVENT_GENERIC_SIGNAL}]
              /\ Found(Min(done), evs)
              /\ UNCHANGED <<multiple, bit, at>>
         ELSE /\ multiple' = [e \in Events |-> multiple[e] \/ e \in evs]
              /\ bit' = [e \in Events |-> IF e \in evs THEN e ELSE bit[e]]
              /\ at' = IF op = "selectTimeout" THEN "arm" ELSE "wait"
              /\ UNCHANGED <<recv, answer, pending>>
      /\ UNCHANGED <<wait, armed>>

timer_delayTicks ==
  /\ Calling("delay")
  /\ Enter("delay", {}, Own, {SIG_SINGLE})
  /\ recv' = [recv EXCEPT ![Own] = @ \ {SIG_SINGLE}]
  /\ at' = "arm"
  /\ UNCHANGED <<wait, multiple, bit, armed, answer, pending>>

(* timer_add() of the timer on the stack. *)
timer_add ==
  /\ at = "arm"
  /\ armed' = {<<call.sig, IF call.op = "delay" THEN SIG_SINGLE ELSE SIG_TIMEOUT>>}
  /\ at' = "wait"
  /\ UNCHANGED <<recv, wait, multiple, bit, call, answer, pending>>

(* What the signals m mean to the call.  The bits of event_select() are    *)
(* the indexes of the events, and UINT8_LOG2() takes the highest one.      *)
Decode(m) ==
  IF call.op = "delay" THEN Nothing
  ELSE IF call.op # "wait" /\ SIG_TIMEOUT \in m THEN TimedOut
  ELSE IF call.op \in {"wait", "waitTimeout"} THEN call.sig
  ELSE Max(m)

(* mutant: the signals are reported and not cleared *)
sig_waitSignal_mutant ==
  LET got == recv[call.sig] \cap call.mask
  IN  /\ at = "wait" \/ (at = "sleep" /\ wait[call.sig] = {})
      /\ IF got # {}
         THEN /\ Found(Decode(got), call.on)
              /\ at' = IF SIG_TIMEOUT \in call.mask /\ SIG_TIMEOUT \notin got
                       THEN "stop" ELSE "user"
              /\ UNCHANGED wait
         ELSE /\ wait' = [wait EXCEPT ![call.sig] = call.mask]
              /\ at' = "sleep"
              /\ UNCHANGED <<answer, pending>>
      /\ UNCHANGED <<recv, multiple, bit, armed, call>>

(* sig_waitSignal(), entered and resumed with interrupts disabled. *)
sig_waitSignal ==
  LET got == recv[call.sig] \cap call.mask
  IN  /\ at = "wait" \/ (at = "sleep" /\ wait[call.sig] = {})
      /\ IF got # {}
         THEN /\ recv' = [recv EXCEPT ![call.sig] = @ \ call.mask]
              /\ Found(Decode(got), call.on)
              /\ at' = IF SIG_TIMEOUT \in call.mask /\ call.op # "select" /\ SIG_TIMEOUT \notin got
                       THEN "stop" ELSE "user"
              /\ UNCHANGED wait
         ELSE /\ wait' = [wait EXCEPT ![call.sig] = call.mask]
              /\ at' = "sleep"
              /\ UNCHANGED <<recv, answer, pending>>
      /\ UNCHANGED <<multiple, bit, armed, call>>

(* mutant: the timer is aborted without looking for a late SIG_TIMEOUT *)
sig_waitTimeoutSignal_stop_mutant ==
  /\ at = "stop"
  /\ armed' = {}
  /\ at' = "user"
  /\ UNCHANGED <<recv, wait, multiple, bit, call, answer, pending>>

(* mutant: the timer stays in the queue *)
timer_abort_mutant ==
  /\ at = "stop"
  /\ recv' = [recv EXCEPT ![call.sig] = @ \ {SIG_TIMEOUT}]
  /\ at' = "user"
  /\ UNCHANGED <<wait, multiple, bit, armed, call, answer, pending>>

(* The end of sig_waitTimeoutSignal(), with interrupts disabled: the timer *)
(* has expired in the meantime, or it is removed from the queue.           *)
sig_waitTimeoutSignal_stop ==
  /\ at = "stop"
  /\ IF SIG_TIMEOUT \in recv[call.sig]
     THEN recv' = [recv EXCEPT ![call.sig] = @ \ {SIG_TIMEOUT}] /\ UNCHANGED armed
     ELSE armed' = {} /\ UNCHANGED recv
  /\ at' = "user"
  /\ UNCHANGED <<wait, multiple, bit, call, answer, pending>>

Step ==
  \/ timer_add
  \/ sig_waitSignal
  \/ sig_waitTimeoutSignal_stop

EventNext ==
  \/ \E e \in Waited : event_wait(e) \/ event_waitTimeout(e)
  \/ \E n \in Lengths, op \in {"select", "selectTimeout"} : event_select(n, op)
  \/ timer_delayTicks
  \/ Step
  \/ \E e \in Firing : event_do(e)
  \/ timer_expires

EventSpec == EventInit /\ [][EventNext]_eventVars

(* A ready process runs, and a queued timer expires. *)
FairSpec == EventSpec /\ WF_eventVars(Step) /\ WF_eventVars(timer_expires)
-----------------------------------------------------------------------------
Asleep == at = "sleep" /\ wait[call.sig] # {}

(* A call reports only an event that has been triggered, and that was not  *)
(* reported before: no event is made up, taken for another or told twice.  *)
OnlyWhatHappened ==
  answer.result \in Events => answer.result \in answer.happened

(* The timer on the stack of the process is in the queue only while the    *)
(* call that added it lasts, and it is in the queue when it is aborted:    *)
(* "attempting to remove a timer already expired cause undefined           *)
(* behaviour".                                                             *)
StackTimer ==
  /\ armed # {} => at \in {"wait", "sleep", "stop"}
  /\ at = "stop" /\ SIG_TIMEOUT \notin recv[call.sig] => armed # {}

(* No timeout is left over for a later call: what the assertions at the    *)
(* start of sig_waitTimeoutSignal() and of timer_delayTicks() test.        *)
NoStaleTimeout ==
  at \in {"user", "arm"} => \A s \in Signals : recv[s] \cap {SIG_TIMEOUT, SIG_SINGLE} = {}

(* Whoever sleeps is woken up by what it waits for. *)
NoLostWakeup ==
  /\ Asleep => recv[call.sig] \cap wait[call.sig] = {}
  /\ at = "sleep" /\ ~Asleep => recv[call.sig] \cap call.mask # {}

(* A wait with a timeout comes to an end. *)
TimeoutEnds == at = "arm" ~> at = "user"
===============================================================================
