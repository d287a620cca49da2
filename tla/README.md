# Verification of the BeRTOS kernel, its building blocks and the services on top

This directory holds a TLA+ development for the code in `src/`: modules that are
translated from the C source, TLC configurations that check them on small
instances, and theorems that TLAPS proves for every value of the constants.
`PROJECT.json` is the machine-readable index: components, runs, mutants, the map
from each definition to the lines it models, findings, hazards and theorems.

## The system

`src/bertos` is the BeRTOS operating system, `src/common` and `src/boot` are
services and a boot loader on top of it. The parts that keep shared state, and
that later parts rest on, are:

| part | source | what it does |
|------|--------|--------------|
| scheduler | `kern/proc.c`, `kern/proc_p.h`, `kern/proc.h`, `cpu/irq.h` | ready list, cooperative or preemptive switching, priorities, process life |
| semaphores | `kern/sem.c` | recursive locks with a FIFO of waiting processes |
| signals | `kern/signal.c` | bits sent to a process by processes and interrupts, waits with a timeout |
| timers | `drv/timer.c`, `drv/timer.h` | a queue sorted by expiry tick, polled by the tick interrupt or by a process |
| recurrent tasks | `kern/rtask.c` | one process that runs callbacks from a timer queue |
| events | `mware/event.c`, `mware/event.h` | hooks that post signals; wait for one or several events |
| lists | `struct/list.h` | doubly-linked lists, in which processes and timers are kept in order |
| FIFO buffer | `struct/fifobuf.h` | bytes between an interrupt handler and a process, without a lock |
| heap | `struct/heap.c` | first fit with merging; `proc_new()` takes the stacks from it |
| block devices | `io/kblock.c` | a window of blocks behind a one-page buffer |
| files on them | `io/kfile_block.c`, `io/kfile.c` | byte positions cut at the block boundaries |
| settings (DLI) | `common/dli.c`, `mware/ini_reader.c`, `common/config.c` | two ini files and two FAT entries in an EEPROM; variables loaded from them |
| boot loader | `boot/main.c`, `net/tftp.c`, `cpu/cortex-m3/drv/flash_stm32.c` | receives firmware over TFTP, programs the flash, checks the CRC, jumps |

How they interact: the tick interrupt drives both the time slices of the
scheduler and the timer queue; an expired timer posts a signal or runs a hook;
events turn hooks into signals; a wait with a timeout is a signal wait and a
timer on the stack of the waiting process; semaphores and signals call the
scheduler to put a process to sleep and to wake it up. Recurrent tasks sleep on
timers and signals. The settings are changed by commands and loaded at every
start; the boot loader writes its flash through the block layer and starts the
application.

All of it runs on one CPU. A stretch with interrupts disabled is one atomic step
of a model, and so is a section between `proc_forbid()` and `proc_permit()` as
far as other processes are concerned. Where the code leaves a window (interrupts
enabled, preemption permitted) the model has a step boundary, and a program
counter `pc[p]` says which window process `p` is in.

The complete inventory, with the parts that are not modelled and the reason, is
under `components` in `PROJECT.json`; a summary is at the end.

## Modules

### Kernel: `Proc`, `Sem`, `Signal`, `Kernel`, `Lock`

`Proc` is the scheduler: `current` (`current_process`, `NULL` while the idle
loop runs), `ready` (`proc_ready_list`), `pri`, `quantum` (`_proc_quantum`),
`preempt` (`preempt_count`), `zombie`, and for each process its `pc` and the
local variable `target` it holds across a window. The build flags
`CONFIG_KERN_PREEMPT`, `CONFIG_KERN_PRI` and `CONFIG_KERN_QUANTUM` are the
constants `PREEMPT`, `PRI` and `QUANTUM`. Operators have the names of the C
functions. Windows that are split: `proc_setPri()` (priority stored, list fixed
later), `proc_exit()` (linked as zombie, last switch later), `proc_new()`
(zombies reaped one at a time, process linked later), the idle loop of
`proc_schedule()`.

`Sem` adds `owner`, `nest`, `waitQueue`, the semaphore a process wants, and the
history variable `held` (obtains that returned, less releases). `sem_obtain()`
is enqueue, switch and return; `sem_release()` hands over, then wakes up. The
owner that calls `sem_obtain()` again while others wait fails an assertion
(`sem_obtain_asserts`), and the board is reset: `bassert` in `Kernel` brings every
variable back to its initial values.

`Signal` adds `recv` and `wait`, the two masks of the Signal of each process, and
`sigs`, the mask a sleeping process has asked for. A process resumes in
`sig_waitSignal()` with interrupts disabled.

`Kernel` composes them: any process that has the CPU makes any call in `Ops`,
interrupts arrive wherever they are enabled. The callers keep the documented
contract: `sem_release()` is called by the owner, a process that exits owns no
semaphore, `proc_permit()` matches `proc_forbid()`.

`Lock` is the abstract specification of a semaphore: a recursive lock granted in
the order of the requests. It may start over when the process inside asks again
while others are in line, and at no other time. The refinement mapping (`InLine` in `Kernel`) puts the
process that has been handed the semaphore, and has not come back yet, before the
processes in the queue.

### Lists: `List`

A list is the sequence of its nodes. `FOREACH_NODE` is the place where the loop
of that name stops, the place after the last node if it does not; the insertions
of the scheduler and of the timers are `INSERT_BEFORE` at that place. `Proc` and
`Timer` rest on it.

### Preemption counter: `Preempt`

One memory access at a time: `proc_forbid()` and `proc_permit()` read and write
`preempt_count` with interrupts enabled and no atomic instruction. The long
comment in `proc_forbid()` argues that this is right; `CountInv` is that argument.

### Timers and recurrent tasks: `Timer`, `RTask`

The tick counter and the expiry ticks are signed integers of `W` bits that wrap
(the build has `-fwrapv`). The history variable `left` counts the remaining
ticks without wrapping, so the invariants compare the arithmetic of the code
with real time. `sync` is chosen at the start: the interrupt's queue, or a queue
that a process polls up to `MaxLate` ticks late. `TimerAssumption` states what
the order of differences needs: delays below half the range.

`RTask` composes `Timer` with `rtask_proc`, a third user of a queue (`rtask`).
`pc` says where the process sleeps or whether it is in a callback, `wake` counts
the ticks of `timer_delayTicks()`, `NEW_TASK` is the pending signal, `running`
the task that was taken. The kernel is cooperative, as in every configuration of
the tree, so that `rtask_add()` is one step. The pool is what is neither queued
nor running.

### Events: `Event`

One process waits, interrupts trigger events and the timer on its stack expires
at any time while it is queued. `recv` and `wait` are the masks of the Signals in
the events and of the Signal of the process; `multiple` and `bit` are what
`event_select()` changes in an event; `armed` is the timer. The history variable
`pending` holds the events that happened and were not reported.

### FIFO buffer: `FifoBuf`, `FifoQueue`

One producer and one consumer, one access to memory per step; `fifo_isfull()`
reads the head twice and the consumer may move in between. `FifoQueue` is the
bounded queue it implements; the contents are the slots from head to tail, and
the consumer owns a character from the moment the head has moved.

### Heap: `Heap`

`free` is the list of free chunks in the order of the list, `used` the blocks the
callers have and the sizes they asked for. `free_mem` is the sum that the loop of
`heap_freeSpace()` adds up.

### Block devices and files: `KBlock`, `KFileBlock`

A call of the block layer is one action; what is not determined is how many
bytes the driver moves before it fails. `buffered` (the flag `KB_BUFFERED`) is
chosen at the start. The history variable `content` is what the user was told the
blocks hold; a `kblock_copy()` of a block whose changes are only in the page buffer
leaves that block what the device has (`Unstored`, `Copied`). `KFileBlock` adds the seek position and the loop of the macro
`KFILEBLOCK`, one iteration a step; between two calls the owner of the device
also copies and trims blocks.

### Settings: `Dli`, `Config`

`Dli` is the EEPROM (`fat`, `files`), the entry in RAM (`last_entry`) and the
call in progress (`pc`). A `dli_set()` copies the current file with one value
changed into the other file, then writes the FAT entry of that file with the next
counter; each write may fail or be cut by a power loss, and leaves then a file
that is `Torn` or an entry that is old, new or refused by its CRC. `before` and
`after` are what a restart would have found before the last call, and what the
call was to leave. `Config` adds the variables in RAM: the command `dli_set` sets
the variable, clamped to its range, and stores the text as it came; a start
loads the texts. `troubled` says that a write failed or was cut, or that the
settings were erased.

### Boot loader: `Tftp`, `Boot`

`Tftp` has the server of `net/tftp.c` and what it talks to: a set of datagrams
that arrive in any order, and a client that sends a packet and waits for its
acknowledgement. `session` is the `TftpSession`: whom to answer, the last block
and the cells not read yet. A file is named by its length in cells; a packet
carries three cells and is read two at a time, as 512 bytes are read 300 at a
time. `Boot` is `main()`: `pc` is `listen`, `read`, `write`, `crc` or `app`. A
cell fills a flash page; `cache` is the one page the block layer holds in RAM,
and `Store` erases a sector when its first page is stored, as the driver does on
the STM32F2. `crcCheckOk()` reads with `kblock_read()`, which takes the page in RAM
from the buffer and all others from the flash, and stores nothing (`ReadPage`). A reset may come at any time and leave a sector half erased or a
page half programmed. An assertion that fails resets the board
(`drv/kdebug.c:341`). The client and the network are external.

## Runs

| run | distinct states | what it shows |
|-----|----------------:|---------------|
| `kernel_coop` | 154,040 | cooperative kernel with priorities: `NoneForgotten`, `NoLostWakeup`, `ReadySorted`, `MutualExclusion`, the inductive `CoopInv`, and `ImplementsLock` |
| `kernel_preempt` | 343,588 | preemptive kernel with priorities: `TypeOK`, `LinkOnce`, `NoneForgotten`, `NoLostWakeup` |
| `kernel_live` | 552 | `SemaphoreGranted` and `ReadyRuns` for cooperative processes |
| `preempt_count` | 243 | `CountExact`, `ReadStillValid`, `CountInv` |
| `rtask` | 410,192 | `QueueSorted`, `OnTime`, `TakesDueTask`, `AllExpire` |
| `event` | 8,451 | `OnlyWhatHappened`, `StackTimer`, `NoStaleTimeout`, `NoLostWakeup`, `TimeoutEnds` |
| `fifo` | 10,240 | `IInv`, `ImplementsQueue` |
| `heap` | 26,968 | `Partition`, `Merged`, `FailsOnlyIfFull` |
| `kfile_block` | 715,936 | `ReadsBack`, `CleanIsCoherent`, `TrimmedIsStored`, `OutsideUntouched`, `ReturnIsExact`, `TypeOK` |
| `dli` | 3,051,664 | `Recoverable`, `StartsAsItRan` |
| `boot` | 1,239,683 | `RunsWholeFirmware`, `PagesInPlace`, `BoardStarts` |
| `kernel_obtain_preempted` | violated | `WakesOnlyByRelease`, the finding below |

What they mean:

* Kernel. `NoneForgotten`: every live process runs, is ready, or is where somebody
  will wake it up. `NoLostWakeup`: nobody sleeps on a signal it has received.
  `LinkOnce`: the link of a process is in one list, once. `MutualExclusion`: who
  came back from `sem_obtain()` is the only owner, and its nesting is counted
  right. `ImplementsLock`: semaphores are granted in the order of the calls, and are
  taken from everybody only by the reset that a failed assertion causes.
* Preemption counter. `CountExact`: it is the number of open sections of the
  running process, and no other has any. `ReadStillValid`: the value that was
  read is still in memory when it is written back.
* Timers and tasks. `QueueSorted` and `OnTime`: order and expiry agree with real
  time across the wrap. `TakesDueTask`, the pair of assertions of `rtask_proc`:
  when it wakes up there is a task to take and it is due, although tasks were
  added while it slept for another one. `AllExpire`: every timer gets its turn.
* Events. `OnlyWhatHappened`: a call reports what happened and was not reported.
  `StackTimer`, `NoStaleTimeout`: the timer on the stack and its signal do not
  outlive the call. `TimeoutEnds`: a wait with a timeout comes to an end.
* FIFO and heap. `ImplementsQueue`: the buffer is a bounded queue. `Partition`: no
  byte is given twice or lost. `Merged`: free chunks are sorted and never touch.
  `FailsOnlyIfFull`: an allocation fails only if no gap is big enough.
* Blocks and files. `ReadsBack`: a read returns what was last written, or what the
  device had where a copy has moved the changes of its source away.
  `CleanIsCoherent`: a clean buffer is what the device has. `TrimmedIsStored`,
  `OutsideUntouched`: what leaves the window is stored, and is not changed after.
  `ReturnIsExact`: a call has moved exactly the bytes it reports.
* Settings. `Recoverable`: a restart finds the settings of before or of after the
  last call, whatever write was cut. `StartsAsItRan`: unless there was trouble,
  the variables loaded are those that were running.
* Boot loader. `RunsWholeFirmware`: whenever the board jumps, the pages are those of
  one whole firmware, all of them in the flash but for the one that is still dirty
  in RAM. `PagesInPlace`: no page is skipped, repeated, shifted
  or programmed over something else. `BoardStarts`: once the faults stop, the
  board runs an application in the end.

Every property of a passing run has a mutant: a plausible error in one mapped
definition under which TLC finds that property violated.

### Bounds, and why they are enough

* Kernel: three processes, one semaphore, one signal bit, two priorities, a
  quantum of one tick, nesting of two. Three processes are the owner, the waiter
  and the one that comes in between; two priorities distinguish higher, equal and
  lower; with one tick the quantum is both zero and not zero. `kernel_live` has
  four, so that two processes can alternate while others wait; there nobody nests,
  since processes that keep resetting the board starve the others.
* `kernel_coop` has no interrupt that posts, with which `ReadySorted` would not
  hold, and `kernel_preempt` has no semaphores, with which `LinkOnce` would not;
  see the limits below.
* `preempt_count`: three processes, nesting of two.
* `rtask`: a counter of 4 bits wraps every 16 ticks, so every pair of ticks is
  met on both sides of the wrap; two one-shot timers and a periodic one. The
  delays are 3 and 4: with three tasks that each cost a tick, the shortest delays
  that do not overload the process. A process that is ready is run, and a
  callback returns, before a task is more than one tick overdue; how much later a
  task is taken because the process slept for another one is not bounded by the
  model.
* `event`: two events that are selected together and one that is waited for
  alone; all of them can happen before the process runs.
* `fifo`: a buffer of four bytes: head and tail meet each other at both ends.
* `heap`: six granules, requests of 0 bytes, of less, exactly and more than one
  granule; enough for a free chunk with used neighbours on both sides.
* `kfile_block`: two blocks of two bytes, requests of up to three bytes, which
  begin and end within a block or cross the boundary; the two byte values are
  symmetric, since bytes are only moved.
* `dli`: two keys, of which one has a variable; values in the range, beyond it
  and not a number; a counter of 2 bits, which wraps after four calls.
* `boot`: two files of two packets, one of which ends with an empty packet, and
  one with a name that is refused; sectors of two pages. At most two faults in a
  behaviour: a datagram lost or repeated, a resent packet that was only late, a
  timeout although the client is there, a client that leaves or starts again
  early, an acknowledgement or a page that cannot be sent or stored, a reset. Two
  are what it takes to leave a session half-way and disturb the next one. A
  datagram is not delayed beyond the attempt after its own.

### Fairness

* `kernel_live` (`CoopSpec`): weak fairness of the idle loop; strong fairness of
  the rest of a kernel call a process is in, since a process that gets the CPU
  runs it; and, as what cooperative scheduling asks of the processes, strong
  fairness of `proc_yield()` and of `sem_release()` of what they hold.
* `rtask`: weak fairness of the tick interrupt (the hardware clock never stops),
  of the loop that is polling, of the process that polls its queue, and of
  `rtask_proc` when it is ready.
* `boot`: weak fairness of the board, and of a client that goes on trying: it
  resends a packet that was not answered, gives up when the board does not serve
  it, and begins again once the board listens.
* `event`: weak fairness of the steps of the process once it is ready, and of the
  timer that is queued, which is what `rtask` and `kernel_live` show.

## Finding

`sem_obtain()` permits preemption before it gives the CPU away
(`kern/sem.c:127`). A tick in between puts a process that is linked in the wait
queue into the ready list: it runs again without any `sem_release()`. The run
`kernel_obtain_preempted` shows it; the quotation is in `PROJECT.json`.

### Limits of the passing runs

The passing runs stay within these limits because beyond them the code does not
keep the properties, or their part of the code is not in use.

* An interrupt that posts during `proc_setPri()` inserts into a list that is not
  sorted at that moment, and the list stays unsorted (`kern/proc.c:444`).
* Two processes that `sig_post()` each other and wait go to the head of the ready
  list every time: a third of equal priority is never run (`kern/signal.c:242`).
  `ReadyRuns` is checked without signals.
* The owner that nests `sem_obtain()` while others wait fails an assertion
  (`kern/sem.c:132`), which is compiled in unless debugging is turned off, and the
  board is reset; the same nesting by `sem_attempt()` goes on. `kernel_coop`
  includes both. No property says that an owner can always nest.
* `event_select()` reports one event and clears the bits of all that happened
  (`mware/event.c:153`), leaves the events on the Signal of the process for good
  (`mware/event.c:146`), and accepts eight events although bit 7 is the timeout
  (`mware/event.c:160`). So `Event` does not claim that every event is reported,
  and the events selected together are never waited for alone.
* A load into the page buffer that fails leaves foreign bytes in a buffer that
  passes for clean (`io/kblock.c:139`): `LoadFails` is `FALSE`. Stores and direct
  reads do fail in the run.
* `kblock_copy()` from a block whose changes are still in the page buffer makes
  them the content of the destination only (`io/kblock.c:202`): the buffer is
  relabelled, and the source falls back to what the device has, although
  `io/kblock.h:368` says that the function copies one block to another.
  `kfile_block` includes such copies, and `content` says where the changes went.
* The flush at the end of `receiveFirmware()` may fail (`boot/main.c:239`), and a
  transfer that breaks off leaves a page dirty in RAM. `crcCheckOk()` reads that
  page from the buffer and can pass, and the board jumps to a firmware whose page
  the flash does not have. `RunsWholeFirmware` allows this page and no other.
* `event_waitTimeout()` answers "timed out" when the event and the timeout both
  arrive before the process runs, and the event is lost (`mware/event.c:112`): no
  property says that the answer tells the two apart.
* With preemption, `rtask_proc` may run a task before `rtask_add()` signals it
  (`kern/rtask.c:116`), and the late signal wakes it on an empty list.
* A `dli_set()` that fails leaves `last_entry` on the other file
  (`common/dli.c:431`): the next one copies the file that was not completed over
  the only good one. `Recoverable` holds while `agreed`: every `dli_set()` since the
  start began when RAM and FAT named the same file. `dli_reset()` is not
  atomic, and keeps `last_entry`. Reads of the EEPROM are taken to succeed, and
  an interrupted write to hurt only the entry it writes, although both share a
  page. C leaves open whether `currIni()` or `nextIni()` is called first; the
  model has them in the order they are written.
* The block number of TFTP is compared in `int` and would stick at 65536 blocks
  (`net/tftp.c:83`); no firmware is that long. The CRC is taken to tell a whole
  firmware from any other content, and a page that is not a header to have no
  plausible size.

## Proofs

| module | theorem | states |
|--------|---------|--------|
| `AsyncProofs` | `CounterExact`, `ReadValid`, `CounterInvariant` | the unlocked counter is exact, for any number of processes and any nesting |
| `AsyncProofs` | `Safe` | producer and consumer of the FIFO never meet in a slot, for every capacity |
| `AsyncProofs` | `IsQueue` | the FIFO buffer implements `FifoQueue` |
| `KernelProofs` | `TypeCorrect` | `Spec => []TypeOK` for all constants, both kernels |
| `CoopProofs` | `CoopInvariant` | `~PREEMPT /\ Spec => []CoopInv` |
| `CoopProofs` | `Exclusion`, `Links` | `MutualExclusion` and `LinkOnce` of the cooperative kernel |
| `CoopProofs` | `Wakeups`, `Remembered` | `NoLostWakeup` and `NoneForgotten` of the cooperative kernel |
| `CoopProofs` | `Priorities` | `ReadySorted` of the cooperative kernel, under `SetPriUndisturbed` |
| `CoopProofs` | `IsLock` | `~PREEMPT /\ Spec => ImplementsLock`: its semaphores implement `Lock` |
| `SignalProofs` | `PreemptLinks`, `PreemptRemembers`, `PreemptWakeups` | `LinkOnce`, `NoneForgotten` and `NoLostWakeup` of both kernels, under `Semaphore = {}` |
| `SignalProofs` | `PreemptPriorities` | `ReadySorted` of both kernels, under `Semaphore = {}` and without `proc_setPri()` |
| `RTaskProofs` | `TimersSorted`, `TimersOnTime` | `QueueSorted` and `OnTime`, for any timers, delays and width of the counter |
| `RTaskProofs` | `TasksAreDue`, `TasksSorted` | `TakesDueTask`, `QueueSorted` and `OnTime` of `rtask_proc`, under `[]InRange` |
| `AsyncProofs` | `WakesUp` | `EventSpec => []NoLostWakeup`, for any number of events |
| `AsyncProofs` | `ReportsAreTrue`, `TimerDiesWithCall`, `TimeoutsAreClean` | `OnlyWhatHappened`, `StackTimer` and `NoStaleTimeout`, under `FewEvents` |
| `HeapProofs` | `HeapPartition`, `HeapMerged`, `HeapFailsOnlyIfFull` | `Partition`, `Merged` and `FailsOnlyIfFull`, for any memory, granule and requests |
| `StorageProofs` | `WindowTypes`, `TrimmedAreSafe` | `TypeOK` and `OutsideUntouched`, for any blocks and whatever fails |
| `StorageProofs` | `DeviceIsAnArray`, `CleanBuffer` | `ReadsBack` and `CleanIsCoherent`, under `~LoadFails` |
| `StorageProofs` | `TrimStores`, `CallsAreExact` | `TrimmedIsStored` and `ReturnIsExact`, under `~LoadFails` |
| `StorageProofs` | `DliRecoverable` | `DliSpec => []Recoverable`, for any settings and any width of the counter |
| `StorageProofs` | `ConfigStartsAsItRan` | `ConfigSpec => StartsAsItRan`, for any settings and ranges |
| `AsyncProofs` | `BootRunsWholeFirmware`, `BootPagesInPlace` | `RunsWholeFirmware` and `PagesInPlace`, for any files, packets, sectors and number of faults |

The assumptions are the named `ASSUME`s of the modules, which TLC evaluates on
each instance, and the conditions under which the code keeps the property at all
(see the limits above):

* `~PREEMPT` in `CoopProofs`, `Semaphore = {}` in `SignalProofs`: the finding
  shows that the semaphores do not work with preemption. All the rest of the
  kernel is in the theorems of `SignalProofs`: signals, forbidden sections, posting
  interrupts, priorities, creation and exit.
* `SetPriUndisturbed`: not both `proc_setPri()` and interrupts that post are in
  `Ops`, since an interrupt between the two halves of `proc_setPri()` inserts into
  a list that is not sorted at that moment.
* `FewEvents`: `event_select()` is given at most four events, so that their bits
  stay below `SIG_SINGLE`. The fifth event would have the bit that
  `timer_delay()` waits for, the eighth that of the timeouts.
* `~LoadFails`: a page that is loaded is loaded whole.
* `InRange`: the tasks of `rtask_proc` expire within half the range of the counter
  of each other. This is a condition on the load: each task costs a tick at
  least, and with more tasks than ticks they fall behind without end, until the
  order of differences turns round. It is an assumption on the behaviour
  (`[]InRange`) because no bound on a single delay implies it. With the delays of the run it holds
  on a counter of 5 bits. On the 4 bits of the run two tasks may get 8 ticks
  apart, one more than the theorem allows, and TLC shows that it still goes
  well.

*Preemption counter.* `CountExact` is not inductive: a process may resume between
its read and its write. `CountInv` adds that a process without the CPU is at most in
the middle of `proc_forbid()` and has read 0. It can only have lost the CPU when
the counter was 0, and it only gets it back when the counter is 0 again.

*Types.* One lemma per operation. `KernelProofs` begins with what the list
operations and the operations of `Proc` return; inserting, removing and taking the
head of a sequence are characterised once, in terms of membership, absence of
duplicates and order, and cited from then on. The quantum stays in `0..QUANTUM`.

*Cooperative kernel.* `MutualExclusion` needs to know who can be running.
`SchedInv` says that a process in the middle of a call has the CPU, that a
runnable process is in no wait queue and has no wait mask, and that the process
a releaser is about to wake up is asleep and linked nowhere. `SemInv` relates
owner, `nest_count`, queue and callers: a process that waits wants exactly the
semaphore in whose queue it is, or has been handed it; the owner's nesting count
is the number of its obtains, or 1 while the hand-over lasts. Their conjunction
`CoopInv` is inductive relative to `TypeOK`. Each action has a lemma for the
conjuncts it can disturb: those of the scheduler and of the semaphores are in
`CoopStepProofs`, and those of the signals in `CoopProofs`, which puts them
together.

Three more invariants are inductive relative to `CoopInv`. `MaskInv` says that who
has a wait mask waits for exactly the signals of its call and has received none of
them, and that who is in `sig_waitSignal()` without one has received some; the test and
the setting of the mask are one step for the interrupts, which is why it holds.
`LifeInv` says that every live process is runnable, queued, handed a semaphore
that its releaser is about to announce, or has a wait mask, and that the owner of
a semaphore is alive. For the first state it takes a pigeonhole argument: the
ready list holds as many processes as have been started, all different.
`SortInv` says that the ready list is sorted by priority, or, between the two
halves of `proc_setPri()`, that it is so but for the process whose priority was
changed; who is there has the CPU, so that nobody else inserts into the list. The
place where an insertion stops comes after every higher and before every lower
priority, whether the loop breaks at an equal one or not; that is a lemma about
descending sequences of numbers, and all operations on the list rest on it.
For `IsLock` the line of a semaphore is its wait queue, behind the owner while
that has not come back from `sem_obtain()`. A release that hands over moves the
head of the queue to the owner and leaves the line as it was; the return from
`sem_obtain()` is the grant. Who makes the assertion fail is inside: a semaphore
that is free has no queue, and an owner that has not come back makes no call.
After a reset (`bassert`) the state is an initial one, for which all invariants
have been shown.

*Kernel without semaphores.* Under preemption a process may lose the CPU in the
middle of a call, and `SchedInv` no longer holds. `SignalInv` says instead that
the ready list holds nobody twice and not the running process (`Tidy`), that the
live processes are those that run, are ready or have a wait mask, never two of
these (`LiveInv`), and that the zombie list holds nobody twice and only processes
that have exited, and that two processes in `proc_freeZombies()` hold different
zombies (`ReapInv`). What the scheduler, a wake-up and the return from an
interrupt do is said in terms of who is runnable afterwards (`Runs`), one lemma
for each, and the actions cite these. `MaskInv` needs only the part of this that
it shares with `CoopInv` (`AwakeInv`), so that its proof serves both kernels. For
`PreemptPriorities` nobody is inside `proc_setPri()`, so that every insertion
finds the list sorted; who is created is not in the list when its priority is set.

*Timers and tasks.* The invariant ties each expiry tick to the time really left:
the tick is the clock plus the time left, modulo 2^W (`Right`). While all times
left are within half the range of each other, the W-bit difference of two ticks
is the difference of the times (`Later` is the order of `left`), and the test of
`timer_poll()` is `left <= 0`. An insertion then keeps the queue sorted, and a tick
moves the clock and all times together. The range follows from the delays for the
timers of the interrupt, which are gone when `left` is 0, and for a queue that is
polled at most `MaxLate` ticks late. For `rtask_proc` the invariant adds what it
sleeps for: while it sleeps for a task the queue is not empty and the first task
is due no later than it wakes up, and a `NEW_TASK` that is pending while it waits
for one means that there is a task.

*Events.* For `NoLostWakeup` it is enough that the test of the received signals and
the setting of the wait mask are one step. The other three need to know where a
signal can come from: `EventInv` says which bit each event stands for after the
`event_select()` calls so far (`Mapped`), that such a bit in a Signal stands for an
event that happened and was not reported (`Stands`), and that the bit of a timeout
is only set by the timer of the call in progress, once it has left the queue
(`TimerInv`).

*Block devices.* `ReadsBack` and `CleanIsCoherent` need each other: a block is read
from the buffer or from the device, and what the buffer holds must not be lost
when it is used for another block. A copy that finds the source dirty in the buffer
takes it to the destination, so that the source is read from the device again. With the types (`curr_blk` is in the window)
they are inductive. A store that fails half-way leaves the buffer dirty, which is
why it need not succeed; a load that fails does not, which is why it must. For
`ReturnIsExact`, `MovedInv` says what the iterations of a call have moved so far,
in terms of the file as it was when the call began; that the blocks of a position
tile the file needs `\div` and `%` only through three lemmas.

*FIFO buffer.* `Apart` says that the two contexts never touch the same slot.
It becomes inductive with what the first read of `fifo_isfull()` has learned. For
the refinement each access to memory is shown to be a `Put`, a `Take`, a
`Discard` or nothing.

*Heap.* `Merged` and `Partition` need each other. `HeapInv` is their conjunction in
terms of single bytes: the chunks are sorted with gaps between them, chunks and
blocks are whole granules of the memory, and each byte is in one of them. Two
lemmas carry it. `Taken`: the end of a chunk, or all of it, leaves the list and no
other byte does. `Freed`: a block that holds no free byte lies in a gap of the
list (`Between`); it grows the chunk before it or becomes one (`Grown`, `Added`),
and one merge with the next chunk restores the gaps (`MergedNext`).
`FailsOnlyIfFull` follows because bytes that are free one after the other are in
one chunk (`InOneChunk`): an address where the request would fit lies in a chunk
that the loop would have found. That `heap_freeSpace()` counts the free bytes is
an induction along the list. It is made without an induction theorem: if the sum
were wrong after some chunk there would be a first such chunk (`FirstPosition`,
from the minimal elements of a family of finite sets), and the one before it
refutes it.

*Settings.* `Recoverable` does not tell which of the two files the call in
progress is writing. `DliInv` adds it, while `agreed`: during the copy a restart
would take the other file (`Leaves`), with the counter in RAM; when the entry is
to be written the new file is complete and the counter in RAM is the next one, so
that the entry wins if it is whole (`CounterOrder`, also at the wrap) and leaves
the choice as it was if it is refused. `ConfigInv` adds that without trouble the
variables are what loading the file in force, or the one being written, would
give.

*Boot loader.* `PagesInPlace` looks at the flash, and what gets there was a datagram
first. `BootInv` follows the cells of the file: what `tftp_read()` has left over and
what of `recv_buf` is not written yet are the cells that follow the page in RAM, in
order, and while the transfer goes on they end where the last acknowledged block
ends (`StreamOK`). So a packet is only taken when it continues the file, although
a repeated or late one may have another number. The page in RAM is a cell in its
place, the flash below it is complete, and the rest of its sector is erased unless
storing that page is what erases it (`DoneOK`, `Fresh`). `RunsWholeFirmware` needs
one thing more: `crcCheckOk()` reads all pages but one from the flash, and that one
from the buffer, which holds what the flash has or, when it is dirty, a page that
may still be stored in its place (`CacheOK`, `Storable`). The proof does not
use the bound on the faults. `BootAssumption` says that sectors have pages, that
the two marks of a page that is no cell differ, and that there is a longest
file, which the flash holds.

Only model-checked: liveness (`SemaphoreGranted`, `ReadyRuns`, `AllExpire`,
`TimeoutEnds`, `BoardStarts`), which is out of the prover's reach. Every safety
property of a passing run has a theorem.

## What is not modelled

* Sequential wrappers of what is modelled: message ports (a list and an event),
  the serial driver (waits around the FIFO), `kfile_fifo`, the hash table, which
  its only user fills at start-up.
* Code that no target of the build compiles: `net/xmodem.c`, `fs/battfs.c`. In
  `common/dli.c`, `dli_updateStat()` has no caller; the serial number and the IP
  address are written in place, without a second copy to recover.
* Left out for good: hardware access (buses, sensors, displays, CPU support,
  boards), third-party code (lwIP, FatFs), bit-level functions (checksums,
  ciphers), text formatting, drawing, the emulator and the host tools.
* Data that no property looks at: stacks and registers, names, log output, the
  contents of heap blocks. `kern/coop.c`, `kern/preempt.c` and `kern/irq.c` are
  earlier implementations of the scheduler that no target builds.
