# TLA+ verification of the TOPPERS/ASP3 kernel for GR-PEACH

The repository is TOPPERS/ASP3, a real-time kernel of the ITRON family, for the
GR-PEACH board (Renesas RZ/A1, ARM Cortex-A9), with its configurator, system
services, extensions and a sample. This directory holds TLA+ modules that model
the kernel proper (`src/asp3/kernel`, and the dispatcher and timer of
`src/asp3/arch/arm_gcc`), five of its extensions (`src/asp3/extension`) and two of
its system services (`src/asp3/syssvc`), configurations that check them with TLC,
and proofs checked with TLAPS.

Source paths below are relative to `src/asp3/`.

## 1. Inventory

### Components, their state and operations

| Component | State | Operations | Modelled by |
|---|---|---|---|
| Scheduler and dispatcher (`kernel/task.c`, `task.h`, `arch/arm_gcc/common/core_support.S`) | `ready_queue[]`, `ready_primap`, `p_runtsk`, `p_schedtsk`, `enadsp`, `dspflg`, each TCB's `tstat`, `priority`, `bpriority` | `make_runnable`, `make_non_runnable`, `make_dormant`, `make_active`, `change_priority`, `rotate_ready_queue`, `dispatch`, `exit_and_dispatch`, interrupt exit | TaskCB, TaskCtl |
| Waiting (`kernel/wait.c`, `wait.h`) | `p_winfo` (pointer to the TMEVTB or the error code, one word), wait queues, `p_wobjcb` | `make_wait[_tmout]`, `make_non_wait`, `wait_complete`, `wait_tmout[_ok]`, `wobj_make_wait[_tmout]`, `wobj_change_priority`, `init_wait_queue` | TaskCtl |
| Task management, termination, synchronisation (`task_manage.c`, `task_term.c`, `task_sync.c`) | `actque`, `wupque`, `raster`, `enater` | `act_tsk` .. `dly_tsk` | TaskCalls |
| System state (`sys_manage.c`), interrupts (`interrupt.c`, `core_support.S`) | CPU lock, interrupt priority mask, nesting | `rot_rdq`, `loc_cpu`, `unl_cpu`, `dis_dsp`, `ena_dsp`, `chg_ipm`, entry and exit of a handler | TaskCalls |
| Mutex (`mutex.c`) | `p_loctsk`, chain `p_lastmtx`/`p_prevmtx` | `loc_mtx`, `ploc_mtx`, `tloc_mtx`, `unl_mtx`, `ini_mtx`, and the hooks that task management calls | MutexCtl, MutexCalls |
| Semaphore (`semaphore.c`) | `semcnt` | `sig_sem`, `wai_sem`, `pol_sem`, `twai_sem`, `ini_sem` | SemaphoreCalls |
| Event flag (`eventflag.c`) | `flgptn`, each waiter's `WINFO_FLG` | `set_flg`, `clr_flg`, `wai_flg`, `pol_flg`, `twai_flg`, `ini_flg` | EventflagCalls |
| Data queue (`dataqueue.c`) | ring buffer, `count`, `head`, `tail`, two wait queues | send, forced send, receive, their variants, `ini_dtq` | DataqueueCalls, Channel |
| Priority data queue (`pridataq.c`) | blocks in a sorted list and a free list | send, receive, their variants, `ini_pdq` | PridataqCalls, PriChannel |
| Memory pool (`mempfix.c`) | `fblkcnt`, `unused`, `freelist`, marks | `get_mpf`, `pget_mpf`, `tget_mpf`, `rel_mpf`, `ini_mpf` | MempfixCalls |
| Time events (`time_event.c`) | heap of TMEVTBs, `current_evttim`, `boundary_evttim`, `monotonic_evttim`, `systim_offset`, `in_signal_time` | `tmevtb_enqueue`, `tmevtb_dequeue`, `update_current_evttim`, `set_hrt_event`, `signal_time` | TimeHeap, TimeEvent |
| Time, alarm and cyclic notifications (`time_manage.c`, `alarm.c`, `cyclic.c`) | `almsta`, `cycsta` | `set_tim`, `get_tim`, `adj_tim`, `sta_alm`, `stp_alm`, `sta_cyc`, `stp_cyc`, callbacks | TimeCalls |
| High resolution timer (`arch/arm_gcc/rza1/chip_timer.[ch]`) | counter, compare register, request | read the count, set the next interrupt, raise it, serve it | HrtTimer; for the kernel, TimeEvent |
| Message buffer extension (`extension/messagebuf`) | ring of words, `fmbfsz`, `head`, `tail`, `smbfcnt` | send, receive, their variants, `ini_mbf`, `messagebuf_signal` and its hook in `wait.c` | MessagebufCalls, MessageChannel |
| Sub-priority extension (`extension/subprio`) | `subpri`, `subprio_primap` | `chg_spr`, the changed routines of `task.c` | SubprioCalls |
| Overrun handler extension (`extension/ovrhdr`) | `staovr`, `leftotm`, `ovrtimer_flag`, the timer | `sta_ovr`, `stp_ovr`, `call_ovrhdr`, `ovrtimer_start`, `ovrtimer_stop` | OverrunCalls |
| Drift adjustment extension (`extension/drift`) | `drift_rate`, `current_evttim_frac` | `set_dft`, the changed routines of `time_event.c` | DriftArith, DriftTime |
| Dynamic creation extension (`extension/dcre`) | lists of unused control blocks, the kernel's memory | `acre_yyy`, `del_yyy`, the calls on objects that may not exist | DcreTask, DcreObjects, DcreCalls, DcreTime |
| Serial interface driver and SCIF (`syssvc/tSerialPortMain.c`, `arch/arm_gcc/rza1/tSCIF.c`) | two ring buffers, two semaphores, flow control, enable bits, FIFO | open, close, read, write, control, both callbacks | SerialPort |
| System log (`syssvc/tSysLog.c`) | ring buffer, count of the lost | write, read, mask, flush | LogBuffer, LogService |
| Start-up (`startup.c`) | - | `sta_ker` | the initial states |
| Not modelled | | | section 7 |

### How they interact

There are no messages: all components of the kernel share the TCBs and the
queues, under the CPU lock. A service call computes under the lock, calls the
routines of `task.c` and `wait.c`, and ends with `dispatch()` if `p_runtsk` and
`p_schedtsk` differ (in a handler, it only leaves them different, and the exit of
the outermost handler dispatches). Task management calls back into the mutexes
(through `mtxhook_*`) when a priority is changed or a task ends, and `wait.c` into
the message buffers. Waits with a timeout, alarms and cyclic notifications
register a TMEVTB in the heap; the timer's interrupt runs `signal_time`, which
calls them back. The serial driver sits on two semaphores and on callbacks from
the SCIF's interrupt; the system log is written from any context.

An extension is a changed copy of kernel files to be laid over the kernel. Each
is modelled as the routines it changes, on top of the modules for those it does not.

### What is hard here

- **Interleavings.** Between any two calls of a task an interrupt may be taken,
  nested, and its handlers call services; dispatching may be disabled, the CPU
  locked, the interrupt mask raised. `rel_mpf` looks at shared state before it
  takes the lock. The serial driver takes and gives up the lock for each character.
- **Races for one waiting task.** A wake-up, a timeout, `rel_wai`, `ter_tsk`,
  `ras_ter`, the reinitialisation and the deletion of the object all end a wait.
- **Deferred effects.** A termination request waits for `ena_ter`, `ena_dsp` and
  `chg_ipm`; a dispatch waits for the end of the handlers.
- **Incremental state.** `p_schedtsk`, the bitmap, the current priority under
  ceilings, `fblkcnt`, the timer setting are updated, not recomputed.
- **Reused state.** A control block taken from a list of unused ones holds what
  the deleted object left in it.
- **Wrapping numbers.** Event times, the timer's counter and the system time
  wrap at different cycles; time stands still in the middle of `signal_time`, and
  goes on while the compare register is computed. Conversions are split so that
  their products fit into 32 bits.

### What makes each component correct

| Component | Properties (module) |
|---|---|
| Scheduler | ScheduleOK, QueueOK, RunningOK, NoPreemption, FifoWithinPriority (TaskCalls) |
| Waiting | WaitInfoOK, TstatOK (TaskCalls), WaitOrderOK (MutexCalls), NoStarvation (NeverStarves, MempfixCalls) |
| Termination | TerminationOK, AssertsHold (TaskCalls) |
| Mutex | OwnershipOK, CeilingOK, HandOver (MutexCalls) |
| Semaphore, event flag | SemFlagOK (SemOK, FlagWaitOK), SetFlagOK |
| Data queues, message buffer | QueuesOK (DtqOK, PdqOK, MbfOK), ImplementChannels |
| Memory pool | PoolOK, BlocksOK |
| Time | HeapOK, OthersStay (HeapCalls); EventsOK, ArmedOK, ImplementsService (both with adjustments: TimeKept, MCTime), SystemTime, AlarmOccurs (TimeCalls) |
| High resolution timer | HrtInTime, HrtSteady (HrtTimer) |
| Dynamic creation | ExistenceOK, KernelOK, ObjectsOK, MemoryReturned, NoLeak, DeletionReleases (DcreCalls); NotificationsOK (DcreTime) |
| Sub-priorities, overrun handler | ExtensionsOK (SubprioOK, OverrunOK), SubprioOrder |
| Drift adjustment | TimersOK (DriftOK) |
| Serial driver | SerialOK, ReceivedIsRead, StreamsKept (StreamKept), SendGoesOn (SerialPort) |
| System log | StreamsKept (ImplementsLog, LogBuffer) |

The hazards that these properties are for are listed, each at its line, in
`PROJECT.json`.

## 2. The modules

```
TaskCB - TaskCtl - MutexCtl - TaskCalls -+- MutexCalls                        MCMutex
  |                   |                  +- MempfixCalls                      MCMpf, MCTime
  |                   |                  +- SemaphoreCalls   -+
  |                   |                  +- EventflagCalls    |
  |                   |                  +- DataqueueCalls    +-              MCObjects
  |                   |                  |    ==> Channel     |
  |                   |                  +- PridataqCalls     |
  |                   |                  |    ==> PriChannel  |
  |                   |                  +- MessagebufCalls  -+
  |                   |                  |    ==> MessageChannel
  |                   |                  +- OverrunCalls -----+-              MCTask
  +- SubprioCalls ---------------------------------------------+
                      |                  +- TaskProof -+- MutexProof (with MutexCalls)
                      |                                +- ObjectProof
                      |           (with SemaphoreCalls, EventflagCalls, MempfixCalls,
                      |                                            DataqueueCalls)
                      +- DcreTask - DcreObjects - DcreCalls                   MCDcre

TimeHeap -+- HeapCalls - HeapProof                                            MCMutex
          +- TimeEvent - TimeCalls ==> TimerService                           MCTime
          |                 +- TimeProof (with HeapProof)
          |                 +- DcreTime -+-                                   MCDcreTime
          +- DriftTime (with DriftArith) +

HrtTimer (DeviceProof) -----------------+
SerialPort - SerialProof ---------------+-                                    MCDevices
LogBuffer ==> LogService (DeviceProof) -+                            (==> refines)
```

**State.** The state of the kernel is one record `k` (TaskCB!KernelState), with
the fields of the TCBs, the queues and the dispatcher's variables under their
names in the code. A routine of `task.c`, `wait.c` or `mutex.c` is an operator
from such a record to the next (`make_runnable(k, t)`), so that a service call
composes the routines that it calls, in the order of the code. TaskCtl keeps
what the routines change; `broken` collects the asserts of the code that fail.

**Actions.** A service call runs under the CPU lock, so it is one action: its
guard is the CHECK_ macros of `check.h` and the early returns, its effect the
whole critical section with the dispatch at its end. An error return that changes
nothing is stuttering. `irq_entry` and `irq_exit` are the entry and exit of an
interrupt handler, nested up to MaxNest; while one runs, the calls open to
handlers are calls of that handler. `signal_time(t)` is the expiry of the
timeout of one waiting task. In these modules time is abstract: any registered
timeout may expire at any time.

**Data.** A task, object, message or block is a model value or a small number. A
flag word (`tstat`) is a set; the bitmap is the set of its priorities; a queue
linked through `task_queue` is a sequence; a bit pattern of an event flag is a set
of bits. The union WINFO keeps its double use: one word that is a pointer to
the TMEVTB during a wait with a timeout, and the error code after it.

**Objects.** Each object module adds its control block as a variable, its calls,
and states what the calls of TaskCalls leave alone. MempfixCalls splits `rel_mpf`
where the code does: the checks before `lock_cpu`, and the rest. DataqueueCalls,
PridataqCalls and MessagebufCalls show, with a refinement mapping, that ring
buffer, lists and waiting senders together are a channel (Channel, PriChannel,
MessageChannel). The buffer size is chosen in the initial state and never changes.
A message buffer's ring holds words: the size of a message and then its bytes, which
may wrap around the end. MCObjects puts the five kinds of objects side by side over
the same tasks, with one of them in use in each initial state: they share no state
but the tasks, the queues and the dispatcher.

**Dynamic creation.** DcreTask has the lists of unused control blocks, the
marks TA_NOEXS and the areas of the kernel's memory, and restates each call of
TaskCalls with the check for existence under the lock. DcreObjects adds the
objects, instantiating the object modules of the kernel for what a call does to an
object that exists. Nothing but the checks and the initialisation is written twice.
DcreTime does the same for alarms and cyclic notifications, whose unused control
blocks are linked through the fields of their time event.

**Extensions of the scheduler.** SubprioCalls restates the routines of `task.c`
that insert into the ready queue by sub-priority, over the same KernelState.
OverrunCalls keeps the overrun timer, what each task has left, and two history
fields, `used` and `given`, that say what they should be.

**Time.** TimeHeap has the heap with its hole moving up and down
(`tmevt_up`, `tmevt_down`) as in the code. TimeEvent adds the clocks and the
timer, TimeCalls the users and `signal_time`, which here is a process of steps
(start, call, handler returns, look again, end) since the CPU is unlocked while a
handler runs. Timeouts of waiting tasks are started, stopped and called back in
the same way as alarms, so that alarms stand for them too. TimerService is what
all of it promises: due times on a clock that never wraps around. DriftArith has the
conversions of the drift extension as arithmetic, DriftTime the routines that use
them, with the history field `exact`, the event time as it really goes on.

**Devices.** HrtTimer has the registers of the timer and `target_hrt_set_event`
as steps between which the counter goes on, in 32-bit arithmetic. SerialPort
has one action for each CPU-locked section of the driver: where the code unlocks
and goes on, the state says how far the task got (`call`). LogBuffer is the ring of
log messages; LogService is what it implements: a stream in which a loss is
reported in its place.

`PROJECT.json` maps each definition to the lines it stands for.

## 3. The runs

| Run | Instance | Question |
|---|---|---|
| `task` | 2 tasks, 2 priorities, handlers nested twice, every call. From other initial states: 3 tasks with sub-priorities, of the priority marked with ENA_SPR and of one that is not; 2 tasks with overrun times of 2 units | Do the task states, queues, wait information, deferred terminations and the dispatcher stay consistent under every interleaving? Are the ready queues ordered by sub-priority? Is a task's processor time counted just while it runs? |
| `subprio_order` | the tasks with sub-priorities | Expected violation: see section 6 |
| `mutex_heap` | 3 tasks, 3 priorities, 2 ceiling mutexes (ceilings 0 and 1). From other initial states: 6 time events, times modulo 5, with the current time moving both ways | Do chains, ceilings and queue orders survive contention, termination, timeouts, new base priorities and reinitialisation? Is the array of time events a heap in every shape that matters? |
| `objects` | 3 tasks; a semaphore, one of three kinds of event flag, a data queue with a ring of 0 or 2, a priority data queue with 0 or 2 blocks, or a message buffer of 0 or 10 bytes | Does nobody wait for what is there? Does `set_flg` release exactly those that it should? Are the queues channels? |
| `mpf_reinit` | 2 tasks, 2 blocks | Expected violation: see section 6 |
| `time` | 2 alarms and a cyclic notification that are created and deleted; or 2 alarms with two drift rates other than one | Do the wrapping times implement due times, is the timer always set in time, and does a drift lose nothing? |
| `time_pool` | an alarm and a cyclic notification; with `adj_tim` and `set_tim`, or with the clock left alone. From another initial state: 3 tasks and a memory pool of 2 blocks | The same with adjustments; is the system time right; is a started alarm called? Are blocks never lost, doubled or miscounted, and does no task starve? |
| `devices` | a timer with a cycle of 496 counts; a serial port with buffers of 3 and 2 tasks; a log buffer of 3 messages | Is no timer interrupt overtaken, does the clock go on evenly, and do the port and the log keep their streams? |
| `serial_send` | the serial port with 1 task | Expected violation: see section 6 |
| `serial_receive` | the serial port with a writer and a reader | Expected violation: see section 6 |
| `dcre` | a static task and 2 that come and go; a semaphore and a mutex, an event flag, a data queue, a priority data queue or a memory pool | Do creation and deletion keep the lists, queues, chains and memory right? |
| `dcre_memory` | the instance of `dcre` | Expected violation: see section 6 |

**Why one run checks several parts.** `task`, `mutex_heap`, `objects`, `time`,
`time_pool`, `devices` and `dcre` have initial states that differ in which part, object,
device or variant of the kernel is at work; a variable that is not used stays as it is. The parts of such a
run do not touch each other's state in the code either (an extension replaces
kernel files, so two kernels never run together; a semaphore and a data queue meet only
in the tasks, of which every run has all the states that a wait can bring about). The
one pair of objects that does meet, a mutex whose owner waits for something
else, is in `mutex_heap` (tasks that sleep) and `dcre` (with a semaphore).

**Why the bounds are enough.** Two tasks give every pair of roles (running and
acted upon, waiting and waking); the properties whose violation takes a third
task (two tasks contending for what a third holds, the order of two others in a
queue) are checked with three, with the calls that bear on them. Two priorities
distinguish higher, equal and lower; three are used where a ceiling lies between.
Two ceilings and two mutexes exercise chains in any order. A ring of two has
distinct head, tail and wrap-around; none is a special case of the code. A message
buffer of 10 bytes, with messages of 1 and 3 bytes (4 and 6 with the size word, in
words of 2), has room for one of each kind, so that letting one sender in may or may
not make room for the next, and the larger one wraps in its middle. Six
events are the fewest for which deleting a node can move the last event *up*. The
counter of 496 counts is four blocks of 100 and a rest, with the four counts short of a
whole number of microseconds that the real one has with its blocks of 10^9. A buffer
of 3 characters has its STOP limit below full and its START limit above
empty. Symmetry is used over tasks (they only differ in their state), messages,
bits and alarms, never in a run with a liveness property. Instead of a symmetry over
the events of the heap, `mutex_heap` has a VIEW in which an event is its time and
the node that it knows (MCMutex). NoStarvation is checked of one task, any, since the
tasks of the pool are alike, and none is active at the start (an interrupt handler
starts them). `mutex_heap`,
`objects`, `time_pool` and `dcre` leave out calls of TaskCalls that do not bear on
their object; `task` leaves out none. In `task` an interrupt nests once in the
extensions: nested entries leave the overrun timer alone.

**Small cycles of the clocks.** EVTTIM_SPAN stands for 2^32, TCYC_HRTCNT for the
cycle of the counter, BOUNDARY_MARGIN for 200,000,000, HRTCNT_BOUND for
100,000,002, SYSTIM_SPAN for 2^64, RelTim for times up to TMAX_RELTIM, Thousand for
1000 (the conversions with a drift split a million into a thousand thousands). The
configurations keep the proportions that the code relies on: the
largest relative time with the adjustments fits into the cycle less the margin,
and HRTCNT_BOUND and the delay of an interrupt fit into the counter's cycle. TimesFit
(TimeCalls) says so exactly; `time_pool` evaluates it, and TimeProof proves from it what the
run checks. With values that break the proportions (for example EVTTIM_SPAN 8 in
`time_pool`, without the test of TimesFit), TLC finds that ArmedOK or the refinement
fails, which shows that the bounds are exercised.

**Bounds in guards.** MaxNest bounds the nesting of handlers, MaxDelay the delay
of the timer interrupt, MaxCounts the counts that setting the timer takes (SetAt: the
counts at which it is begun), MaxLost the messages lost before one is read, OvrTim
the overrun times. `quiet` (SerialPort) lets the port be closed only while no call
is in the middle of its work, other than waiting for a semaphore. OffsetStep (`time_pool`)
lets `set_tim` be called only where it leaves `systim_offset` at a multiple of 5: the
offset is only ever added to the time that is read, so that the other differences would
multiply the states and change nothing else. The request counts
are flags in the code (`actque`, `wupque`), so nothing else needs a bound.

**Mutants.** Next to many definitions stand `Bug_` variants: the same routine
with a plausible slip (a missing dispatch, a wrong end of a queue, a count that is
not adjusted). They are used by no specification; put in place of the real
definition, each makes the property that names it in `PROJECT.json` fail.

## 4. Fairness and assumptions

- Safety properties assume no fairness.
- AlarmOccurs (`time_pool`) assumes weak fairness of `tick` (time goes on) and of the
  steps of `signal_time` (the timer interrupt is served, and handlers return): the
  hardware and the application owe both, the code cannot work without. It is
  checked in the behaviours where the clock is not adjusted and a started alarm is not
  restarted, either of which can legitimately postpone it for ever.
- SendGoesOn (`serial_send`) assumes weak fairness of the SCIF's sending and of its
  interrupt, so that its counterexample is not a device that stopped.
- NoStarvation (`time_pool`) assumes nothing but what its statement says: blocks are given
  back infinitely often.
- The timer's interrupt is taken within MaxDelay counts, with HRTCNT_BOUND + 2 *
  MaxDelay below TCYC_HRTCNT. The code has no defence when interrupts are
  disabled for longer than the counter's cycle less HRTCNT_BOUND; that is an
  obligation of the application. ArmedOK has a slack of MaxDelay because
  `signal_time` reads the time at its start and, at its end, sets the timer
  relative to the count of that moment.
- A critical section is atomic: one processor, interrupts managed by the kernel
  masked under the CPU lock. Interrupts outside the kernel's management do not
  call it.
- MempfixCalls assumes tasks with TA_NOACTQUE, so that a terminated task is
  dormant for a step and its half-done `rel_mpf` is forgotten. In `time_pool` tasks give
  back only blocks that they were given (the application's obligation), and the pool is
  not reinitialised while a task is in the middle of `rel_mpf`.
- A control block of `dcre` is created with the same attributes each time.

## 5. Proofs

**`TaskProof`** proves, for every finite set of tasks, every number of priorities
and every nesting depth, of the specification TaskSpec:

| Theorem | States |
|---|---|
| `TypeCorrect` | `TaskSpec => []TypeOK` |
| `TstatCorrect` | `TaskSpec => []TstatOK` |
| `ScheduleCorrect` | `TaskSpec => []ScheduleOK` |
| `QueuesCorrect` | `TaskSpec => []QueueOK` |
| `RunningCorrect` | `TaskSpec => []RunningOK` |
| `WaitInfoCorrect` | `TaskSpec => []WaitInfoOK` |
| `TerminationCorrect` | `TaskSpec => []TerminationOK` |
| `NoPreemptionCorrect` | `TaskSpec => NoPreemption` |
| `FifoCorrect` | `TaskSpec => FifoWithinPriority` |
| `AssertsCorrect` | `TaskSpec => []AssertsHold` |
| `Invariance` | `TaskSpec => []KernelInv`, from which the others follow |

TaskSpec has all the calls of TaskCalls but none of an object. The invariant
nevertheless is about a kernel in which tasks wait in the queues of objects (`Waits`:
a wait queue links, once, exactly the tasks that say that they wait in it) and hold
mutexes, so that the lemmas serve ObjectProof and MutexProof too. `NoneHeld` says that no
mutex is held; only the last theorem, FifoCorrect, rests on it. The assumptions are
`TaskAssumption` and `WobjAssumption` of TaskCB.

None of them is inductive. ScheduleOK says that `p_schedtsk` is the first task
of the highest priority, but to show that a step keeps it one has to know what the
ready queues contain: that each runnable task is in the queue of its priority,
once, and no other task is, and that the bitmap marks just the queues that are not
empty (`Core`). This does not hold *within* a service call, when the task state has
been changed and the queue has not. So the lemmas about the routines of
`task.c` speak of the set R of tasks that are linked, whatever the task states
say: `make_runnable` takes `Ready(j, R)` to `Ready(j', R \cup {t})`,
`make_non_runnable` to `R \ {t}`, and only at the end of a call is R the set of
runnable tasks again (`Settled`). Likewise the wait information of the tasks that the
call is dealing with is out of step for a moment (`Fine(j, X)` for all tasks
but those of X). `Inv` is Settled, Fine for all tasks, that the running task
is runnable, and that outside of handlers it is the scheduled one. Each routine has a
lemma, each group of calls a lemma built from them, and `InvNext` puts them together.
That dispatching is enabled when `p_schedtsk` leaves the ready queue, the assert in
`make_non_runnable`, comes out of Fine (`broken` stays empty).

Two parts of the invariant and of what a step shows are for the last three theorems.
`Asked(j, X)` says of every task but those of X that a requested termination is held
back only by the task itself, while it runs with dispatching disabled: `ena_ter`,
`ena_dsp`, `chg_ipm` and the exit of a handler each have to establish it for the
running task, and each call that lets a task wait or suspends it has to end it
instead. `Follows(j, n)` is what the lemma of each group of calls concludes: the
invariant afterwards, that the running task changed only outside handlers with dispatching
enabled, and only to the scheduled one, and
while no mutex is held, `Kept`: as far as the order of the ready queues goes, the call moved at most one task.
That last is a statement about order between two queues (`Moved`: without the one task
they list the others alike, and that task, if it is in both, was put at
the end), which is closed under composition for the same task (`OneMovedAgain`), so that it
goes through calls that take a task out, change it and put it back.

**`ObjectProof`** adds the objects to this kernel. First, what the routines of `wait.c` do
to an object's queue and to the rest: the running task joins a queue (`JoinQueue`,
`WaitForObject`), the first task is released (`ReleaseNext`, `ReleaseHead`), or all are,
one after the other (`InitQueue`, `ReleaseAll`; the loop is a recursive function, unfolded
by `Iterate` and followed by `Induct`). Each keeps `Inv` and leaves the other queues as
they are; and the calls of TaskCalls let no task join a queue (`StaysEmpty`).

| Theorem | States |
|---|---|
| `SemaphoreCorrect` | `SemSpec => [](SemOK /\ TasksOK)` |
| `FlagCorrect` | `FlgSpec => [](FlagWaitOK /\ TasksOK)` |
| `SetFlagCorrect` | `FlgSpec => SetFlagOK` |
| `PoolTasksCorrect` | `MpfSpec => []TasksOK` |
| `PoolCorrect` | `RightfulSpec => []PoolOK` |
| `BlocksCorrect` | `RightfulSpec => []BlocksOK` |
| `DataqueueCorrect` | `DtqSpec => [](DtqOK /\ TasksOK)` |
| `ChannelImplemented` | `DtqSpec => ImplementsChannel`, for senders that wait in order of arrival |

TasksOK is the conjunction of the invariants of TaskCalls, which hold again of tasks
that wait for semaphores or blocks. SemOK is inductive once the tasks are known to be
right: a resource is counted only when nobody waits, and a task only waits when there is
none.

FlagWaitOK needs more: FlgInv adds that each task in the queue of a flag has a wait
information that means something (a pattern that is not empty, and a mode), without which the comparison says
nothing. `set_flg` walks the whole queue and releases tasks from the middle of it, while
the pattern may be cleared under way. The walk is a recursive function; `Walked` says
where it stands after n places: the tasks that have left are those of `Gone`, that
is, of the first n all that the pattern satisfies, or with TA_CLR only the first of them,
and `ReleaseOne` takes it from n to n + 1 (`WalkRound`, `WholeWalk`). So after the walk
nobody is left whom the pattern that is left satisfies (FlagCorrect), and those released are
the right ones (SetFlagCorrect, which the run `objects` checks of the flag in use).

PoolOK is not inductive either: that `fblkcnt` counts the free list says nothing about where the list
leads after a block has been taken from it. PoolInv says that the free list links a
sequence of blocks (`Chain`) all of which have been in use (below `unused`) and none of
which occurs twice, that `fblkcnt` is its length and the number of those never used,
that all other blocks are marked, that no task holds a block that is free or
that another holds (`HeldInv`), and that a task between the check of `rel_mpf` and its
lock holds the block that it is about to give back (`ReleasingInv`). The last is why the
check before the lock does no harm in a rightful application, and it is what
`ini_mpf` breaks in section 6. `get_mpf_block` takes the head off the chain or the
next block never used (`GetBlock`), `rel_mpf` puts one back in front (`PutBlock`). That the
operator FreeList, which follows the links, is that sequence is `ReadChain`; that there are
no more blocks in it than there are blocks follows from there being none twice.

The data queue is proved for every size, 0 included, every set of messages and every number of
tasks. DtqInv says that the indices of the ring agree (`RingInv`: `tail` is `count` places
after `head`), that a waiting sender's message is one, that somebody waits to send
only while the buffer is full, and to receive only while it is empty and nobody waits
to send. What the buffer holds, oldest first, is `Ring`; `enqueue_data` appends to it,
`dequeue_data` takes its first (`Enqueue`, `Dequeue`), and `force_enqueue_data` on a full ring
does both at once (`ForceEnqueue`). `Outcomes` lists what a call may do to
messages: one reaches the first receiver, the buffer or the end of the senders' queue, or takes the
place of the oldest; one is taken, and the first sender's moves up; a task
leaves; `ini_dtq` clears all; or nothing changes. Each of these keeps DtqInv (`DtqInvKept`) and
is a step of Channel (`SendSteps`, `TakeSteps`, `GoSteps`), whose contents are the ring
followed by the messages of the senders in the order of their queue (`Pend`). What makes the
last hold is `LeavesNext`: no call of TaskCalls lets two tasks leave an arrival-order queue in one step,
or two that stay change places. A timeout, a forced release, a termination and a change of priority
all have to be followed through the kernel for it. With TA_TPRI on the senders,
`chg_pri` reorders them, so that the buffer is then no longer a first-in first-out
channel, and the theorem does not claim it; DataqueueCorrect holds for both orders.

The first part of TaskProof has what these proofs need about queues: where a task is
linked after an insertion or a deletion, that nothing is linked twice, what becomes of the
first task, and which order is kept.

**`MutexProof`** does the same for the mutexes, of the specification MutexSpec, in which all
calls of `mutex.c` and of task management meet, for every finite set of tasks and of
mutexes, each with a ceiling or without one:

| Theorem | States |
|---|---|
| `MutexTasks` | `MutexSpec => []TasksOK` |
| `MutexAsserts` | `MutexSpec => []AssertsHold` |
| `MutexNoPreemption` | `MutexSpec => NoPreemption` |
| `OwnershipCorrect` | `MutexSpec => []OwnershipOK` |
| `CeilingCorrect` | `MutexSpec => []CeilingOK` |
| `HandOverCorrect` | `MutexSpec => HandOver` |

The first part keeps `Inv` of TaskProof: whatever the chains contain, `mutex_acquire`,
`mutex_drop_priority`, `mutex_release` and `mutex_release_all` leave the ready queues and
the wait information settled (`Keeps`). The case that needs care is `mutex_acquire`, which raises the
priority of the running task without a dispatch: that is right because the task is the
scheduled one and stays it (`RaiseSelf`).

The second part is about the chains. OwnershipOK alone is not inductive: ChainOf of the model, which
follows `p_lastmtx` and `p_prevmtx`, says nothing about what is left when a mutex is taken out of the
middle, as long as a link could be shared or lead back. `Owned(j, F, X)` says that the chain of
each task is a sequence of mutexes, none twice (`IsChain`), that links exactly the
mutexes whose `p_loctsk` is the task, and so ends and shares no link (`Chains`); that nobody
waits for a free mutex or for his own (`Waiters`); that a dormant task has no chain
(`Dead`); that no ceiling held or waited for is lower than the base priority (`Within`); and
that the current priority is the best of the base priority and the ceilings held
(`Best`). It holds between two calls with F and X empty. Within a call it does not: F is the set of mutexes
that are taken off a chain and not handed over yet, and X the tasks whose priority is not
recomputed yet. `ChainPush`, `ChainPop` and `ChainRemove` are what the code does to a
chain; `ReleaseOwned` hands over one mutex, and `ReleaseAllOwned` follows the loop of
`mutex_release_all` by `Induct`, with the chain shrinking from its head, to the dormant task
that holds nothing. `mutex_check_ceilpri` is what lets `chg_pri` keep Within
(`AllowedPriority`): it looks at the mutexes held and at the one waited for. Most calls
do not touch chains, priorities or the order in wait queues at all (`Quiet`, and
`Thinned` where entries leave a queue). The steps of task management that do are termination and
`chg_pri` (`TaskStepOwned`), and those of `mutex.c` are in `MutexCallOwned`; `OwnedNext`
puts them together, with `HandsOver`, from which HandOverCorrect follows. Mutex has to be finite
(WobjAssumption): the chain is followed by a recursive function with that many steps.

**`HeapProof`** proves, for every finite set of events, every span of the wrapping
times and every margin, that the heap of time events stays one while events come and go and
the current time moves, forward or back, by anything that leaves every registered event on
its side of the boundary (`HeapCorrect`), and that
an operation on one event leaves the others registered with their times
(`OthersStayCorrect`). `HeapInv` is HeapOK in a form with a parameter for the keys
(`Key`, the time of an event relative to the boundary, in which the comparisons do not
wrap). When the current time moves, all keys change by the same amount, and
so no comparison does (`HeapPasses`). A deletion breaks the heap in one place at a time: the hole that `tmevt_up` and
`tmevt_down` move is a node whose event is out, where the parent may be compared with both
children (`Hole`); `HoleUp` and `HoleDown` say that moving it one node keeps that, and
`Fill` that putting the event into it at the end restores a heap. The way of the
hole is a recursive function; it is unfolded from its definition (`Iterate`), and what
it computes for every index is shown by taking the least index for which it would be
wrong (`LeastElement`, `Induct`), as the induction theorems of the library cannot be
used. That deleting from the middle moves the last event either up or down, and
never both, is the case split of `Delete`.

**`TimeProof`** proves, for every number of alarms and cyclic notifications and all times
and adjustments that fit (TimesFit), of the specification TimeSpec:

| Theorem | States |
|---|---|
| `ArmedCorrect` | `TimeSpec => []ArmedOK` |
| `EventsCorrect` | `TimeSpec => []EventsOK` |
| `ServiceImplemented` | `TimeSpec => ImplementsService`, the refinement of TimerService |
| `SystemTimeCorrect` | `TimeSpec => SystemTime` |

TimesFit says how much room the wrapping times need: the largest relative time, the
margin by which an event may lie in the past, and twice the largest adjustment have to be
less than a cycle of the event time. The lemma `KernelTimes` shows that the kernel's
own values meet it, with relative times up to TMAX_RELTIM (4000 seconds) and an
interrupt that is late by up to 14 seconds. ArmedOK alone is not inductive. TimeInv says
besides that the heap is one of the registered events and the count that was last read and
the true time since are the counter (`Sound`); that no event is further ahead or behind
than can be told apart after the wrap, where one that was put back by adjustments also
counts from the time that has been reached before (`behind`); that no event has been
due for longer than the interrupt is late (`Late`); and that the timer is set for the
first event, or for HRTCNT_BOUND (`Armed`), except while `signal_time` is at work, at the end of
which it is set again. Each routine of `time_event.c` has a lemma that says what it
does to the clocks (`Clocks`: the true time goes on by s, `Follow`) and to the distance of each
event from the current time (`Moves`); a call is a composition of them (`Compose`). `adj_tim` is the
step where all distances change at once: `check_adjtim` lets it through only while the
invariant keeps its room (`Adjusting`, `PutBack`). For the refinement, the time left of
an event of TimerService is its distance from the current time (`left`, `ServiceStep`); for the system
time, `SystemStep` follows monotonic time over a wrap.

**`SerialProof`** proves, for any number of tasks and every size of the two buffers and
of the FIFO, that the right to send is in one place and the right to receive in no two
(`SerialCorrect`). The invariant says where: the semaphore, or the one task whose `call` is at a point of the code between
taking and passing it, or nobody while the buffer is full (for receiving: empty), until
the interrupt changes that and signals (`Right`); what each point of the code means for
the rest of the call (`Calling`); and that a port that is closed has nobody in a
call. Each CPU-locked section has a lemma. A right may
be lost, and that to receive is, when a reader is released from its echo (section 6), so
that the invariant says of it only that nobody else has it (`NotTwice`).

**`DeviceProof`** proves, for every counter that meets HrtAssumption, that an interrupt
set by `target_hrt_set_event` is never overtaken by the counter (`InTime`) and that
the time read goes on by at most one at each count, across both wraps (`Steady`). The
lemma `HrtConstants` shows that the real constants (2^32, 10^9, 128849019 and
100000002) meet the assumption, with 900,000,000 counts, 27 seconds, to spare
between reading the counter and setting the compare register. The argument is about
a reading as a function of the count: it is the count times 3 / 100, rounded down after
adding one for each block (`ReadingValue`), so that neighbouring counts differ by at most
one, and the last before the wrap is TCYC_HRTCNT - 1.

It also proves, for every size of the log buffer, that the indices and counts of the log
agree (`LogConsistent`) and that it implements LogService (`LogImplements`). What
LogService still has to deliver is what is stored, behind one LOST for each message
counted as lost; recording into a full buffer turns the oldest into a LOST
(`keep`), and reading takes a prefix.

**`DriftArith`** also has the proofs, for every drift rate, advance of the counter and fraction,
that the split arithmetic of the drift extension is exact: the event time goes on by the
counts times the rate with at most two carries (`AdvanceExact`), an event is set for
the least count at which it is due (`CountsExact`, for rates of at least a half),
the quick test for HRTCNT_BOUND agrees with the division (`BoundExact`), a new event is
counted from less than a unit too late and never too early (`AheadExact`), and
every product fits (`ProductsFit`; `DriftConstants` for 32 bits and the largest drift).

**Only model-checked**: that wait queues in priority order stay so (WaitOrderOK) and that
ready queues keep their order while mutexes are held (FifoWithinPriority in `mutex_heap`),
the priority data queue and the
message buffer (the parts PdqOK and MbfOK of QueuesOK, and their channels), the time
events of the extensions (TimersOK: with alarms created and deleted, and with the drift
adjustment, of whose arithmetic only DriftArith is proved), dynamic creation
(ExistenceOK, KernelOK, ObjectsOK, MemoryReturned, DeletionReleases), the two extensions of
the scheduler (ExtensionsOK), and the streams of the serial port. The properties of the tasks
are proved for TaskSpec, SemSpec, FlgSpec, MpfSpec, DtqSpec and MutexSpec; with
the other objects they are checked by `objects` and `dcre`.
**Out of the prover's reach**: liveness (AlarmOccurs, NoStarvation, SendGoesOn) and
ENABLED; and the library operators that are declared RECURSIVE or by
`CHOOSE` over all functions of a domain that depends on the data (`SelectSeq`,
`FoldSeq`), which cannot be expanded. No module uses a RECURSIVE operator itself: iterations
are recursive functions, and these can be proved about, as HeapProof shows.

## 6. Findings

**`rel_mpf` checks before it locks** (run `mpf_reinit`, `kernel/mempfix.c:319`).
`rel_mpf` verifies that the block is allocated with the CPU unlocked, and does not
check again under the lock. If a task of higher priority runs `ini_mpf` in between,
the block is given back to a pool to which it already belongs: `fblkcnt`, which
`mempfix.h` defines as the number of unallocated blocks, exceeds them, and a later
`get_mpf` hands out a block that does not exist. The two calls one after the other
do not do this. Under the rule that the pool is not reinitialised during `rel_mpf`
(run `time_pool`), PoolOK holds.

**START sends one character** (run `serial_send`, `syssvc/tSerialPortMain.c:573`).
Characters written while sending is stopped are stored without enabling the send
callback. When START is received, one of them is sent; the callback stays disabled and
the rest stays in the buffer, later writers only store more, and when the buffer is
full they wait. `doc/user.txt:1440` says that START resumes sending.

**A higher sub-priority does not take over** (run `subprio_order`,
`extension/subprio/kernel/task.c:259`). A task that becomes runnable is put before
those of lower sub-priorities, but `p_schedtsk` changes only for a strictly higher
priority. The task at the head of the ready queue is then not the scheduled one. The
comment (B-1) of `extension/subprio/test/test_subprio1.c:53` says that a task of a higher
sub-priority has the higher precedence. `change_priority` has the same condition.

**A released echo keeps the right to receive** (run `serial_receive`,
`syssvc/tSerialPortMain.c:437`). A reader that is released from the wait of its echo
with characters left returns by `error_exit` without signalling the receive
semaphore, which the interrupt signals only for the first character in an empty
buffer. Every later reader waits although characters are there, until the port is closed
and opened again. `doc/user.txt:1410` says that `serial_rea_dat` waits until
it has received its characters. SerialOK, which holds, says only that no two
readers have the right at once.

**`acre_mpf` does not free the blocks** (run `dcre_memory`,
`extension/dcre/kernel/mempfix.c:256`). When the marks of the blocks cannot be allocated,
`acre_mpf` frees the memory of the blocks only `if (mpf == NULL)`, in a branch where
`mpf` is not NULL; it means that it allocated them itself. The memory stays
allocated for good, where the target has a `kernel_free` that frees. The step is
`acre_mpf_nomem` of DcreObjects and is in every run of dynamic creation; that
creations and deletions that succeed leave nothing behind is MemoryReturned (run `dcre`).

### Observed, without a run of their own

- `extension/messagebuf/kernel`: a new priority that reorders the waiting senders of
  a TA_TPRI queue does not call `messagebuf_signal`, so the new first sender may wait
  although its message fits. `objects` has a queue in the order of arrival.
- `tSerialPortMain.c:377`: a START or STOP that the SCIF cannot take at once is kept
  in `VAR_receiveFlowControl`; one sent directly meanwhile overtakes it, and
  `VAR_receiveStopped` then disagrees with what the other side received last.
- `tSCIF.c:135`: closing the SCIF clears SCSCR but leaves `VAR_initialized`, so
  that opening it again does not set TE and RE, although `doc/user.txt:1401` says that
  `serial_opn_por` makes the port ready to receive and send.
- `arch/arm_gcc/rza1/chip_timer.c:187`: at the entry of an interrupt
  `target_ovrtimer_stop` clears the pending request of the overrun timer before the
  interrupt is acknowledged. Whether the acknowledge is then spurious is a matter of the
  interrupt controller's timing, which OverrunCalls does not have.
- With mutexes, `change_priority` of the sub-priority extension at an equal priority
  (`mtxmode`) may schedule a task that is not the first. SubprioCalls has no objects.

## 7. Not modelled

- Calls that only read (`ref_*`, `sns_*`, `get_*` but `get_tim`, `fch_hrt`), and
  parameter checks, which are in the guards as "not called with bad parameters".
- `ext_ker` and shutdown; the CPU exception entry; the interrupt controller
  calls (`dis_int`, `ena_int`, `clr_int`, `ras_int`), which are register accesses.
- Register contexts and stacks: dispatching is a change of `runtsk`.
- Of the extensions: interrupt service routines and message buffers created at run
  time, restricted tasks (`rstr_task`), 256 priority levels (`pri_level`), the drift
  version with 64-bit operations, and the combinations of extensions.
- Of the system services: the log task (a loop over the log's read), low-level output,
  the draining of the serial port at shutdown, measurement and test services.
- The GIC, cache, MMU and chip support; the PL011 driver of other boards; baud rates
  and line registers of the SCIF.
- The support library, configurator and TECS generators (Ruby), samples and tests.

The modules map to about 9,100 of the 67,000 lines of the implementation. The rest of
these lines is for the greater part not behaviour of its own: headers and
register definitions, tables of the generators, comments at the head of each file,
tests and samples; and each extension is a whole copy of the kernel files it changes,
of which only the changed routines are new.

## 8. Plan

Done: TaskCB to TaskCalls with TaskProof; the object modules and their channels; the
time modules; the drivers of the timer and the serial port and the system log, with
HeapProof, TimeProof, SerialProof and DeviceProof; MutexProof; ObjectProof for semaphores, event
flags, the memory pool and the data queue; the extensions dcre, messagebuf, subprio, ovrhdr and drift; the runs of section 3. Left, in this order:

1. **Proofs about the other objects**, in the style of ObjectProof: the sorted list of the priority data queue and the bytes of the message
   buffer, with their channels, along `Outcomes` and the steps of the data queue.
2. **The order of the queues**: WaitOrderOK (`queue_insert_tpri` keeps an order) and, with
   mutexes, FifoWithinPriority, where one call may move several tasks.
3. **Composition of time and tasks**: the abstract expiry of TaskCalls shown to be
   what TimeCalls provides for a TMEVTB on a task's stack.
4. **Restricted tasks**: tasks that never wait and share a stack, as a restriction of
   TaskCalls under which the ready queue of their priority behaves as a stack discipline
   demands.
5. **The rest of dcre**: message buffers and interrupt service routines.
6. **Both ends of a serial line**: two SerialPorts joined, so that flow control can be
   stated as what the other side does.
