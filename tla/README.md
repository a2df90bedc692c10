# A TLA+ model of RTAI

RTAI adds hard real time tasks to a Linux kernel. Its scheduler and its
inter-process communication services (semaphores, condition variables, barriers,
reader/writer locks, mailboxes, messages and RPCs, fifos, shared memory) run above Linux, on
every CPU at once, under one global lock. This directory holds TLA+ models of
the parts of that code where the order of events matters, TLC configurations
that check them on small instances, and TLAPS proofs of the central facts.

Paths are relative to the root of the repository.

## The system

| part | code | state | operations | what is hard |
|---|---|---|---|---|
| HAL and global lock | `src/sched/rtai_hal.c`, `include/asm-x86/rtai_hal.h` | global lock, interrupt flags, SRQ and trap tables | `rt_global_save_flags_and_cli`, IRQ and SRQ dispatch | recursion of the lock, pended requests |
| scheduler core | `src/sched/sched.c`, `include/rtai_schedcore.h`, `include/rtai_prinher.h` | per CPU ready list and timed list, `rt_smp_current`, the fields `state`, `priority`, `running`, `owndres`, `blocked_on` of a task | `rt_schedule`, scheduling IPIs, `enq_ready_task`, `wake_up_timed_tasks`, `pass_prio` | tasks of other CPUs, stale list links, chains of priority inheritance |
| task services | `src/sched/api.c` | `suspdepth`, periods, priorities | suspend, resume, unblock, periodic waits, priority changes, signals | requests that are registered while a resource is owned |
| registry | `src/sched/api.c`, `include/rtai_registry.h` | names, addresses and use counts | register, get, drop | concurrent creation and deletion of a name |
| semaphores | `src/ipc/sem/sem.c` | `count`, `type`, `queue`, `owndby`, `magic` | wait, wait_if, wait_until, signal, broadcast, delete | hand-over, theft, timeouts, inheritance, deletion |
| condition variables, barriers | `src/ipc/sem/sem.c` | a semaphore and a mutex, the count of arrivals | `rt_cond_wait`, `rt_cndmtx_signal`, `rt_sem_wait_barrier` | releasing the mutex and blocking is one step; timeouts |
| reader/writer locks, spinlocks | `src/ipc/sem/sem.c`, `include/rtai_rwl.h`, `include/rtai_spl.h` | writer, readers, three semaphores; owner, recursion count, saved flags | `rt_rwl_rdlock`, `wrlock`, `unlock`; `rt_spl_lock`, `unlock` | priority between readers and writers |
| polling | `src/ipc/sem/sem.c` (`CONFIG_RTAI_RT_POLL`) | per object lists of pollers | `rt_poll`, `rt_wakeup_pollers` | an event between two checks |
| mailboxes | `src/ipc/mbx/mbx.c` | circular buffer, two resource semaphores, waiting task | send, receive and their variants | partial transfers, timeouts between two parts |
| messages, RPC, proxies | `src/ipc/msg/msg.c` | sender queues, return queues | `rt_send`, `rt_rpc`, `rt_receive`, `rt_return` | timeouts between receive and return |
| fifos | `src/ipc/fifos/fifos.c` | ring buffers, Linux wait queues, own semaphores | put, get, read, write, handlers | two schedulers wait for each other |
| shared memory, allocator | `src/ipc/shm/`, `src/malloc/malloc.c` | use counts of named areas, TLSF free lists | alloc, free, map | reference counts, splitting and joining of blocks |
| Linux extension | `src/sched/sys.c`, `include/rtai_lxrt.h` | the RT task of a Linux process, soft/hard mode, wake up rings | `rt_make_hard_real_time`, system call dispatch | mode switches, rings at their limit |
| signals | `src/sched/signal.c` | handlers and pending signals per task | trigger, wait, catch | requests and their execution in another task |

`PROJECT.json` lists these components with the modules that model them, and
under `hazards` what is hard to test in them.

## Modules

| module | code | what an action is |
|---|---|---|
| `RtSem`, `TaskQueue` | semaphores, priority inheritance, suspend, resume, unblock; queues of blocked tasks | a service, or what follows its `rt_schedule` |
| `ResourceLock` | the abstract lock a resource implements | take, hand over, collect, usurp, release |
| `RtCond` | condition variables, on top of `RtSem` | the part of `rt_cond_wait` up to its block, the retaking of the mutex, the write of its depth |
| `RtBarrier` | `rt_sem_wait_barrier` | arrival, each wake-up of the broadcast, return |
| `RtRwl` | reader/writer locks | a critical section; `rt_rwl_unlock` has two |
| `RtSpl` | spinlocks | an access to `owndby`, `count`, `flags` or the interrupt state |
| `RtPoll` | `_rt_poll`, `rt_wakeup_pollers` | the look at one object, its registration, sleep, removal; one wake-up |
| `RtMbx` | mailboxes | a critical section, the copy of one chunk, its accounting |
| `RtMsg` | `rt_send`, `rt_rpc`, `rt_receive`, `rt_return`, their timed, conditional and extended forms, deletion of a task | a service, or what follows its `rt_schedule` |
| `RtProxy` | proxies and `rt_trigger` | an access to the count of triggers, a suspend or resume |
| `RtFifo` | fifos, with Linux processes, handlers and wake-up requests | a critical section, a copy, a request served in Linux |
| `RtRegistry` | the hash tables of names and addresses, named objects | the probe of one slot without the lock, the use of the slot under it |
| `RtTime` | ready and timed lists of a CPU, one shot timer, delays, periods, priorities, `rt_sched_lock` | a service with its `rt_schedule`; the timer handler |
| `RtTlsf` | the two level segregated fit heap | `malloc_ex` or `free_ex` (they run under the lock of the heap) |
| `RtLxrt` | `steal_from_linux`, `give_back_to_linux`, `force_current_soft`, forced soft calls, signals and exits of processes, wake-up rings | a step between two schedulings, on either side |
| `RtScb` | circular buffers in shared memory | a read or write of an index, the copy of one byte |
| `RtSrq` | `rt_pend_linux_srq`, `rtai_lsrq_dispatcher` | an access to the shared words |
| `RtSignal` | real time signals | an access to the bits of a signal, a critical section, the handler |

Two MC modules cover single components, `MCRtSem` and `MCRtCond`. `Locks`, `Kernel` and
`Ipc` hold several components each: the variable `part` names the
instance a behaviour belongs to, it never changes, the variables of the
other components stay empty, and `Part` in the cfg says which instances a run
covers. They have constants for the sets of tasks, names and sizes and for the services in use, which
`MCLocks`, `MCKernel` and `MCIpc` give values to and the proofs leave open. `Ipc` takes its components
together with the lemmas about them (`MbxProofs` extends `RtMbx`, `MsgProofs` `RtMsg`, `FifoProofs` `RtFifo`),
so that `IpcProofs` speaks of the very steps TLC explores. Every instance has its own set of services (`Use`, `Ops`), so that the
combinations that matter fit into TLC. A property of these modules is the
component's own property, stated and explained in the component's module, for
the instances it is checked in; the type invariant of the component is a
conjunct of the first of its properties. To look at one
instance, copy the cfg and reduce `Part`.

### Semaphores

`RtSem` models the semaphore services together with the scheduler state they
use. Its variables are the fields of `SEM` and `RT_TASK` under the names of the
source, with these conventions.

* A service runs under the global lock and is one action. What a task executes
  after the `rt_schedule` of a blocking service is a second action (`Continue`);
  between the two any other task may run, and the outcome is found in
  `blocked_on`, as in the code.
* Every task is hard real time and is runnable on a CPU of its own. A task that
  was made ready is switched in by `Dispatch`, which sets `running` as
  `TASK_TO_SCHEDULE` does; a task suspended from another CPU finishes the
  service it is in (`Returns`) or is switched away (`Preempt`). Fewer CPUs
  only remove interleavings.
* `CHECK_SEM_MAGIC` is evaluated before the lock is taken. `pc = "late"` is a
  task that passed it just before `rt_sem_delete`.
* A queue is a sequence. `rt_sem_delete` leaves the waiters linked, as the code
  does; unlinking a task that is not linked changes no sequence. What stale
  links do to other lists is not modelled here.
* Time is abstract: the deadline of a task in a timed list may pass at any
  moment (`Timeout`), and a timed wait may find its time already past
  (`WaitExpired`).
* `Ubi` is the compile time switch in front of `UBI_MAIOR_MINOR_CESSAT_WAIT`
  (`sem.c:48`), `TRUE` as shipped; `Nested` tells whether the application waits
  for a resource while it holds another.
* The application is as the manual asks: it signals a resource without owner
  check (`restype` 0) only as its owner, and does not broadcast to resources.
* `pass_prio` is the set of tasks it raises (`Boosted`: the members of every set
  that contains the owner and that the walk does not leave, `Walked`) and its effect
  on the queues they are in (`RaisedQueue`).
* `holds` and `credit` are ghosts: the resources whose wait returned success
  and the events that were signalled and not received.

`ResourceLock` is the abstract specification of a resource: a lock that is
free, held or handed over, which may be usurped only between the hand-over and
its collection. `RtSem!ImplementsLock` maps `owndby` to the holder and the queue
to the waiting tasks. `MCRtSem` holds the values of the constants for TLC,
`TaskQueueProofs` and `RtSemProofs` the proofs.

### Conventions of the other modules

* A critical section under `rt_global_save_flags_and_cli`, or under the lock of the
  object, is one action. Code outside of it is split at every access to shared
  state (`RtSpl`, `RtPoll`, `RtProxy`, `RtScb`, `RtSrq`, `RtSignal`, the copies
  of `RtMbx` and `RtFifo`, the probing of `RtRegistry`).
* Queues are sequences, ordered by `enqueue_blocked` (`TaskQueue`). A task that
  timed out stays queued until it runs and unlinks itself, as in the code.
* Bytes are numbers that count up modulo a bound larger than the ring, so that
  a lost, doubled or reordered byte shows.
* `RtTime` has a clock up to `MaxTime`; a deadline is at most `Span` away. The
  timer fires when `intr_time` is reached. The other modules let a deadline pass
  at any moment.
* `RtTlsf` counts in words, with its own numbers of lists; the mapping of
  sizes to lists is the one of the code.
* `RtLxrt` splits `give_back_to_linux` at its `rt_schedule`, since a process that was
  forced meanwhile runs `force_current_soft` inside of it (`SwitchedIn`). It pends a
  wake-up although it runs, and this entry is left over. The list is worked off all at once, in
  Linux. A left-over entry that finds its process in the wait for the helper's semaphore
  makes it go on without it; what Linux does with one that finds it hard, and what the
  scheduler does later with the state bit of the woken waiter, is not followed. Forcing is
  `LXRT_SET_USP_FLAGS`; `rt_do_force_soft` has no caller in the sources. The part `lxrt` has processes
  that end (`LxrtUse`), the part `lxrtsig` signals and forced transitions as well.
* `RtSpl` reads the count of a nested lock once or twice: `spl->count++` and the
  test with its decrement may load it again.
* `RtCond` instantiates the operators of `RtSem` with an additional phase per task, so
  hand-over, theft and inheritance of the mutex are those of `RtSem`.
* Faulty variants of a definition (`...Twice`, `...Forgotten`, ...) stand
  before it; they are the mutations the properties are tested with.

## Runs

| run | expects | checks | shows |
|---|---|---|---|
| `sem_mixed` (`SemMixed.cfg`) | pass | `TypeOK`, `CountQueue`, `MutualExclusion`, `QueueOrder`, `BaseRestored`, `SuccessOnlyByHandOver`, `ImplementsLock` | Three tasks share a recursive resource and a binary semaphore with plain, conditional and timed waits and unblocks: the queues, the counts, the ownership and the priorities stay consistent and the resource implements a lock with hand-over. |
| `sem_nested` (`SemNested.cfg`) | pass | `Inheritance` | Four tasks nest three resources (without the hand-over theft): an owner is as urgent as all of its waiters along chains of owners, also in a deadlock. |
| `sem_suspend` (`SemSuspend.cfg`) | pass | `Inheritance` | Three tasks share a resource while any of them is suspended and resumed at any time: priority inheritance survives. |
| `sem_event` (`SemEvent.cfg`) | pass | `EventsConserved`, `TimedWaitReturns`, `HandOverCollected` | Signals, plain and timed waits, broadcasts, unblocks and a deletion of a counting semaphore under fair scheduling: no event is lost or received twice, timed waits return and hand-overs are collected. |
| `cond` (`Cond.cfg`) | pass | `MutexCount`, `SignalsConserved`, `StoreUndisturbed` | Condition variables on top of the semaphores, with timeouts and unblocks: the mutex is never owned twice or lost while tasks release it, wait, are signalled and lock it again; every signal wakes exactly one waiter; nobody gets hold of the mutex between taking it again and writing its depth back. |
| `locks` (`Locks.cfg`) | pass | `Meets`, `ReadersWriter`, `WaitersServed`, `SplExclusion`, `NestingLost`, `PollSound` | Barriers, reader/writer locks, spinlocks and polling: a barrier opens for a full gang only, readers and writers exclude each other and are not forgotten in a queue, a spinlock that is not nested has one holder, the count of a nested one goes wrong in one way only, and a poll returns with what was signalled. |
| `ipc` (`Ipc.cfg`) | pass | `RingContents`, `WaiterSignalled`, `Truthful`, `Linked`, `AnyReceived`, `PriorityRestored`, `SideExclusive`, `WaiterWoken`, `WaiterProgresses`, `TriggersDelivered` | Mailboxes, messages and remote procedure calls, proxies and fifos: bytes arrive in order, no wake-up is lost, an answer goes to the caller that waits for it, the queues of a task hold exactly its senders and callers, and a server gives inherited priorities back; waiting tasks make progress and every trigger is delivered. |
| `kernel` (`Kernel.cfg`) | pass | `RegistrySound`, `RunsFirst`, `Punctual`, `HeapSound`, `WakeupPending`, `StealServed`, `BytesInOrder`, `SrqServed`, `StoppedWhileHandled` | The registry, the ready and timed lists with the one shot timer, the heap, the mode changes of Linux processes (forced ones and signals for the wake-ups only), circular buffers in shared memory, service requests and signals: each keeps its data structure consistent under all interleavings of its users. |
| `sem_nested_theft` (`SemNestedTheft.cfg`) | violation | `MutualExclusion` | With nested resources, a task that was handed a second resource and has not been dispatched since can be robbed of the first one, which it is using. |
| `ipc_late` (`IpcLate.cfg`) | violation | `AnyReceivedLate` | A receiver waits for any message and a message is there: the head of its queue is a sender that has timed out and not run yet. |
| `kernel_named` (`KernelNamed.cfg`) | violation | `OneObject` | Two tasks that create the same name at the same time both succeed, with an object each. |
| `kernel_signal` (`KernelSignal.cfg`) | violation | `StoppedWhileHandledLate` | A new support task that waits for its first trigger ends the handler of another signal for the task it serves. |

Bounds. Three tasks are the owner, a waiter and a thief or a late caller; a
fourth gives chains of three owners. One semaphore of each kind is enough for
the properties of one semaphore, three resources for the chains of `pass_prio`.
`MaxCount` 2 lets a counting semaphore register more than one event, `MinCount`
equals the number of tasks, so it never cuts a wait off, and `MaxDepth` 2 gives
a nested wait and a nested suspend. Deadlock is not checked: applications may
take resources in a circle or wait for an event nobody signals.

In the other modules: three tasks are a sender or an owner, a task that waits,
and one that interferes (times out, is unblocked, overtakes); reader/writer
locks have four, so that readers and writers wait at the same time. Barriers
have a gang of all tasks and a gang of three among four, so that a task of the
next gang may come early. The ring of a mailbox has two bytes and messages up
to three, so that a message needs two parts and wraps around; the circular
buffer three and two. The registry has three slots and names that collide. The
heap has 16 words, requests that split, fit exactly and join, and a second
instance with two areas. The wake-up rings have four places for two processes:
`RtLxrt` shows that a ring is long enough when it has two places for every
process. The code has 64 on each CPU and does not test for more. Service requests are pended at most
twice each.

Fairness. A ready task is switched in and a task that was switched in goes on
(`WF` of `Dispatch` and `Continue`): every path that makes a task ready ends in
`rt_schedule` or a scheduling IPI, and the task has a CPU of its own. A deadline
passes (`WF` of `Timeout`). No fairness is assumed of the calls an application makes.

In `Ipc` a task inside a mailbox service goes on and its timeout expires (`MbxStep`),
the proxy task runs when it is ready (`RtProxy!Agent`: it tests its count, or suspends
itself), and a task that has incremented the count of a proxy goes on to resume it. That the
`rt_rpc` of the proxy returns is a step of its receiver and is not assumed:
`TriggersDelivered` says that the proxy is in a call after each trigger, not that the call ends. All are steps of tasks that are ready,
or of the timer; a CPU of their own is assumed as above. Nothing is assumed of the calls of
receivers or senders, hence `WaiterProgresses` speaks of a waiter for which
there is room or a byte.

## Where the code disagrees with its documentation

Four runs end in a counterexample against a sentence of the documentation;
`PROJECT.json` quotes each under `findings`:

* `sem_nested_theft`: with nested resources the theft of a resource just
  handed over may hit another one that is in use;
* `ipc_late`: a receiver of any message blocks although one is pending,
  behind a sender whose timeout has passed;
* `kernel_named`: two creators of the same name get an object each;
* `kernel_signal`: a new support task ends the handler of another signal.

Other properties one would expect, and that the code does not have, are stated
in the modules and marked there. Each is reproduced by a cfg with the instance
in the first column and the one property in the second.

| where | property | what happens |
|---|---|---|
| `SemLostTimeout.cfg` | `TimedWaitReturns` | a robbed timed waiter loses its timeout (`sem.c:384`) |
| `SemResumed.cfg` | `SuccessOnlyByHandOver` | a resume turns an expired wait into a success (`api.c:491`) |
| `SemSuspendedOwner.cfg` | `SuspendedWhenAllReleased` | a registered suspension stops an owner that still owns something (`sem.c:394`) |
| `SemDeletedBlocked.cfg` | `NoneBlockedOnDeleted` | a wait that races with a deletion blocks for ever (`sem.c:521`) |
| `SemDeletedPriority.cfg` | `BaseRestored` | the same race leaves the former owner with a raised priority |
| `SemLostInheritance.cfg` | `Inheritance` | an expired wait resets an owner that was not dispatched yet (`sem.c:714`) |
| `SemUnblocked.cfg` | `CountQueue` | an unblock of a suspended task that was already served counts it twice (`api.c:1062`) |
| `MCRtCond`, three | `ReturnsOwning` (PROPERTY) | `rt_cond_wait` returns 0 without the mutex (`sem.c:925`) |
| `MCRtCond`, three | `CondOrder` | a waiter is queued with the priority it inherited through the mutex and keeps its place when the release takes the priority back |
| `MCRtCond`, three | `CondInheritance` | as `SemLostInheritance.cfg`, for the mutex |
| `LocksReaderStuck.cfg` | `ReaderHasReason` | a reader waits for a writer that has given up (`sem.c:1369`) |
| `LocksSpinFlags.cfg` | `FlagsRestored` | the unlock restores the flags of the next owner (`sem.c:1569`) |
| `LocksSpinNested.cfg` | `HolderOwns` | the count is cleared after the lock was given up, and a nested holder is refused (`sem.c:1567`) |
| `MCLocks`, nest | `NeverLeaked` | the same store, between the test and the decrement of the next owner's unlock, drives the count to -1: its last unlock does not free the lock (`sem.c:1563`) |
| `MCLocks`, poll | `PollNotMissed` | an event between the look at an object and the registration wakes nobody (`sem.c:2080`) |
| `MCIpc`, mbx | `EvdrpFaithful` | a preview that wraps around reads the first part twice (`mbx.c:244`) |
| `MCIpc`, late | `DeadlineKept` | a call that was received has no deadline any more (`msg.c:858`) |
| `MCIpc`, late | `PriorityRestoredLate` | the priority is computed before the caller that gave up is unlinked (`msg.c:82`) |
| `MCIpc`, call | `CallInherited` | the receipt of a message sets the priority from the waiting messages only and forgets a call that is not answered yet |
| `MCIpc`, call | `WalksTasks` | `pass_prio` takes the marker `RTP_HIGERR` in the head of a return queue for a task (`rtai_schedcore.h:475`) |
| `Ipc`, four tasks | `Call!PriorityRestored` | `pass_prio` goes on from a sender to `msg_queue.task` of its receiver, which is the task the receiver waits for, or whose message it was handed and has not run for yet: that task is raised and stays so (`rtai_schedcore.h:475`) |
| `MCIpc`, extlate | `BlockValidLate` | an extended message is copied from a call that is over (`msg.c:1172`) |
| `MCIpc`, fifosem | `SleeperWoken` | a semaphore is given to a process that left the queue for a signal (`fifos.c:386`) |
| `MCIpc`, fifoone | `TimedWaiterWoken` | a timed wait is woken between its slot and its sleep, and sleeps until its timeout though there is something for it (`fifos.c:411`) |
| `MCIpc`, fifoone | `PollNotified` | a poller sleeps while there are bytes (`fifos.c:269`) |
| `MCKernel`, odd | `PunctualOdd` | a new priority, resume time or period is set and the timer is not armed for it (`api.c:747`) |
| `MCKernel`, lxrt, `LxrtUse <- Forced` | `StealServed` | the wake-up `force_current_soft` pends for a process that runs is left over, and later wakes it up out of its wait for the helper's semaphore (`sched.c:620`) |
| `Kernel.cfg`, lxrtsig, `MaxWakeup = 2` | `WakeupPending` | with one place per process the left-over wake-up and that of another process overwrite one that was not served (`sched.c:611`) |
| `MCKernel`, lxrtsig | `StealServedSig` | a pending signal ends a transition with the helper's semaphore taken (`sched.c:1775`) |
| `MCKernel`, lxrtsig | `SoftPriority` | a process is soft with the priority of a hard one (`rtai_schedcore.h:257`) |
| `MCKernel`, scbover | `SizeKnown` | the name of a buffer is taken for its size (`rtai_scb.h:118`) |
| `MCKernel`, scb | `FreeSpace` | `rt_scb_frbs` is wrong when the content wraps around (`rtai_scb.h:223`) |
| `MCKernel`, sig | `TriggerExecuted` | a trigger during the end of a handler is lost (`signal.c:134`) |

## Proofs

`RtSemProofs` proves `TypeCorrect`: `Spec => []TypeOK`, for every finite set of
tasks, every set of semaphores of any kind, both settings of `Ubi` and `Nested`
and every subset of the services, from `SemAssumption` alone. The lemmas follow
the model: `EnqueueType` and `DequeueType` for the queue operations, then one
lemma per service.

It proves further, for the uses `SafeUse` describes,

* `Excludes`: no two tasks are told that they own the same resource;
* `CountsItsQueue`: a negative count is the number of queued tasks;
* `SucceedsByHandOver`: a wait that is about to report success is not queued.

`SafeUse` says that nobody suspends a task or deletes a semaphore and, where the
build lets a resource be taken back at its hand-over (`Ubi`), that resources are
not nested. Waits of all forms, signals, broadcasts, timeouts, unblocks, thefts,
recursion and priority inheritance are covered. None of the restrictions is
for convenience: the run `sem_nested_theft` and the configurations `SemResumed.cfg`
and `SemUnblocked.cfg` show each of the three facts violated without them.

All three follow from one inductive invariant, `SafeInv`, proved by `SafeStart`
and `SafeStep` (one lemma per action) and stated as `SafeAlways`. Its parts, and
why the induction needs them:

* `CalmInv`: an executing task is ready and marked as running, and a task that
  is not ready waits on the semaphore of the service it is in. Without it a
  caller could be in a queue, and a theft could hit a task that executes.
* `KindInv`: a resource stays a resource, since `type > 0` is what the code
  tests, and it sees no broadcast.
* `LinkInv`: a task is queued once, exactly on the semaphore it waits for, until
  `blocked_on` is cleared. It is what ties the queue to the result of the wait;
  `pass_prio`, which unlinks and inserts tasks of other queues, has to keep it
  (`RaisedLinks`).
* `CountQueue` itself.
* `OwnInv`: a resource is free exactly with the count at one, otherwise its
  owner holds it or was handed it, and nobody else does either.
* `UbiInv`: a task that holds a resource is marked as running. This is what makes
  the test of `running` in `UBI_MAIOR_MINOR_CESSAT_WAIT` safe: the task a
  signal marks as not running waits for a resource and so holds none.

`SafeInv` was model-checked with the constants of `sem_mixed`, of `sem_nested`
and of `sem_event` (without deletion) before it was proved.

From the same invariant it proves that every resource semaphore implements
`ResourceLock`: `RefinesLock` is `Spec => ImplementsLock` for the uses `SafeUse`
describes. The initial state is a free lock, and each action of `RtSem` is a
take, hand-over, collection, usurpation, release or wait of the lock of one
semaphore, or leaves all locks as they are.

Again on top of `SafeInv` come the theorems about what the semaphores promise of
events and priorities:

* `ConservesEvents` (for `SafeUse`): `EventsConserved`. Its invariant `EventInv` adds
  that the type of a counting semaphore stays 0, so `rt_sem_signal` never
  caps its count. An action that changes who was handed the semaphore changes the
  number of those tasks by one, in step with the count or the credit.
* `KeepsOrder` and `RestoresBase` (for `SimpleUse`): `QueueOrder` and `BaseRestored`,
  from `PrioInv`. `AccountInv`: a task holds at most one resource, `owndres`
  counts it, and a task that waits for a resource holds none, so the walk
  of `pass_prio` ends at the owner (`BoostedOne`). `BaseInv`: only an owner inherits
  and, with `Ubi`, only one that has run, so a theft never leaves a raised
  priority behind. `OrderInv`: the queues of the resources are sorted; they stay
  so because a task whose priority changes is in none of them.
* `Inherits` (for `PatientUse`): `Inheritance`, from `InheritInv`, whose part
  `StayInv` says that a queued task is blocked.

`SimpleUse` is `SafeUse` without nested resources and without resources of
`restype` 0. The owner of such a resource that waits for it again is queued on its own
resource; when that wait has timed out and the owner inherits a priority before it
runs, TLC finds the queue out of order. `PatientUse` excludes timed waits and
unblocks as well: an owner that was handed the resource and has not run yet has
`owndres` 0, and an expired wait makes `set_task_prio_from_resq` take its inherited
priority back although others wait (`SemLostInheritance.cfg`). `EventInv`, `PrioInv` and `InheritInv` were
model-checked with and without `Ubi` before they were proved.

`TaskQueueProofs` holds the lemmas about `enqueue_blocked` and `dequeue_blocked`
that these proofs and those of `Locks` and `Ipc` share, for queues over any set of tasks: what
is in a queue afterwards, that nothing is in it twice, and that it stays
in the order of the priorities (`EnqueuedLinks`, `EnqueuedOrder`, `DequeuedLinks`,
`DequeuedOrder`, `TailOrder`, `FirstOfOrder`).

`Locks`, `Kernel` and `Ipc` are compositions: a behaviour belongs to one component, so
each theorem rests on an invariant of that component alone, and has the form
`Spec => []P` for a property `P` that a run checks. There are no hypotheses
besides the assumptions on the constants, unless stated.

`LocksProofs`:

* `PlainSafe` (spinlocks that are not nested): between the exchange of `owndby` and the
  store of the flags, and between the release of `owndby` and that of the count,
  one task is inside; the invariant says for each place of the program what it
  may hold.
* `NestSafe` (nested spinlocks): `Counted`, which relates owner, count, the value an owner has
  read and the locks of the holder, is kept by every step but one, the late
  `spl->count = 0` of a previous owner while the next one nests. `SplTypeOK` and
  `Counted` together are inductive up to that step, and `NestingLost` names it. After it the lock
  may be lost or leaked (`HolderOwns` and `NeverLeaked`, in the table above).
* `BarrierSafe`: for a gang of all tasks, who is queued is one arrival ahead of
  the completed gangs and the count is minus the length of the queue. For a gang of
  some tasks arrivals are counted as pairs of a task and a number (`Pairs`):
  the arrivals are `gangs` times the size of a gang, plus those queued, plus
  those that gave up and were counted.
* `RwlSafe`, `RwlServed`: `RwlInv` adds to the exclusion of readers and writers
  who owns the mutex at each place of the program, that a task is queued exactly where it waits,
  and that the queue of the writers is in the order of the priorities although
  the owner's priority changes. Its last part, `RwlServes`, is what the
  wake-up needs: when the lock is free and somebody waits, a woken writer, or a
  woken reader more urgent than all queued writers, is on its way to take it
  (`Served`). A woken reader that has to wait again is not that task
  (`RwlServedOther`), which is why waking only one side is enough.
* `PollSafe`: an entry in a queue belongs to an object its poller has
  passed in its first loop and not in its last (`Reached`), and an entry that
  was taken off has closed the semaphore of its poller (`PollSignals`).

`KernelProofs`:

* `SrqSafe`: a request is marked as running exactly while a CPU has it in hand.
* `SignalSafe`: `pstate` counts the handlers that have started and not ended. This is
  the instance in which no signal is triggered while one is being requested (`Late` is
  `FALSE`); otherwise it fails, and that is the run `kernel_signal`.
* `ScbSafe`: the bytes between the two indices are the ones that were put, in
  order, at any moment of the copies of both sides; this needs arithmetic modulo
  the size of the buffer for every size.
* `WakeupSafe`, with the hypothesis `2 * Cardinality(Proc) <= MaxWakeup`: a ring with two places for every
  process never wraps onto a wake-up that was not served. A process has one entry it
  waits for and at most one left over: `force_current_soft` comes after the entry of the
  give-back was served, and the process cannot pend a third before the list is emptied.
  The code has 64 places and no test, so the hypothesis is a limit on the
  processes of a CPU, not something the code ensures; with one place per process TLC
  finds the property violated.
* `StealSafe`: the semaphore of the helper task is free, or one process holds it
  and the queue holds exactly those that wait. The hypothesis is that `LxrtUse` has nothing
  but exits; with signals, and with forced transitions, the property does not hold (the
  table above).

`IpcProofs` combines the invariants of `MbxProofs`, `MsgProofs` and `FifoProofs`. Those modules extend the module
of a component and prove that its invariant holds initially and is kept by each
of its actions, for any values of its constants; `Ipc` instantiates them, and the
theorems follow for every instance in the composition.

* `RingSafe`, `SlotSafe` (`MbxInv`): one task has the semaphore of a side (`MbxSides`), and a
  chunk it has copied without the lock is still in place, in front of or within the
  bytes of the ring, when it accounts for it (`MbxChunks`). A task that waits
  and was not signalled is the one in the slot of the mailbox, and there is nothing for it unless a
  task of the other side has still to account for a chunk or to signal (`MbxWaits`).
  `OverwriteAssumption`: nobody receives from a mailbox that is overwritten,
  since `mbxovrwrput` moves the index of the receivers without their semaphore.
* `TruthfulSafe`, `LinkedSafe`, `AnyReceivedSafe`, `RestoredSafe` (`MsgInv`): the field `msg_queue.task` has three
  meanings, and `MsgSender` says which one it has at each place of the
  program: the field of a sender is its receiver until what it waits for has
  happened. `MsgLinks` says that who is linked has not been served, nor
  told that its receiver is gone, and that the queues have no duplicates; `pass_prio`, which moves tasks in
  queues of others, keeps this (`ForwardLinks`). These hold with timeouts, unblocks
  and deletions. `MsgPrompt` (without timeouts and unblocks) says that who is linked waits; `MsgBlocks` (senders of
  extended messages send no plain ones as well, and nobody is deleted) that an extended message which was
  handed over is there until it is copied, so `Truthful` claims this for the part `ext` only;
  `MsgRestored` (nobody sends to a task that sends) that a raised task has a message or a call.
* `SidesSafe`, `WokenSafe` (`FifoInv`): who works at a side of a fifo holds its semaphore, which is
  not free, and is handed over to a process that was in its queue; a process that sleeps in the slot
  has nothing there for it unless somebody of the other side is moving bytes or about to signal, and
  one that is not in the slot any more has its request made or has still to go to sleep, or waits with a timeout
  (`FifoWaits`). `mbx_wait_timed` sleeps after it has left the lock, so a timed wait may miss its
  request; its timeout ends it, and the theorem claims no more of it. Without timeouts and signals a request is
  for a process that left the slot or was given a semaphore, so there is one at a time (`FifoCalm`).

The hypotheses of these theorems are the assumptions of `Ipc` on the services in use, which TLC
evaluates on the instance it checks, and each is there because the property fails
without it. `OverwriteAssumption`: `ChunkValid` is violated with a task that overwrites and one that
receives. `PromptAssumption`: with timeouts `AnyReceived` is the finding of `ipc_late`, `BlockValid` is
violated in part `extlate`, the control block of a deleted caller is freed with its stack, and `rt_receivex` cannot tell a plain message from the address of a
control block: `BlockValid` is violated by a task that uses `send` and `rpcx`. `GiveUpAssumption`: a timed wait that gives up sets the semaphore of a fifo
free although another process has it (`fifos.c:392`). `ServerAssumption`, for `PriorityRestored` only:
`pass_prio` goes on from a sender to `msg_queue.task` of its receiver, and that is
the receiver itself only if it neither waits for a named task nor has been handed
a message it has not run for yet. Otherwise another task is raised, and keeps the
priority with empty queues; TLC finds this with four tasks that send to each
other, so the property is stated about clients and servers (part `ext`).

Each inductive invariant was model-checked on the instance of its run before it
was proved.

Model-checked only:

* the liveness properties (`TimedWaitReturns`, `HandOverCollected`,
  `WaiterProgresses`, `TriggersDelivered`), which the prover does not treat;
* `Inheritance`, `QueueOrder` and `BaseRestored` of `RtSem` with nested resources. There
  inheritance runs along chains of owners, the least closed set of `Boosted`, and its
  argument is an induction over the length of the chain;
* everything with suspensions and deletions of semaphores;
* `RtCond`, which needs the invariants of `RtSem` again for tasks with an additional phase;
* `RtRegistry` (`RegistrySound`), whose probing needs an invariant about chains of slots;
* `RtTime` (`RunsFirst`, `Punctual`) and `RtTlsf` (`HeapSound`): their definitions fold over the
  timed list and over the blocks of the heap, and the prover has no induction over these;
* the semaphore of a fifo and the proxies, whose property is liveness.

## What is left out, and the plan

Left out of `RtSem`: `rt_task_delete` and the deferred deletion of an owner,
soft (Linux) tasks, the alternative `CONFIG_RTAI_FULL_PRINHER`, messages as a
source of inherited priority (they are in `RtMsg`), and the pointers of the lists.

Left out elsewhere:

* the deletion of reader/writer locks and mailboxes: `rt_rwl_delete` deletes three
  semaphores one after the other, `rt_mbx_delete` frees a buffer others may be copying to;
* an overwriting send to a mailbox at the same time as a receive (`RtMbx` has both, `OverwriteAssumption`
  keeps them apart);
* creation and destruction of fifos, and asynchronous notification;
* the name based `rt_Send`, `rt_Receive` and `rt_Reply` and the ports of `rt_rpcx` services;
* creation and deletion of tasks, round robin, EDF, the links of the ready and
  timed lists, more than one CPU in `RtTime`;
* the mapping of shared memory, `rt_scb_reset`, the BSD style heap;
* interrupt and trap dispatch, timers of the machine, calibration;
* system call tables, `/proc` output, module loading, the math library,
  the patches to Linux and the test suite: dispatch, I/O, generated or third
  party code without state of its own that a model would tell apart.

Plan, in this order:

1. the invariants of `RtSem` again for tasks in `rt_cond_wait`, where the mutex is released without
   an owner, and with them proofs of `MutexCount`, `SignalsConserved` and `StoreUndisturbed`;
2. the links of the ready and timed lists, so that a task that is enqueued or
   unlinked twice is visible (`rt_task_resume` of a registered suspension,
   `rt_task_suspend` of a delayed task), and the life cycle of tasks.
