# ObelISK in TLA+

ObelISK is an ITRON kernel for the Blackfin BF548: one CPU, fixed priority
preemptive tasks, semaphores, event flags, mailboxes and memory pools. This
directory models the kernel's core, checks it with TLC and proves its central
invariants with TLAPS. Paths below are relative to `src/obelisk/core/`.

## 1. The system

### Parts

| Part | Source | State | Operations |
|---|---|---|---|
| queues, lists | `include/queue.h`, `include/linked_list.h` | head, tail, next, prev | insert, extract, remove |
| scheduler | `kernel/port/sched.c` | 32 ready queues, bitmap, `current_task`, `dispatching`, `need_resched` | `rq_*`, `scheduler`, `dis_dsp`, `ena_dsp` |
| timeouts | `kernel/port/sched.c`, `time.c` | sorted timeout queue, `system_time` | `tq_insert`, `tq_remove`, `tq_wakeup`, the tick |
| interrupts | `kernel/blackfin/entry.S` | EVT15 vector, nesting count | entry, exits, `_schedule_from_int`, system calls |
| tasks | `kernel/port/task.c` | `task_t`, pool bitmap | create, delete, activate, end, sleep, release, change priority |
| semaphores | `kernel/port/semaphore.c` | count, maximum, wait queue | create, delete, signal, wait, timed wait |
| mailboxes | `kernel/port/mailbox.c` | message list, wait queue | send, receive, timed receive, delete |
| event flags | `kernel/port/event.c` | pattern, wait queue | set, clear, wait, delete |
| memory pools | `kernel/port/mempool.c`, `libc/mpool.c` | free list, wait queue | get, release, delete |
| allocator | `libc/tlsf.c` | block headers, free lists, two levels of bitmaps | allocate, free, resize |
| network glue | `drivers/lwip/contrib/src/sys_arch.c` | built on mailboxes, semaphores, the system pool | post, fetch, tryfetch, allocate |

Section 5 says what is not modelled and why.

### How the parts interact

Every service masks interrupts (`__hw_cli`), changes the queues and the
`task_t` fields, unmasks them (`__hw_sti`), and only then calls `scheduler()`.
A waiting service has a second critical section after `scheduler()` returns,
in which it reads `wobjid` to learn how the wait ended. Services run at
interrupt level 15 and can be preempted between critical sections, by the
timer, by a handler that calls services itself, and by interrupt 15, with
which both interrupt exits ask for a reschedule. Inside a handler
`scheduler()` only sets `need_resched`. `head.S` sets `SYSCFG_SNEN`, so that
interrupt 15 can interrupt a service that runs at level 15 itself.

A system call also goes through interrupt 15: the trap installs
`_system_call` in the EVT15 vector and raises it, and the interrupt exits
install `_schedule_from_int` in the same vector.

A sender or releaser that finds a waiting task hands it the message header or
the block in the `extdat` field of its `task_t`; the waiter picks it up in its
second critical section. Message headers come from one block pool that all
mailboxes share.

The network stack receives through mailboxes, and its non-blocking `tryfetch`
disables dispatching to look at a mailbox and then receive from it. It
allocates from the system pool, which the memory pool services do not guard.

### What makes it hard

- the window between `__hw_sti()` and `scheduler()`, in which a task that is
  already in a wait queue still runs, may be released again and may be
  switched away from;
- queues whose nodes are embedded in the `task_t`: inserting a linked node
  corrupts two queues;
- duplicated state: bitmap and queue heads, `tskstat` and queue membership;
- `wobjid`, which the semaphore services never clear, and which event flags and
  pools never set;
- a message or a block that has left its queue and has not reached its task;
- timeouts that race with signals and messages;
- loops under masked interrupts (the deletions, `tq_wakeup`);
- an allocator whose headers, flags, lists and bitmaps say the same thing four
  times, each updated by different code.

The hazards, each at its line and with the properties that would catch it, are
in `PROJECT.json`.

## 2. Modules

| Module | Models |
|---|---|
| `Queue` | the list operations on a *bank*: several queues that share the links of their nodes |
| `Fifo` | abstract specification: a family of sequences |
| `QueueImpl` | the pointer operations as a state machine, refining `Fifo` |
| `Sched` | ready and timeout queues, tick, interrupt exits, `scheduler()` |
| `TaskMgmt` | task services |
| `Semaphore` | semaphore services |
| `TaskKernel` | composition: all task services with scheduler and timer |
| `SemKernel` | composition: untimed semaphores, activation, `ext_tsk`, `chg_pri`, handlers, timer |
| `BlockPool` | `mpalloc`, `mpfree`, `init_pool` and the addresses they compute |
| `WaitObject` | what mailboxes, event flags and pools share: blocking, `extdat`, release by deletion |
| `Mailbox` | mailbox services, `trcv_mbx`, and `tryfetch` of the network glue |
| `MailboxAbs` | abstract specification: a sequence per mailbox, one message on its way per task |
| `EventFlag` | event flag services |
| `MemPool` | fixed-size memory pools |
| `ObjKernel` | composition: mailboxes, event flags, pools, `tryfetch`, handlers, timer |
| `TimedKernel` | composition: every operation of semaphores and mailboxes, `twai_sem`, `trcv_mbx` and the deletions included, handlers, timer |
| `Entry` | system calls and interrupt exits on the EVT15 vector |
| `Tlsf` | the allocator's structures and services, as operators on a heap |
| `TlsfPool` | a variable-size pool: the allocator under the lock of `get_mpl` and `rel_mpl` |
| `SharedPool` | the system pool as the network tasks use it, without a lock |
| `MC*` | instances for TLC |
| `QueueProofs` | lemmas on queues |
| `SemTaskProofs`, `SemKernelProofs` | theorems about `SemKernel`: inductive invariant and task services, then semaphore services and results |
| `TlsfSizeProofs`, `TlsfListProofs`, `TlsfBlockProofs`, `TlsfServiceProofs`, `TlsfProofs` | theorems about `TlsfPool`, from the sizes up to the pool |

Conventions:

- A critical section is one action. Where it loops it is several actions with
  `cpu = "cli"` (`del_sem`, `del_mbx`, `del_flg`, `del_mpf`) or `cpu = "tick"` (`tq_wakeup`), and nothing else is
  enabled meanwhile.
- `resched` holds the threads that have left a critical section and are about
  to call `scheduler()`; `pc` is where they continue when it returns to them.
- `ivg15` is interrupt 15 pending; it is taken before the next task level
  instruction, so that task level actions require `~ivg15`.
- `wuptim` counts the ticks that remain (0 when expired). The code compares the
  absolute wake-up time with `system_time`.
- `wobjid` holds the object, `E_DLT` or `E_TMOUT`. `WaitObj` must not contain
  the names of those codes.
- A call that fails its checks changes nothing and is a stuttering step. The
  exception is a failing call in a handler, whose exit still looks at
  `need_resched` (`sig_sem_int_error`).
- Definitions marked *Wrong variant* are the mutations used to test that the
  properties can fail; no specification uses them.
- History variables (`granted`, `handed`, `given`, `dltd`, `request`, `call` of
  `Entry`) record what has been promised to whom; no guard on a service's own
  behaviour reads them.
- `Tlsf` counts addresses from the base of the pool and keeps the C constants
  and rounding. Its two flag bits in the size word are Booleans, its doubly
  linked free lists sequences. A header that is merged away leaves the domain of
  `hdr`, so that any later use of it is an error in TLC and a failed proof.
- The initial state is the one in which the main task has created the others
  (all dormant); it covers both ways the start-up code may have been left.

## 3. Runs

| Run | Instance | Shows |
|---|---|---|
| `queue` | 2 queues, 4 nodes | the links always describe the same sequences; refinement of `Fifo` |
| `sem_kernel` | 3 tasks, 2 priorities, 1 semaphore | one place per task, exact bitmap, no waiter while the count is positive, priority inversion only after `del_sem`, truthful result of `wai_sem` |
| `sem_live` | 2 tasks, `chg_pri`, queued activations, fairness | the inversion is repaired again and again |
| `task_services` | 3 tasks, 2 priorities, timeouts 1..2 | every task service, with `rel_wai` applied only to tasks in `slp_tsk`: one place per task, exact bitmap, the highest priority task runs, the timeout queue is sorted and doubly linked, nobody oversleeps |
| `timed_waits` | 2 tasks, one semaphore or mailbox in a behaviour, timeouts 1..2, fairness | signals, messages, deletions and timeouts racing: no waiter while a count is positive or a message queued, no receive follows a null `extdat`, a timed wait has left the timeout queue when it returns (unless with `E_DLT`), every timeout fires |
| `objects` | 3 tasks, 2 priorities, one mailbox, event flag or pool | one place per task; every header is free, queued or on its way exactly once; a receiver finds the message given to it; refinement of `MailboxAbs`; no waiter on a queued message or a free block; no AND wait on a set flag, other than with `TA_WMUL` and without `TA_CLR`; a block has one owner; `tryfetch` never blocks; every priority inversion is recorded in `need_resched` |
| `tlsf` | a pool of 4144 bytes, requests of 0, 200 and 520 bytes, 3 buffers | headers tile the pool, boundary tags are right, free neighbours are merged, lists and bitmaps agree with the blocks, requests are served in full, the search misses nothing |
| `timeout_signal` | as `timed_waits` | **violated**: a signal goes to a task that no longer waits |
| `or_wait` | as `objects`, with an event flag only | **violated**: an OR wait goes on although one of its bits is set |
| `ext_returns` | as `task_services` | **violated**: `ext_tsk()` returns |
| `syscall_lost` | 2 tasks, 3 nested frames | **violated**: a system call returns without having been executed |
| `shared_pool` | 2 tasks, one request size | **violated**: two tasks hold the same buffer |

### Bounds

Three tasks on two priorities are enough for two waiters on one semaphore and
a third task that signals or deletes, for a queue with a middle element, and
for a task above, beside and below the running one. One semaphore suffices
because wait queues interact only through the links of the tasks, which the
`queue` run covers with two queues. `MaxSem = 1` gives an empty, a full and a
refused semaphore. Timeouts of 1 and 2 with three sleeping tasks
give every insertion position of `tq_insert`, equal times included. `MaxAct` bounds the queued
activations, which the code counts but never uses: a larger bound reaches no
other behaviour.

`objects` creates one object in a behaviour (`MaxObj = 1`), of any of the three
kinds, and may delete it. Objects interact only through the links of the tasks,
through `wobjid` and through the pool of headers. The first is the subject of
`queue`. What one object leaves in `wobjid` for the next, and two mailboxes that
share the pool, are outside this run. Two messages and two headers give an empty, a partly used and an
exhausted pool, and reuse of a header while another is queued. Two bits give patterns
that are not set, partly set and set, and all four attribute combinations of a
flag occur. Pools have one and two blocks.

`timed_waits` also creates one object in a behaviour, for a reason in the code.
A task whose `twai_sem` timed out stays in the semaphore's queue
(`timeout_signal`). If it then receives from a mailbox, a signal ends that wait,
and the receive reads and frees whatever `extdat` holds, a null pointer at first
(`mailbox.c:460`). A task that `E_DLT` left in the timeout queue, and that starts
another timed wait, closes a cycle there, in which `tq_insert` can search for
ever. What the code does after either is not defined, and the model says
nothing of it. Within one object the two defects leave the properties of the run intact,
which is what it shows. `MbxTmo = 1` is enough for a timeout to expire before,
between and after the two halves of a receive. One header (`NMsg = 1`) is enough
for a message that is queued, handed over, or lost to a timeout; `objects` has two.

In `tlsf` the pool has room for one large and some small blocks, so that
requests fail, blocks are split with and without a remainder, merged on one
side and on both, trimmed, grown in place and moved. The requests lie below and
above the class boundary of 128 bytes; the smallest is rounded up. `calloc`
asks for twice a size, which adds two sizes. Every other size is the subject of
the proofs.

`MCSemKernel` declares the two tasks that are created alike symmetric; no
liveness property is checked there. `MCObjKernel` does the same for its two
higher tasks, its two messages and its two bits, and `MCTaskKernel` for its two
lower tasks.

### Inputs the runs leave out

Some services damage the queues in combinations the runs exclude; the hazards
list says where.

- `rel_wai` leaves a task in its wait and timeout queues. `TaskKernel` applies
  it only to tasks that sleep with `slp_tsk` (`InSlp`).
- `twai_sem` leaves the task in the wait queue after a timeout, and both timed
  waits leave it in the timeout queue after a deletion. `TimedKernel` has both,
  for one object in a behaviour. It does not claim that a task is in one place
  only: a signalled task whose timeout expires before it runs is inserted in the
  ready queue twice. Nor does it claim that headers are conserved: a message
  handed to a receiver whose timeout then expires is lost with its header.
- `ObjKernel` has no timed waits. With them a tick that wakes a task during a
  `tryfetch` would leave a priority inversion without `need_resched`.
- `snd_mbx` does not test the result of `mpalloc`. `SendMbx` has a free header
  as its guard.
- Headers and pools start in zeroed memory: `queue_insert` does not initialise
  the `next` link of a header.
- A pool's memory is not given to a new pool while a block of the old one is on
  its way to a task, and callers release only blocks they own.
- The size of a TLSF pool is a multiple of 8. For other sizes the last header
  can lie up to 4 bytes outside the pool, since `init_memory_pool` sizes the area
  with `sizeof(tlsf_t)` and places it at that size rounded up.
- Sizes passed to the allocator are at most 2^28, and `nelem * elem_size` in
  `calloc_ex` does not wrap.
- `chg_pri` is not applied to the idle task.

### Fairness

Nothing is assumed of the tasks' own code. The tick, interrupt 15 and the call
of `scheduler()` that ends a service have strong fairness: they are disabled
now and then by masked interrupts or by one another, but a latched interrupt
is taken once unmasked and a service cannot stop before its last call. The
loops under masked interrupts have weak fairness.

### Findings

- `kernel/port/semaphore.c:418`: the `E_TMOUT` path of `twai_sem` does not take
  the task out of the semaphore's queue (`trcv_mbx`, `mailbox.c:443`, does). A
  later `sig_sem` spends its signal on a task that no longer waits, and inserts
  it in the ready queue although it is there already.
- `kernel/port/event.c:250`: whether a waiting task asked for all of its bits or
  for one of them is read from `wflgatr`, "wait mode for eventflags" (`task.h:70`),
  which nothing assigns. An OR wait that has blocked is released as an AND wait:
  it goes on although one of its bits is set.
- `kernel/port/task.c:529`: "Call the scheduler (never returns)". It returns
  when the dormant task is activated again, because `act_tsk` does not
  reinitialise its stack; the task resumes behind `ext_tsk()`.
- `kernel/blackfin/entry.S:43`: `_syscall_prolog` and the interrupt exits share
  EVT15. A timer tick or a handler that asks for a reschedule, between the
  `raise 15` of a system call and its dispatch, replaces `_system_call` by
  `_schedule_from_int`: the call is not executed and the task goes on with its
  first argument as the result.
- `drivers/lwip/contrib/src/sys_arch.c:346`: `lwipopts.h` asks for protection of
  memory allocation, but `sys_malloc` calls the allocator on the shared pool
  without a lock. `SharedPool` has one preemption point, between the search and
  the first write, which is enough for two tasks to be given the same buffer.

Read off the code while modelling, without a run of their own: `set_flg`
releases at most one task per call, because `queue_remove` clears the link that
its loop follows (`event.c:243`); `twai_sem` and `trcv_mbx` return `E_DLT`
without `tq_remove`, so that `tq_wakeup` makes the task ready once more in the
middle of its own code (`semaphore.c:413`, `mailbox.c:450`);
`rel_mpf` refuses most valid blocks of a pool with more than one, because the
stride of the blocks is four times what the range test assumes (`mpool.c:53`,
`mempool.c:327`); `get_mpl` returns `E_OK` with a null pointer when the pool is
exhausted (`mempool.c:442`); `ter_tsk` returns with interrupts masked
(`task.c:874`).

## 4. Proofs

`QueueProofs` proves, for every number of queues and nodes, that
`queue_insert` of an unlinked node, `queue_remove` of a linked one and
`queue_extract` keep `Links`: heads, tails and links agree with a set of linked
nodes and with the queue each is in. `Links` relates neighbours only, so that
no induction over queues is needed.

`SemKernelProofs` proves the properties of the `sem_kernel` run for every number of tasks,
priorities and semaphores, every bound and every set of priorities for
`chg_pri`:

| Theorem | Property |
|---|---|
| `TypeCorrect` | `TypeOK` |
| `QueuesCorrect` | `OnePlace` |
| `BitmapCorrect` | `BitmapExact` |
| `SemaphoreCorrect` | `NoWaiterWhileAvailable` |
| `PriorityCorrect` | `InversionOnlyAfterDelete` |
| `WaitResultCorrect` | `ReturnsWhatWasGranted` |

None of these is inductive alone. `IInv` joins them through two sets that
depend only on `task_t` fields: `ReadySet` (running, ready, or waiting with
`E_DLT`) and `WaitSet` (waiting otherwise). `QueueInv` says that the ready bank
links exactly `ReadySet`, by priority, and the wait bank exactly `WaitSet`, by
`wobjid`. `CpuInv` says that a running task not about to call `scheduler()` is
in `ReadySet`, which is what lets `wai_sem` and `ext_tsk` remove it. `GrantInv`
says what the second half of `wai_sem` will find, `DispatchInv` extends the
priority property to the inside of `del_sem`. There is one lemma per action:
those of the tick, the scheduler and the task services are in `SemTaskProofs`,
which also defines `IInv`, those of the semaphore services in `SemKernelProofs`.
`MinPriority`, the existence of the smallest set bit, rests on the library's
well-foundedness of the natural numbers.

Assumptions: `SchedAssumption`, `TaskAssumption`, `SemAssumption`, `SemNames`,
`NewPriAssumption`, all evaluated by TLC on the runs.

`TlsfProofs` proves the properties of the `tlsf` run for every pool whose size
is a multiple of 8 between 3244 bytes (what `init_memory_pool` requires) and 2^29,
and every set of request sizes up to 2^28:

| Theorem | Property |
|---|---|
| `HeapCorrect` | `HeapTiled`, `BoundaryTags`, `FullyCoalesced`, `ListsMatchBlocks` |
| `BuffersCorrect` | `RequestsServed` |
| `SearchCorrect` | `SearchComplete` |
| `PoolInvariance` | `PoolInv`, the inductive invariant |

`PoolInv` says that the heap is `Good`, that every buffer held is a used block
large enough for its request, and that every used block is held. `Good` joins
`Headers` (tiling, tags, merged neighbours) and `Lists` (each free
block once in the list of its size, bitmaps exact). Inside an operation the heap
is not `Good`: a freed block is marked before its neighbours are merged, and a
grown one has swallowed its neighbour before the block behind it is told. But
at any moment there is one such block. `Headers(hdr, b)` exempts the *loose*
block `b` from tags and merging, and the argument follows it: `Extract` and
`Insert` change the lists only, `Absorbing` lets the loose block swallow its
neighbour, `Settling` writes the tag behind it and `Splitting` cuts it; the last
two end with no loose block. `Malloc`, `Free` and `Realloc` compose these
lemmas along the code's branches. `Mapping` carries the arithmetic: a size
determines one cell of the matrix, a larger size no earlier one, and every block
in the cell of the rounded request has the rounded size. From it follows that
the code may take the head of a list without comparing sizes.

The lemmas come in four layers, each a module that extends the one before:
`TlsfSizeProofs` (`Mapping` and the search of the bitmaps), `TlsfListProofs`
(lists, `Headers` and `Good`), `TlsfBlockProofs` (`Absorbing`, `Settling`,
`Splitting`) and `TlsfServiceProofs` (`Malloc`, `Free`, `Realloc`).

Assumptions: `TlsfAssumption` and `PoolAssumption`.

Only model-checked: liveness (fairness and `ENABLED` are outside the prover),
the timeout queue (its insertion point is a recursive function),
`TaskKernel`, `TimedKernel` and `ObjKernel`, and the refinements of `Fifo` and of
`MailboxAbs`, whose mappings follow the links recursively.

## 5. Not modelled

| Part | Reason |
|---|---|
| `ter_tsk`, `wup_tsk`, `sus_tsk` | unfinished or empty in the source |
| services that only read (`ref_*`, `get_pri`, `get_tim`, `sns_dsp`) | no state change; `ref_mbx` is modelled where `tryfetch` depends on it |
| `cre_mpl` | fails on every pool that `get_mpl` accepts, all four being in use from the start |
| `add_new_area`, `destroy_memory_pool`, default pool wrappers of `tlsf.c` | no caller; growing pools are configured out |
| `heap.c`, `region.c`, `tbitmap.c` | used by code that is configured or commented out |
| `device.c`, `can.c` | do not compile as they stand, so that their behaviour cannot be read off them |
| register saving, handler table, memory protection tables | hardware state without influence on the properties |
| board support and drivers (DMA, GPIO, PPI, CAN, camera, flash, Ethernet) | device register protocols |
| system log, debugging, C library, compiler runtime | no kernel state |
| lwIP, `scripts/kconfig`, host tools | third-party code and programs that do not run on the target |

The last row, with the register definitions in the headers, is most of the tree:
lwIP alone is about half of the 117,000 lines. The modules cover nearly all of
the object services, the scheduler and the allocator, which are about 4,000
lines, and so only a few percent of the whole.

## 6. Running

    tlc -workers 2 -config MCSemKernel.cfg MCSemKernel
    tlc -workers 2 -config MCTlsfPool.cfg TlsfPool
    tlapm SemKernelProofs.tla
    tlapm TlsfProofs.tla

`tlapm` checks one module at a time: a complete check calls it on each of the
eight `*Proofs` modules. The largest takes about three minutes from nothing.

`PROJECT.json` lists module, configuration and expected outcome of every run.
