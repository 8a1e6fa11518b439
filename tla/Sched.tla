------------------------------- MODULE Sched -------------------------------
(***************************************************************************)
(* The scheduler of core/kernel/port/sched.c with the timer interrupt of   *)
(* time.c and the interrupt exits of blackfin/entry.S.                     *)
(*                                                                         *)
(* One CPU.  Code between __hw_cli() and __hw_sti() is not interrupted and *)
(* is one action, or several with cpu = "cli" when it loops.  Every        *)
(* service ends its critical section, and only then calls scheduler():     *)
(* the timer and the handlers run in that window too.                      *)
(*                                                                         *)
(* wuptim holds the ticks that remain rather than an absolute time: only   *)
(* differences to system_time are ever compared.                           *)
(***************************************************************************)
EXTENDS Queue, Integers, FiniteSetsExt

CONSTANTS
  Task,       \* tasks of the pool, the idle task excepted
  Idle,       \* the idle task, which owns a task_t but is never queued
  Main,       \* the task create_main_task() makes ready
  BasePri,    \* the priority every task is created with
  MinPri,     \* MIN_TASK_PRIORITY, the numerically largest priority
  WaitObj,    \* the objects that own a wait queue of synque links
  MaxTmo      \* bound on the timeouts the callers pass

ASSUME SchedAssumption ==
  /\ Idle \notin Task /\ Main \in Task
  /\ NULL \notin Task \cup {Idle}
  /\ MinPri \in Nat /\ MaxTmo \in Nat
  /\ BasePri \in [Task \cup {Idle} -> 0..MinPri]

Thread == Task \cup {Idle}
Pri == 0..MinPri

(* Task states; a task_t of zeroes, the idle task's first state, has none. *)
Stat == {"NONE", "RUN", "RDY", "WAI", "DMT"}

(* wobjid holds the object waited for, or how the wait ended.              *)
WObj == WaitObj \cup {"NONE", "E_DLT", "E_TMOUT"}

VARIABLES
  ready,        \* ready_queue.prioqueue and the rdyque links
  priobmap,     \* the set of priorities whose bit is set
  tmq,          \* timeout_queue and the slpque links
  waitq,        \* the wait queues of all objects and the synque links
  tskstat, tskpri, wobjid, wuptim,  \* fields of task_t
  current, dispatching, need_resched,
  ivg15,        \* interrupt 15 is raised with _schedule_from_int installed
  cpu,          \* "task", or the code that has interrupts masked
  pc,           \* where a thread continues once scheduler() returns to it
  resched       \* threads that left a critical section to call scheduler()

readyVars == <<ready, priobmap>>
tcbVars == <<tskstat, tskpri, wobjid, wuptim>>
cpuVars == <<current, dispatching, need_resched, ivg15, cpu>>
schedVars == <<ready, priobmap, tmq, waitq, tskstat, tskpri, wobjid, wuptim,
               current, dispatching, need_resched, ivg15, cpu, pc, resched>>

Labels == {"user", "wai_sem", "twai_sem", "del_sem", "ext_tsk", "exd_tsk",
           "rcv_mbx", "trcv_mbx", "del_mbx", "tryfetch", "tryfetch_rcv",
           "tryfetch_ena", "wai_flg", "del_flg", "get_mpf",
           "del_mpf"}

SchedTypeOK ==
  /\ ready \in Bank(Pri, Thread)
  /\ priobmap \subseteq Pri
  /\ tmq \in [head : Task \cup {NULL},
             next : [Task -> Task \cup {NULL}], prev : [Task -> Task \cup {NULL}]]
  /\ waitq \in Bank(WaitObj, Task)
  /\ tskstat \in [Thread -> Stat]
  /\ tskpri \in [Thread -> Pri]
  /\ wobjid \in [Thread -> WObj]
  /\ wuptim \in [Thread -> 0..MaxTmo]
  /\ current \in Thread
  /\ dispatching \in BOOLEAN /\ need_resched \in BOOLEAN /\ ivg15 \in BOOLEAN
  /\ cpu \in {"task", "cli", "tick"}
  /\ pc \in [Thread -> Labels]
  /\ resched \subseteq Thread

(* The main task runs and has created the other tasks, which cre_tsk()     *)
(* leaves dormant.  start_kernel(), the code of the idle task, was left    *)
(* for it by its own call of scheduler(), or by a tick before that call.   *)
SchedInit ==
  /\ ready = [head |-> [p \in Pri |-> IF p = BasePri[Main] THEN Main ELSE NULL],
              tail |-> [p \in Pri |-> IF p = BasePri[Main] THEN Main ELSE NULL],
              next |-> [t \in Thread |-> NULL], prev |-> [t \in Thread |-> NULL]]
  /\ priobmap = {BasePri[Main]}
  /\ tmq = [head |-> NULL, next |-> [t \in Task |-> NULL],
            prev |-> [t \in Task |-> NULL]]
  /\ waitq = EmptyBank(WaitObj, Task)
  /\ tskstat = [t \in Thread |->
                  CASE t = Main -> "RUN" [] t = Idle -> "NONE" [] OTHER -> "DMT"]
  /\ tskpri = BasePri
  /\ wobjid = [t \in Thread |-> "NONE"]
  /\ wuptim = [t \in Thread |-> 0]
  /\ current = Main
  /\ dispatching = TRUE /\ need_resched = FALSE /\ ivg15 = FALSE
  /\ cpu = "task"
  /\ pc = [t \in Thread |-> "user"]
  /\ resched \in {{}, {Idle}}

----------------------------------------------------------------------------
(* The ready queue.                                                        *)

rq_insert(t) ==
  /\ ready' = queue_insert(ready, tskpri[t], t)
  /\ priobmap' = priobmap \cup {tskpri[t]}

(* The head of the first non-empty queue.  The idle task's rdyque.this is  *)
(* never set, so that a queued idle task reads as NULL.                    *)
rq_get_head ==
  LET h == ready.head[Min(priobmap)] IN
    IF priobmap = {} \/ h = Idle THEN NULL ELSE h

(* Wrong variant: the bit is never cleared.                                *)
rq_remove_keepbit(t) ==
  /\ ready' = queue_remove(ready, tskpri[t], t)
  /\ priobmap' = priobmap

rq_remove(t) ==
  /\ ready' = queue_remove(ready, tskpri[t], t)
  /\ priobmap' = IF ready'.head[tskpri[t]] = NULL
                 THEN priobmap \ {tskpri[t]} ELSE priobmap

(* Wrong variant: the task keeps its old priority.                         *)
rq_relocate_oldpri(t, newpri) ==
  LET removed == queue_remove(ready, tskpri[t], t)
      bmap == IF removed.head[tskpri[t]] = NULL
              THEN priobmap \ {tskpri[t]} ELSE priobmap
  IN /\ ready' = queue_insert(removed, newpri, t)
     /\ priobmap' = bmap \cup {newpri}
     /\ UNCHANGED tskpri

(* Wrong variant: the bit of the old priority is never cleared.            *)
rq_relocate_keepbit(t, newpri) ==
  /\ ready' = queue_insert(queue_remove(ready, tskpri[t], t), newpri, t)
  /\ priobmap' = priobmap \cup {newpri}
  /\ tskpri' = [tskpri EXCEPT ![t] = newpri]

rq_relocate(t, newpri) ==
  LET removed == queue_remove(ready, tskpri[t], t)
      bmap == IF removed.head[tskpri[t]] = NULL
              THEN priobmap \ {tskpri[t]} ELSE priobmap
  IN /\ ready' = queue_insert(removed, newpri, t)
     /\ priobmap' = bmap \cup {newpri}
     /\ tskpri' = [tskpri EXCEPT ![t] = newpri]

----------------------------------------------------------------------------
(* The timeout queue, a doubly linked list sorted by wuptim.               *)

remove_linked_list(l, p) ==
  LET n == l.next[p]
      q == l.prev[p]
  IN [head |-> IF l.head = p THEN n ELSE l.head,
      next |-> [x \in Task |-> IF x = p THEN NULL
                               ELSE IF x = q THEN n ELSE l.next[x]],
      prev |-> [x \in Task |-> IF x = p THEN NULL
                               ELSE IF x = n THEN q ELSE l.prev[x]]]

(* The last element before the first one, after the head, whose wake-up    *)
(* time w is not earlier than tmout.                                       *)
LastBefore(w, tmout) ==
  LET Scan[l \in Task] ==
        IF tmq.next[l] = NULL THEN l
        ELSE IF tmout <= w[tmq.next[l]] THEN l ELSE Scan[tmq.next[l]]
  IN Scan[tmq.head]

(* Wrong variant: always at the head.                                      *)
tq_insert_unsorted(t, tmout) ==
  LET h == tmq.head IN
    /\ wuptim' = [wuptim EXCEPT ![t] = tmout]
    /\ tmq' = [head |-> t, next |-> [tmq.next EXCEPT ![t] = h],
               prev |-> [x \in Task |-> IF x = h THEN t ELSE
                           IF x = t THEN NULL ELSE tmq.prev[x]]]

tq_insert(t, tmout) ==
  LET w == [wuptim EXCEPT ![t] = tmout]
      h == tmq.head
      l == LastBefore(w, tmout)
      n == tmq.next[l]
      q == IF n = NULL THEN l ELSE tmq.prev[n]
  IN /\ wuptim' = w
     /\ tmq' = CASE h = NULL ->
                      [head |-> t, next |-> [tmq.next EXCEPT ![t] = NULL],
                       prev |-> [tmq.prev EXCEPT ![t] = NULL]]
                 [] h # NULL /\ tmout <= w[h] ->
                      [head |-> t, next |-> [tmq.next EXCEPT ![t] = h],
                       prev |-> [tmq.prev EXCEPT ![t] = NULL, ![h] = t]]
                 [] OTHER ->
                      [head |-> h, next |-> [tmq.next EXCEPT ![t] = n, ![q] = t],
                       prev |-> [x \in Task |-> IF x = n THEN t ELSE
                                   IF x = t THEN q ELSE tmq.prev[x]]]

tq_remove(t) == tmq' = remove_linked_list(tmq, t)

(* Wrong variant: system_time stands still.                                *)
evt_tmr_isr_stopped ==
  /\ cpu = "task"
  /\ cpu' = "tick"
  /\ UNCHANGED <<readyVars, tmq, waitq, tcbVars, current, dispatching,
                 need_resched, ivg15, pc, resched>>

(* Interrupt: system_time advances by one tick.                            *)
evt_tmr_isr ==
  /\ cpu = "task"
  /\ cpu' = "tick"
  /\ wuptim' = [t \in Thread |-> IF wuptim[t] = 0 THEN 0 ELSE wuptim[t] - 1]
  /\ UNCHANGED <<readyVars, tmq, waitq, tskstat, tskpri, wobjid, current,
                 dispatching, need_resched, ivg15, pc, resched>>

Expired(t) == t # NULL /\ wuptim[t] = 0

(* One turn of the loop of tq_wakeup(); tskstat is not touched.            *)
tq_wakeup ==
  /\ cpu = "tick" /\ Expired(tmq.head)
  /\ tmq' = remove_linked_list(tmq, tmq.head)
  /\ rq_insert(tmq.head)
  /\ wobjid' = [wobjid EXCEPT ![tmq.head] = "E_TMOUT"]
  /\ UNCHANGED <<waitq, tskstat, tskpri, wuptim, cpuVars, pc, resched>>

(* Wrong variant: at most one task is woken per tick (an if for the        *)
(* while).                                                                 *)
evt_timer_exit_early ==
  /\ cpu = "tick"
  /\ cpu' = "task"
  /\ ivg15' = TRUE
  /\ UNCHANGED <<readyVars, tmq, waitq, tcbVars, current, dispatching,
                 need_resched, pc, resched>>

(* Wrong variant: interrupt 15 is not raised.                              *)
evt_timer_exit_noraise ==
  /\ cpu = "tick" /\ ~Expired(tmq.head)
  /\ cpu' = "task"
  /\ UNCHANGED <<readyVars, tmq, waitq, tcbVars, current, dispatching,
                 need_resched, ivg15, pc, resched>>

(* The exit of _evt_timer always raises interrupt 15.                      *)
evt_timer_exit ==
  /\ cpu = "tick" /\ ~Expired(tmq.head)
  /\ cpu' = "task"
  /\ ivg15' = TRUE
  /\ UNCHANGED <<readyVars, tmq, waitq, tcbVars, current, dispatching,
                 need_resched, pc, resched>>

----------------------------------------------------------------------------
(* Wrong variant: no idle task when nothing is ready.                      *)
scheduler_noidle ==
  IF ~dispatching \/ rq_get_head = current
  THEN UNCHANGED <<current, tskstat, need_resched>>
  ELSE /\ current' = rq_get_head
       /\ tskstat' = [t \in Thread |->
            IF t = rq_get_head THEN "RUN"
            ELSE IF t = current /\ tskstat[t] = "RUN" THEN "RDY" ELSE tskstat[t]]
       /\ need_resched' = FALSE

(* scheduler(), outside interrupt handlers.                                *)
scheduler ==
  LET new == IF rq_get_head = NULL THEN Idle ELSE rq_get_head
      preempted == IF tskstat[current] = "RUN" THEN "RDY" ELSE tskstat[current]
  IN IF ~dispatching \/ new = current
     THEN UNCHANGED <<current, tskstat, need_resched>>
     ELSE /\ current' = new
          /\ tskstat' = [tskstat EXCEPT ![current] = preempted, ![new] = "RUN"]
          /\ need_resched' = FALSE

schedUnchanged == UNCHANGED <<readyVars, tmq, waitq, tskpri, wobjid, wuptim,
                              dispatching, cpu, pc>>

(* The running thread calls scheduler() after its critical section.        *)
CallScheduler ==
  /\ cpu = "task" /\ ~ivg15 /\ current \in resched
  /\ resched' = resched \ {current}
  /\ scheduler
  /\ UNCHANGED ivg15 /\ schedUnchanged

(* Interrupt 15 is taken before the next instruction of task level code.   *)
schedule_from_int ==
  /\ cpu = "task" /\ ivg15
  /\ ivg15' = FALSE
  /\ scheduler
  /\ UNCHANGED resched /\ schedUnchanged

(* Task t executes at label l, in its own code or inside a service.        *)
Running(t, l) ==
  /\ cpu = "task" /\ ~ivg15 /\ current = t /\ t \notin resched /\ pc[t] = l

(* The task leaves its critical section to call scheduler(), and continues *)
(* at label l when scheduler() returns to it.                              *)
ThenSchedule(t, l) ==
  /\ pc' = [pc EXCEPT ![t] = l]
  /\ resched' = resched \cup {t}
  /\ UNCHANGED <<current, dispatching, need_resched, ivg15, cpu>>

(* Wrong variant: need_resched is set but interrupt 15 is not raised.      *)
HandlerExit_noraise(called) ==
  /\ need_resched' = (need_resched \/ called)
  /\ UNCHANGED ivg15

(* Inside a handler scheduler() only sets need_resched, and the exit of    *)
(* _common_interrupt_body raises interrupt 15 when it is set.              *)
HandlerExit(called) ==
  /\ need_resched' = (need_resched \/ called)
  /\ ivg15' = (ivg15 \/ need_resched')

dis_dsp_sys == dispatching' = FALSE
ena_dsp_sys == dispatching' = TRUE

SchedStep ==
  \/ evt_tmr_isr \/ tq_wakeup \/ evt_timer_exit
  \/ CallScheduler \/ schedule_from_int

----------------------------------------------------------------------------
(* A node is linked if it has a neighbour or is a head.                    *)
InReady(t) == ready.prev[t] # NULL \/ ready.head[tskpri[t]] = t
InTimeout(t) == tmq.prev[t] # NULL \/ tmq.head = t

(* The thread scheduler() would run.                                       *)
Top == IF rq_get_head = NULL THEN Idle ELSE rq_get_head

(* The ready queue and its bitmap agree: rq_get_head() dereferences the    *)
(* head of every priority whose bit is set, and overlooks the others.      *)
BitmapExact == \A p \in Pri : p \in priobmap <=> ready.head[p] # NULL

(* tq_insert() and remove_linked_list() keep the timeout queue a doubly    *)
(* linked list in the order in which its tasks expire.                     *)
TimeoutQueueSorted ==
  /\ tmq.head # NULL => tmq.prev[tmq.head] = NULL
  /\ \A t, u \in Task :
       /\ tmq.next[t] = u <=> tmq.prev[u] = t
       /\ tmq.next[t] = u => wuptim[t] <= wuptim[u]

(* tq_wakeup() looks at the head only: no task may expire behind a later   *)
(* one and sleep on.                                                       *)
NoOverdue == \A t \in Task : cpu = "task" /\ InTimeout(t) => wuptim[t] > 0
=============================================================================
