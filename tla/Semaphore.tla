----------------------------- MODULE Semaphore -----------------------------
(***************************************************************************)
(* The semaphores of core/kernel/port/semaphore.c.                         *)
(*                                                                         *)
(* A call that fails its checks (E_ID, E_PAR, E_NOEXS, E_OBJ, E_QOVR)      *)
(* changes nothing in the kernel: made by a task it is a stuttering step.  *)
(***************************************************************************)
EXTENDS Sched

CONSTANTS Sem, MaxSem   \* semaphore IDs, bound on the counts of the callers

ASSUME SemAssumption == Sem \subseteq WaitObj /\ MaxSem \in Nat \ {0}
ASSUME SemNames == WaitObj \cap {"NONE", "E_DLT", "E_TMOUT"} = {}

VARIABLES
  sembmap,          \* the semaphores that exist
  semcnt, maxsem,   \* fields of semaphore_t
  deleting,         \* the semaphore whose waiters del_sem() is releasing
  granted           \* history: tasks given the semaphore while they waited

semVars == <<sembmap, semcnt, maxsem, deleting, granted>>

SemTypeOK ==
  /\ sembmap \subseteq Sem
  /\ semcnt \in [Sem -> 0..MaxSem]
  /\ maxsem \in [Sem -> 0..MaxSem]
  /\ deleting \in Sem \cup {NULL}
  /\ granted \subseteq Task

SemInit ==
  /\ sembmap = {}
  /\ semcnt = [s \in Sem |-> 0] /\ maxsem = [s \in Sem |-> 0]
  /\ deleting = NULL
  /\ granted = {}

cre_sem(t, s, isemcnt, max) ==
  /\ Running(t, "user")
  /\ max # 0 /\ isemcnt <= max
  /\ s \notin sembmap
  /\ sembmap' = sembmap \cup {s}
  /\ semcnt' = [semcnt EXCEPT ![s] = isemcnt]
  /\ maxsem' = [maxsem EXCEPT ![s] = max]
  /\ waitq' = [waitq EXCEPT !.head[s] = NULL, !.tail[s] = NULL]
  /\ UNCHANGED <<readyVars, tmq, tcbVars, cpuVars, pc, resched, deleting, granted>>

(* del_sem() releases the waiters one by one, with interrupts masked, and  *)
(* neither changes their tskstat nor calls the scheduler.                  *)
del_sem(t, s) ==
  /\ Running(t, "user")
  /\ s \in sembmap
  /\ cpu' = "cli" /\ deleting' = s
  /\ pc' = [pc EXCEPT ![t] = "del_sem"]
  /\ UNCHANGED <<readyVars, tmq, waitq, tcbVars, current, dispatching,
                 need_resched, ivg15, resched, sembmap, semcnt, maxsem, granted>>

del_sem_release(t) ==
  /\ cpu = "cli" /\ current = t /\ pc[t] = "del_sem"
  /\ LET w == waitq.head[deleting] IN
       /\ w # NULL
       /\ waitq' = queue_extract(waitq, deleting)
       /\ rq_insert(w)
       /\ wobjid' = [wobjid EXCEPT ![w] = "E_DLT"]
  /\ UNCHANGED <<tmq, tskstat, tskpri, wuptim, cpuVars, pc, resched, semVars>>

del_sem_end(t) ==
  /\ cpu = "cli" /\ current = t /\ pc[t] = "del_sem"
  /\ queue_is_empty(waitq, deleting)
  /\ waitq' = queue_extract(waitq, deleting)
  /\ sembmap' = sembmap \ {deleting}
  /\ cpu' = "task" /\ deleting' = NULL
  /\ pc' = [pc EXCEPT ![t] = "user"]
  /\ UNCHANGED <<readyVars, tmq, tcbVars, current, dispatching, need_resched,
                 ivg15, resched, semcnt, maxsem, granted>>

(* Wrong variant: the count grows even when a waiter is released.          *)
SignalSem_both(s) ==
  /\ s \in sembmap /\ semcnt[s] # maxsem[s]
  /\ waitq' = queue_extract(waitq, s)
  /\ semcnt' = [semcnt EXCEPT ![s] = @ + 1]
  /\ \/ LET w == waitq.head[s] IN
          /\ w # NULL
          /\ tskstat' = [tskstat EXCEPT ![w] = "RDY"]
          /\ rq_insert(w)
          /\ granted' = granted \cup {w}
     \/ /\ queue_is_empty(waitq, s)
        /\ UNCHANGED <<readyVars, tskstat, granted>>
  /\ UNCHANGED <<tmq, tskpri, wobjid, wuptim, sembmap, maxsem, deleting>>

(* The critical section of sig_sem(): the first waiter, or the count.      *)
SignalSem(s) ==
  /\ s \in sembmap /\ semcnt[s] # maxsem[s]
  /\ waitq' = queue_extract(waitq, s)
  /\ \/ LET w == waitq.head[s] IN
          /\ w # NULL
          /\ tskstat' = [tskstat EXCEPT ![w] = "RDY"]
          /\ rq_insert(w)
          /\ granted' = granted \cup {w}
          /\ UNCHANGED semcnt
     \/ /\ queue_is_empty(waitq, s)
        /\ semcnt' = [semcnt EXCEPT ![s] = @ + 1]
        /\ UNCHANGED <<readyVars, tskstat, granted>>
  /\ UNCHANGED <<tmq, tskpri, wobjid, wuptim, sembmap, maxsem, deleting>>

sig_sem(t, s) ==
  /\ Running(t, "user")
  /\ SignalSem(s)
  /\ ThenSchedule(t, "user")

(* An interrupt handler signals; it may also find E_NOEXS or E_QOVR.       *)
sig_sem_int(s) ==
  /\ cpu = "task"
  /\ SignalSem(s)
  /\ HandlerExit(TRUE)
  /\ UNCHANGED <<current, dispatching, cpu, pc, resched>>

sig_sem_int_error(s) ==
  /\ cpu = "task"
  /\ s \notin sembmap \/ semcnt[s] = maxsem[s]
  /\ HandlerExit(FALSE)
  /\ UNCHANGED <<readyVars, tmq, waitq, tcbVars, current, dispatching, cpu, pc,
                 resched, semVars>>

(* Wrong variant: the count is compared with 0.                            *)
wai_sem_ok_zero(t, s) ==
  /\ Running(t, "user")
  /\ s \in sembmap /\ semcnt[s] >= 0
  /\ semcnt' = [semcnt EXCEPT ![s] = @ - 1]
  /\ UNCHANGED <<schedVars, sembmap, maxsem, deleting, granted>>

(* wai_sem() and twai_sem() when the count is positive.                    *)
wai_sem_ok(t, s) ==
  /\ Running(t, "user")
  /\ s \in sembmap /\ semcnt[s] >= 1
  /\ semcnt' = [semcnt EXCEPT ![s] = @ - 1]
  /\ UNCHANGED <<schedVars, sembmap, maxsem, deleting, granted>>

(* Wrong variant: the task stays in the ready queue.                       *)
WaitSem_ready(t, s) ==
  /\ Running(t, "user")
  /\ s \in sembmap /\ semcnt[s] < 1
  /\ waitq' = queue_insert(waitq, s, t)
  /\ tskstat' = [tskstat EXCEPT ![t] = "WAI"]
  /\ wobjid' = [wobjid EXCEPT ![t] = s]
  /\ UNCHANGED <<readyVars, tskpri, semVars>>

(* Wrong variant: wobjid keeps the result of the last wait.                *)
WaitSem_stale(t, s) ==
  /\ Running(t, "user")
  /\ s \in sembmap /\ semcnt[s] < 1
  /\ waitq' = queue_insert(waitq, s, t)
  /\ tskstat' = [tskstat EXCEPT ![t] = "WAI"]
  /\ rq_remove(t)
  /\ UNCHANGED <<tskpri, wobjid, semVars>>

WaitSem(t, s) ==
  /\ Running(t, "user")
  /\ s \in sembmap /\ semcnt[s] < 1
  /\ waitq' = queue_insert(waitq, s, t)
  /\ tskstat' = [tskstat EXCEPT ![t] = "WAI"]
  /\ wobjid' = [wobjid EXCEPT ![t] = s]
  /\ rq_remove(t)
  /\ UNCHANGED <<tskpri, semVars>>

wai_sem(t, s) ==
  /\ WaitSem(t, s)
  /\ ThenSchedule(t, "wai_sem")
  /\ UNCHANGED <<tmq, wuptim>>

(* The second critical section: wobjid tells how the wait ended.           *)
wai_sem_end(t) ==
  /\ Running(t, "wai_sem")
  /\ pc' = [pc EXCEPT ![t] = "user"]
  /\ granted' = granted \ {t}
  /\ UNCHANGED <<readyVars, tmq, waitq, tcbVars, cpuVars, resched, sembmap,
                 semcnt, maxsem, deleting>>

twai_sem(t, s, tmout) ==
  /\ tmout # 0    \* TMO_FEVR is wai_sem()
  /\ WaitSem(t, s)
  /\ tq_insert(t, tmout)
  /\ ThenSchedule(t, "twai_sem")

(* Wrong variant: the task is left in the timeout queue.                   *)
twai_sem_end_linked(t) ==
  /\ Running(t, "twai_sem")
  /\ pc' = [pc EXCEPT ![t] = "user"]
  /\ granted' = granted \ {t}
  /\ UNCHANGED <<readyVars, tmq, waitq, tcbVars, cpuVars, resched, sembmap,
                 semcnt, maxsem, deleting>>

(* Only a wait that ended with the semaphore leaves the timeout queue.     *)
twai_sem_end(t) ==
  /\ Running(t, "twai_sem")
  /\ pc' = [pc EXCEPT ![t] = "user"]
  /\ granted' = granted \ {t}
  /\ IF wobjid[t] \in {"E_DLT", "E_TMOUT"} THEN UNCHANGED tmq ELSE tq_remove(t)
  /\ UNCHANGED <<readyVars, waitq, tcbVars, cpuVars, resched, sembmap, semcnt,
                 maxsem, deleting>>

SemStep ==
  \/ \E t \in Task, s \in Sem :
       \/ \E i, m \in 0..MaxSem : cre_sem(t, s, i, m)
       \/ del_sem(t, s)
       \/ sig_sem(t, s)
       \/ wai_sem_ok(t, s)
       \/ wai_sem(t, s)
  \/ \E t \in Task : del_sem_release(t) \/ del_sem_end(t) \/ wai_sem_end(t)
  \/ \E s \in Sem : sig_sem_int(s) \/ sig_sem_int_error(s)

TimedSemStep ==
  \/ \E t \in Task, s \in Sem, tmout \in 1..MaxTmo : twai_sem(t, s, tmout)
  \/ \E t \in Task : twai_sem_end(t)
=============================================================================
