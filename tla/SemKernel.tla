----------------------------- MODULE SemKernel -----------------------------
(***************************************************************************)
(* Semaphores without timeouts, tasks that are activated, end and change   *)
(* priority, handlers that signal, and the timer: one kernel.              *)
(***************************************************************************)
EXTENDS TaskMgmt, Semaphore

CONSTANT NewPri    \* the priorities callers ask of chg_pri()

ASSUME NewPriAssumption == NewPri \subseteq Pri

vars == <<schedVars, taskVars, semVars>>

Init == SchedInit /\ TaskInit /\ SemInit

TaskStep ==
  \/ \E c, t \in Task : act_tsk(c, t) \/ \E p \in NewPri : chg_pri(c, t, p)
  \/ \E c \in Task : ext_tsk(c) \/ ext_tsk_end(c)

Next ==
  \/ SchedStep /\ UNCHANGED <<taskVars, semVars>>
  \/ TaskStep /\ UNCHANGED semVars
  \/ SemStep /\ UNCHANGED taskVars

Spec == Init /\ [][Next]_vars

(* The timer goes on ticking, an interrupt that is taken ends, a raised    *)
(* interrupt 15 is taken and kernel code, once entered, goes on.  Nothing  *)
(* is assumed of the tasks' own code.                                      *)
Fairness ==
  /\ SF_vars(evt_tmr_isr /\ UNCHANGED <<taskVars, semVars>>)
  /\ WF_vars((tq_wakeup \/ evt_timer_exit) /\ UNCHANGED <<taskVars, semVars>>)
  /\ SF_vars(schedule_from_int /\ UNCHANGED <<taskVars, semVars>>)
  /\ SF_vars(CallScheduler /\ UNCHANGED <<taskVars, semVars>>)
  /\ WF_vars((\E t \in Task : del_sem_release(t) \/ del_sem_end(t))
             /\ UNCHANGED taskVars)

FairSpec == Spec /\ Fairness

TypeOK == SchedTypeOK /\ TaskTypeOK /\ SemTypeOK

----------------------------------------------------------------------------
InWait(t) == waitq.prev[t] # NULL \/ \E s \in Sem : waitq.head[s] = t

(* Every live task is linked in exactly one place: a ready or running task *)
(* in the ready queue of its priority, a waiting task in one wait queue    *)
(* until it is signalled or its semaphore deleted, a dormant one nowhere.  *)
(* (queue_insert() in rq_insert(), sig_sem(), del_sem(), wai_sem(): a node *)
(* inserted while linked would corrupt both queues.)                       *)
OnePlace ==
  \A t \in Task :
    /\ ~(InReady(t) /\ InWait(t))
    /\ tskstat[t] \in {"RUN", "RDY"} => InReady(t)
    /\ tskstat[t] = "DMT" => ~InReady(t) /\ ~InWait(t)
    /\ tskstat[t] = "WAI" => (InReady(t) <=> ~InWait(t))

(* A semaphore with a positive count has no waiter, and never exceeds its  *)
(* maximum: the E_QOVR test of sig_sem() comes before it looks for waiters,*)
(* so that with both a count and a waiter a signal could be refused.       *)
NoWaiterWhileAvailable ==
  \A s \in sembmap :
    /\ semcnt[s] <= maxsem[s] /\ maxsem[s] > 0
    /\ semcnt[s] > 0 => queue_is_empty(waitq, s)

(* wai_sem() returns E_OK after waiting exactly when a sig_sem() handed    *)
(* the semaphore to that very task, and E_DLT exactly when none did.       *)
ReturnsWhatWasGranted ==
  [][\A t \in Task :
       pc[t] = "wai_sem" /\ pc'[t] = "user" =>
         ((wobjid[t] = "E_DLT") <=> t \notin granted)]_vars

(* Outside the windows in which a call of scheduler() is due, the running  *)
(* task is the first of the highest priority, except that a task released  *)
(* by del_sem(), which does not call scheduler(), may still have to wait.  *)
InversionOnlyAfterDelete ==
  cpu = "task" /\ dispatching /\ ~ivg15 /\ current \notin resched
    => \/ current = Top
       \/ tskstat[Top] = "WAI" /\ wobjid[Top] = "E_DLT"

(* That inversion, like any other, ends with the next tick: the running    *)
(* task is again and again the first of the highest priority.              *)
TopRunsAgain == []<>(current = Top)
=============================================================================
