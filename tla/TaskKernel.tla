----------------------------- MODULE TaskKernel -----------------------------
(***************************************************************************)
(* The task services together, with the scheduler and the timer: tasks are *)
(* created, activated, re-prioritised, sleep, are released, end and are    *)
(* deleted.                                                                *)
(***************************************************************************)
EXTENDS TaskMgmt

CONSTANTS
  NewPri,       \* the priorities callers ask for
  Sleepers,     \* tasks that call tslp_tsk()
  Releasable    \* tasks that call slp_tsk() and that rel_wai() is called on
                \* while they are in it

ASSUME TaskKernelAssumption ==
  NewPri \subseteq Pri /\ Sleepers \subseteq Task /\ Releasable \subseteq Task

vars == <<schedVars, taskVars>>

Init == SchedInit /\ TaskInit

LifeCycleStep ==
  \/ \E c, t \in Task :
       \/ act_tsk(c, t) \/ can_act(c, t) \/ del_tsk(c, t)
       \/ \E p \in NewPri : cre_tsk(c, t, p)
  \/ \E t \in Task : act_tsk_int(t)
  \/ \E c \in Task : ext_tsk(c) \/ ext_tsk_end(c) \/ exd_tsk(c)

(* In slp_tsk() a task is in no queue; in tslp_tsk() it is in one.         *)
InSlp(t) == tskstat[t] = "WAI" /\ ~InReady(t) /\ ~InTimeout(t)

Next ==
  \/ SchedStep /\ UNCHANGED taskVars
  \/ LifeCycleStep
  \/ \E c, t \in Task : \E p \in NewPri : chg_pri(c, t, p)
  \/ \E c \in Sleepers : \E tmout \in 1..MaxTmo : tslp_tsk(c, tmout)
  \/ \E c \in Releasable : slp_tsk(c)
  \/ \E c \in Task, t \in Releasable : InSlp(t) /\ rel_wai(c, t)

Spec == Init /\ [][Next]_vars

Fairness ==
  /\ SF_vars(evt_tmr_isr /\ UNCHANGED taskVars)
  /\ WF_vars((tq_wakeup \/ evt_timer_exit) /\ UNCHANGED taskVars)
  /\ SF_vars(schedule_from_int /\ UNCHANGED taskVars)
  /\ SF_vars(CallScheduler /\ UNCHANGED taskVars)

FairSpec == Spec /\ Fairness

TypeOK == SchedTypeOK /\ TaskTypeOK

----------------------------------------------------------------------------
(* A ready or running task is in the ready queue of its priority, a        *)
(* dormant one in no queue, and a task in tslp_tsk() is in the timeout     *)
(* queue or, once woken, in the ready queue, never in both; nor in neither,*)
(* unless it is in slp_tsk().  (tq_wakeup() leaves a woken task in state   *)
(* TTS_WAI.)  rel_wai() is called on tasks in slp_tsk() only: on one in    *)
(* tslp_tsk() it would leave the timeout queue as it is.                   *)
TaskOnePlace ==
  \A t \in Task :
    /\ ~(InReady(t) /\ InTimeout(t))
    /\ tskstat[t] \in {"RUN", "RDY"} => InReady(t)
    /\ tskstat[t] = "DMT" => ~InReady(t) /\ ~InTimeout(t)
    /\ tskstat[t] = "WAI" /\ t \notin Releasable => InReady(t) \/ InTimeout(t)

(* Whenever no call of scheduler() is due the running task is the first of *)
(* the highest priority, whatever was activated, released or re-prioritised*)
(* by tasks, by handlers or by the timer in between.                       *)
TopRuns ==
  cpu = "task" /\ dispatching /\ ~ivg15 /\ current \notin resched => current = Top

(* A task that sleeps with a timeout leaves the timeout queue.             *)
TimeoutsFire == \A t \in Task : InTimeout(t) ~> ~InTimeout(t)

(* ext_tsk_sys(), "Call the scheduler (never returns)": the task does not  *)
(* come back to the code that follows its call of ext_tsk().               *)
ExtNeverReturns ==
  [][\A t \in Task : pc[t] = "ext_tsk" => pc'[t] = "ext_tsk"
                     \/ (t \notin taskbmap /\ t \in taskbmap')]_vars
=============================================================================
