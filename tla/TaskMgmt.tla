------------------------------ MODULE TaskMgmt ------------------------------
(***************************************************************************)
(* The task services of core/kernel/port/task.c.                           *)
(*                                                                         *)
(* c is the calling task, t the task named by the call.  A call that fails *)
(* its checks changes nothing and is a stuttering step; so are get_pri,    *)
(* ref_tsk, ref_tst, wup_tsk (which is empty) and can_wup (wupcnt is never *)
(* anything but 0).                                                        *)
(***************************************************************************)
EXTENDS Sched

CONSTANT MaxAct    \* bound on the queued activation requests

ASSUME TaskAssumption == MaxAct \in Nat

VARIABLES
  taskbmap,    \* the threads that exist
  actcnt       \* field of task_t

taskVars == <<taskbmap, actcnt>>

TaskTypeOK ==
  /\ taskbmap \subseteq Thread
  /\ actcnt \in [Thread -> 0..MaxAct]

TaskInit ==
  /\ taskbmap = Thread
  /\ actcnt = [t \in Thread |-> 0]

(* memset() of the task_t, then the fields of a dormant task.              *)
cre_tsk(c, t, pri) ==
  /\ Running(c, "user")
  /\ t \notin taskbmap
  /\ taskbmap' = taskbmap \cup {t}
  /\ actcnt' = [actcnt EXCEPT ![t] = 0]
  /\ tskstat' = [tskstat EXCEPT ![t] = "DMT"]
  /\ tskpri' = [tskpri EXCEPT ![t] = pri]
  /\ wobjid' = [wobjid EXCEPT ![t] = "NONE"]
  /\ wuptim' = [wuptim EXCEPT ![t] = 0]
  /\ ready' = [ready EXCEPT !.next[t] = NULL, !.prev[t] = NULL]
  /\ waitq' = [waitq EXCEPT !.next[t] = NULL, !.prev[t] = NULL]
  /\ tmq' = [tmq EXCEPT !.next[t] = NULL, !.prev[t] = NULL]
  /\ pc' = [pc EXCEPT ![t] = "user"]    \* init_stack()
  /\ resched' = resched \ {t}
  /\ UNCHANGED <<priobmap, cpuVars>>

(* The critical section of act_tsk().                                      *)
Activate(t) ==
  /\ t \in taskbmap
  /\ \/ /\ tskstat[t] = "DMT"
        /\ rq_insert(t)
        /\ tskstat' = [tskstat EXCEPT ![t] = "RDY"]
        /\ UNCHANGED actcnt
     \/ /\ tskstat[t] # "DMT"
        /\ actcnt[t] < MaxAct
        /\ actcnt' = [actcnt EXCEPT ![t] = @ + 1]
        /\ UNCHANGED <<readyVars, tskstat>>
  /\ UNCHANGED <<tmq, waitq, tskpri, wobjid, wuptim, taskbmap>>

(* Wrong variant: the scheduler is not called.                             *)
act_tsk_nosched(c, t) ==
  /\ Running(c, "user")
  /\ Activate(t)
  /\ UNCHANGED <<cpuVars, pc, resched>>

act_tsk(c, t) ==
  /\ Running(c, "user")
  /\ Activate(t)
  /\ ThenSchedule(c, "user")

act_tsk_int(t) ==
  /\ cpu = "task"
  /\ Activate(t)
  /\ HandlerExit(TRUE)
  /\ UNCHANGED <<current, dispatching, cpu, pc, resched>>

can_act(c, t) ==
  /\ Running(c, "user")
  /\ t \in taskbmap
  /\ actcnt' = [actcnt EXCEPT ![t] = 0]
  /\ UNCHANGED <<schedVars, taskbmap>>

(* The priority changes only if the task is ready and not running.         *)
chg_pri(c, t, pri) ==
  /\ Running(c, "user")
  /\ t \in taskbmap
  /\ IF tskstat[t] = "RDY" THEN rq_relocate(t, pri)
     ELSE UNCHANGED <<readyVars, tskpri>>
  /\ ThenSchedule(c, "user")
  /\ UNCHANGED <<tmq, waitq, tskstat, wobjid, wuptim, taskVars>>

del_tsk(c, t) ==
  /\ Running(c, "user")
  /\ t \in taskbmap /\ tskstat[t] = "DMT"
  /\ taskbmap' = taskbmap \ {t}
  /\ UNCHANGED <<schedVars, actcnt>>

(* Nothing starts the task afresh when it is activated again: scheduler()  *)
(* returns to it inside ext_tsk_sys(), and from there to its own code.     *)
ext_tsk(c) ==
  /\ Running(c, "user")
  /\ rq_remove(c)
  /\ tskstat' = [tskstat EXCEPT ![c] = "DMT"]
  /\ ThenSchedule(c, "ext_tsk")
  /\ UNCHANGED <<tmq, waitq, tskpri, wobjid, wuptim, taskVars>>

ext_tsk_end(c) ==
  /\ Running(c, "ext_tsk")
  /\ pc' = [pc EXCEPT ![c] = "user"]
  /\ UNCHANGED <<readyVars, tmq, waitq, tcbVars, cpuVars, resched, taskVars>>

exd_tsk(c) ==
  /\ Running(c, "user")
  /\ rq_remove(c)
  /\ tskstat' = [tskstat EXCEPT ![c] = "DMT"]
  /\ taskbmap' = taskbmap \ {c}
  /\ ThenSchedule(c, "exd_tsk")
  /\ UNCHANGED <<tmq, waitq, tskpri, wobjid, wuptim, actcnt>>

slp_tsk(c) ==
  /\ Running(c, "user")
  /\ tskstat' = [tskstat EXCEPT ![c] = "WAI"]
  /\ rq_remove(c)
  /\ ThenSchedule(c, "user")
  /\ UNCHANGED <<tmq, waitq, tskpri, wobjid, wuptim, taskVars>>

(* Wrong variant: the task stays in the ready queue.                       *)
tslp_tsk_ready(c, tmout) ==
  /\ Running(c, "user")
  /\ tmout >= 1
  /\ tq_insert(c, tmout)
  /\ tskstat' = [tskstat EXCEPT ![c] = "WAI"]
  /\ ThenSchedule(c, "user")
  /\ UNCHANGED <<readyVars, waitq, tskpri, wobjid, taskVars>>

tslp_tsk(c, tmout) ==
  /\ Running(c, "user")
  /\ tmout >= 1    \* TMO_FEVR, 0, is slp_tsk()
  /\ tq_insert(c, tmout)
  /\ tskstat' = [tskstat EXCEPT ![c] = "WAI"]
  /\ rq_remove(c)
  /\ ThenSchedule(c, "user")
  /\ UNCHANGED <<waitq, tskpri, wobjid, taskVars>>

(* The task is made ready, but leaves neither wait nor timeout queue.      *)
rel_wai(c, t) ==
  /\ Running(c, "user")
  /\ t \in taskbmap /\ tskstat[t] = "WAI"
  /\ rq_insert(t)
  /\ tskstat' = [tskstat EXCEPT ![t] = "RDY"]
  /\ ThenSchedule(c, "user")
  /\ UNCHANGED <<tmq, waitq, tskpri, wobjid, wuptim, taskVars>>
=============================================================================
