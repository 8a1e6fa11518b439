----------------------------- MODULE TimedKernel -----------------------------
(***************************************************************************)
(* Semaphores and mailboxes with and without timeouts: every operation of  *)
(* semaphore.c and mailbox.c, deletions included, with the handlers that   *)
(* signal and send, and the timer.                                         *)
(***************************************************************************)
EXTENDS TaskMgmt, Semaphore, Mailbox

CONSTANTS
  MbxTmo,    \* bound on the timeouts of trcv_mbx()
  MaxObj     \* bound on the objects created in a behaviour

ASSUME TimedAssumption == MbxTmo \in 0..MaxTmo /\ MaxObj \in Nat

VARIABLE made    \* how many have been

objVars == <<semVars, waitObjVars, mbxVars, made>>
vars == <<schedVars, taskVars, objVars>>

Init == SchedInit /\ TaskInit /\ SemInit /\ WaitObjInit /\ MbxInit /\ made = 0

(* A creation is counted, and stops at the bound.                          *)
Counted(bmap) ==
  IF bmap' \ bmap = {} THEN UNCHANGED made ELSE made < MaxObj /\ made' = made + 1

Next ==
  \/ SchedStep /\ UNCHANGED <<taskVars, objVars>>
  \/ (\E c, t \in Task : act_tsk(c, t)) /\ UNCHANGED objVars
  \/ /\ SemStep \/ TimedSemStep
     /\ UNCHANGED <<taskVars, waitObjVars, mbxVars>> /\ Counted(sembmap)
  \/ /\ MbxStep \/ TimedMbxStep(MbxTmo)
     /\ UNCHANGED <<taskVars, semVars>> /\ Counted(mbxbmap)

Spec == Init /\ [][Next]_vars

(* The timer goes on ticking, its interrupt ends, and so does the loop of  *)
(* a deletion, which runs with interrupts masked.                          *)
Fairness ==
  /\ SF_vars(evt_tmr_isr /\ UNCHANGED <<taskVars, objVars>>)
  /\ WF_vars((tq_wakeup \/ evt_timer_exit) /\ UNCHANGED <<taskVars, objVars>>)
  /\ WF_vars(cpu = "cli" /\ Next)

FairSpec == Spec /\ Fairness

TypeOK == SchedTypeOK /\ TaskTypeOK /\ SemTypeOK /\ WaitObjTypeOK /\ MbxTypeOK

----------------------------------------------------------------------------
(* Whatever timeouts, signals and deletions race, a semaphore with a       *)
(* positive count has no waiter.                                           *)
NoWaiterWhileAvailable ==
  \A s \in sembmap : semcnt[s] > 0 => queue_is_empty(waitq, s)

(* Whatever timeouts, messages and deletions race, a mailbox with a queued *)
(* message has no waiter: the receiver that timed out has left the wait    *)
(* queue, and snd_mbx() queues a message only where nobody waits.          *)
NoWaiterWhileMessage ==
  \A m \in mbxbmap : ~queue_is_empty(msgque, m) => queue_is_empty(waitq, m)


(* A timed wait that returns the semaphore, a message or E_TMOUT has left  *)
(* the timeout queue, in whatever order the signal, the message and the    *)
(* tick came.  Of a wait ended by a deletion this is not so: the E_DLT     *)
(* paths of twai_sem_sys() and trcv_mbx_sys() do without tq_remove().      *)
LeavesTimeoutQueue ==
  [][\A t \in Task :
       pc[t] \in {"twai_sem", "trcv_mbx"} /\ pc'[t] = "user" /\ wobjid[t] # "E_DLT"
         => ~InTimeout(t)']_vars

(* A wait with a timeout does not stay in the timeout queue for ever, also *)
(* when the object it waited for has been deleted.                         *)
TimeoutsFire == \A t \in Task : InTimeout(t) ~> ~InTimeout(t)

(* sig_sem(), "Check if there were tasks on the wait queue of the          *)
(* semaphore": the task that it takes from the queue, and gives the        *)
(* semaphore to, is still inside its wait.                                 *)
SignalWakesWaiter ==
  [][\A t \in granted' \ granted : pc[t] \in {"wai_sem", "twai_sem"}]_vars
=============================================================================
