----------------------------- MODULE WaitObject -----------------------------
(***************************************************************************)
(* What mailbox.c, event.c and mempool.c have in common: a task blocks in  *)
(* the wait queue of an object, is handed a block through the extdat field *)
(* of its task_t, or is released because the object is deleted.            *)
(***************************************************************************)
EXTENDS Sched, BlockPool, FiniteSets

ASSUME WaitObjectAssumption ==
  WaitObj \cap {"NONE", "E_DLT", "E_TMOUT"} = {} /\ NULL \notin WaitObj

VARIABLES
  extdat,     \* field of task_t: NULL or an object and a block of its pool
  victim,     \* the object whose waiters are being released
  dltd        \* history: tasks released by a deletion, not yet returned

waitObjVars == <<extdat, victim, dltd>>

WaitObjTypeOK ==
  /\ extdat \in [Task -> {NULL} \cup (WaitObj \X Nat)]
  /\ victim \in WaitObj \cup {NULL}
  /\ dltd \subseteq Task

WaitObjInit ==
  /\ extdat = [t \in Task |-> NULL]
  /\ victim = NULL
  /\ dltd = {}

(* Wrong variant: the task is left in the ready queue.                     *)
Block_ready(t, o) ==
  /\ waitq' = queue_insert(waitq, o, t)
  /\ tskstat' = [tskstat EXCEPT ![t] = "WAI"]
  /\ UNCHANGED readyVars

(* The first half of a wait: the calling task t enters the queue of o.     *)
Block(t, o) ==
  /\ waitq' = queue_insert(waitq, o, t)
  /\ tskstat' = [tskstat EXCEPT ![t] = "WAI"]
  /\ rq_remove(t)

(* The first waiter of o is taken from the queue and made ready.           *)
WakeFirst(o) ==
  LET w == waitq.head[o] IN
    /\ waitq' = queue_extract(waitq, o)
    /\ tskstat' = [tskstat EXCEPT ![w] = "RDY"]
    /\ rq_insert(w)

----------------------------------------------------------------------------
(* Deletion: with interrupts masked the waiters are released one by one.   *)

BeginDelete(t, o, label) ==
  /\ Running(t, "user")
  /\ cpu' = "cli" /\ victim' = o
  /\ pc' = [pc EXCEPT ![t] = label]
  /\ UNCHANGED <<readyVars, tmq, waitq, tcbVars, current, dispatching,
                 need_resched, ivg15, resched, extdat, dltd>>

(* Wrong variant: the waiter is not marked.                                *)
ReleaseWaiter_unmarked(t, label) ==
  /\ cpu = "cli" /\ current = t /\ pc[t] = label
  /\ LET w == waitq.head[victim] IN
       /\ w # NULL
       /\ WakeFirst(victim)
       /\ dltd' = dltd \cup {w}
  /\ UNCHANGED <<tmq, tskpri, wobjid, wuptim, cpuVars, pc, resched, extdat, victim>>

ReleaseWaiter(t, label) ==
  /\ cpu = "cli" /\ current = t /\ pc[t] = label
  /\ LET w == waitq.head[victim] IN
       /\ w # NULL
       /\ WakeFirst(victim)
       /\ wobjid' = [wobjid EXCEPT ![w] = "E_DLT"]
       /\ dltd' = dltd \cup {w}
  /\ UNCHANGED <<tmq, tskpri, wuptim, cpuVars, pc, resched, extdat, victim>>

(* Wrong variant: the scheduler is not called.                             *)
EndDelete_nosched(t, label) ==
  /\ cpu = "cli" /\ current = t /\ pc[t] = label
  /\ queue_is_empty(waitq, victim)
  /\ waitq' = queue_extract(waitq, victim)
  /\ cpu' = "task" /\ victim' = NULL
  /\ pc' = [pc EXCEPT ![t] = "user"]
  /\ UNCHANGED <<readyVars, tmq, tcbVars, current, dispatching, need_resched,
                 ivg15, resched, extdat, dltd>>

(* The end of the critical section, and a call of scheduler().             *)
EndDelete(t, label) ==
  /\ cpu = "cli" /\ current = t /\ pc[t] = label
  /\ queue_is_empty(waitq, victim)
  /\ waitq' = queue_extract(waitq, victim)
  /\ cpu' = "task" /\ victim' = NULL
  /\ pc' = [pc EXCEPT ![t] = "user"]
  /\ resched' = resched \cup {t}
  /\ UNCHANGED <<readyVars, tmq, tcbVars, current, dispatching, need_resched,
                 ivg15, extdat, dltd>>

----------------------------------------------------------------------------
InWait(t) == waitq.prev[t] # NULL \/ \E o \in WaitObj : waitq.head[o] = t
=============================================================================
