------------------------------ MODULE Mailbox ------------------------------
(***************************************************************************)
(* The mailboxes of core/kernel/port/mailbox.c, and the non-blocking fetch *)
(* that lwIP's sys_arch.c builds on them.                                  *)
(*                                                                         *)
(* A message travels in a header taken from msg_pool, which all mailboxes  *)
(* share.  The model assumes that the pool's memory is zero at first       *)
(* (queue_insert() does not initialise the next link) and that senders do  *)
(* not exhaust it (the result of mpalloc() is not tested).                 *)
(***************************************************************************)
EXTENDS WaitObject

CONSTANTS Mbx, Msg, NMsg   \* mailbox IDs, messages, headers in msg_pool

ASSUME MbxAssumption == Mbx \subseteq WaitObj /\ NMsg \in Nat /\ NULL \notin Msg

VARIABLES
  mbxbmap,    \* the mailboxes that exist
  msgque,     \* the message queues and the links of the headers
  msgdat,     \* field of struct mbox_msg_head
  msg_pool,
  mbx,        \* local of tryfetch and trcv_mbx: the mailbox named by the call
  handed      \* history: tasks given a message while they waited

mbxVars == <<mbxbmap, msgque, msgdat, msg_pool, mbx, handed>>

MsgHead == 1..NMsg

MbxTypeOK ==
  /\ mbxbmap \subseteq Mbx
  /\ msgque \in Bank(Mbx, MsgHead)
  /\ msgdat \in [MsgHead -> Msg \cup {NULL}]
  /\ msg_pool \in PoolType(NMsg)
  /\ mbx \in [Task -> Mbx \cup {NULL}]
  /\ handed \subseteq Task

MbxInit ==
  /\ mbxbmap = {}
  /\ msgque = EmptyBank(Mbx, MsgHead)
  /\ msgdat = [k \in MsgHead |-> NULL]
  /\ msg_pool = init_pool(NMsg)
  /\ mbx = [t \in Task |-> NULL]
  /\ handed = {}

cre_mbx(t, m) ==
  /\ Running(t, "user")
  /\ m \notin mbxbmap
  /\ mbxbmap' = mbxbmap \cup {m}
  /\ waitq' = [waitq EXCEPT !.head[m] = NULL, !.tail[m] = NULL]
  /\ msgque' = [msgque EXCEPT !.head[m] = NULL, !.tail[m] = NULL]
  /\ UNCHANGED <<readyVars, tmq, tcbVars, cpuVars, pc, resched, waitObjVars,
                 msgdat, msg_pool, mbx, handed>>

del_mbx(t, m) ==
  /\ m \in mbxbmap
  /\ BeginDelete(t, m, "del_mbx")
  /\ UNCHANGED mbxVars

del_mbx_release(t) == ReleaseWaiter(t, "del_mbx") /\ UNCHANGED mbxVars

(* Then the messages are thrown away, and their headers released.          *)
del_mbx_message(t) ==
  /\ cpu = "cli" /\ current = t /\ pc[t] = "del_mbx"
  /\ queue_is_empty(waitq, victim)
  /\ ~queue_is_empty(msgque, victim)
  /\ msgque' = queue_extract(msgque, victim)
  /\ msg_pool' = mpfree(msg_pool, msgque.head[victim])
  /\ UNCHANGED <<schedVars, waitObjVars, mbxbmap, msgdat, mbx, handed>>

del_mbx_end(t) ==
  /\ EndDelete(t, "del_mbx")
  /\ queue_is_empty(msgque, victim)
  /\ msgque' = queue_extract(msgque, victim)
  /\ mbxbmap' = mbxbmap \ {victim}
  /\ UNCHANGED <<msgdat, msg_pool, mbx, handed>>

----------------------------------------------------------------------------
(* Wrong variant: waiting tasks are overlooked.                            *)
SendMbx_queue(m, d) ==
  LET k == AllocBlock(msg_pool) IN
    /\ m \in mbxbmap /\ k # NULL
    /\ msg_pool' = mpalloc(msg_pool)
    /\ msgdat' = [msgdat EXCEPT ![k] = d]
    /\ msgque' = queue_insert(msgque, m, k)
    /\ UNCHANGED <<readyVars, waitq, tskstat, extdat, handed>>
    /\ UNCHANGED <<tmq, tskpri, wobjid, wuptim, victim, dltd, mbxbmap, mbx>>

(* The critical section of snd_mbx_sys(): the message goes to the first    *)
(* waiting task, or into the queue.                                        *)
SendMbx(m, d) ==
  LET k == AllocBlock(msg_pool)
      w == waitq.head[m]
  IN /\ m \in mbxbmap /\ k # NULL
     /\ msg_pool' = mpalloc(msg_pool)
     /\ msgdat' = [msgdat EXCEPT ![k] = d]
     /\ \/ /\ w # NULL
           /\ WakeFirst(m)
           /\ extdat' = [extdat EXCEPT ![w] = <<m, k>>]
           /\ handed' = handed \cup {w}
           /\ UNCHANGED msgque
        \/ /\ w = NULL
           /\ msgque' = queue_insert(msgque, m, k)
           /\ UNCHANGED <<readyVars, waitq, tskstat, extdat, handed>>
     /\ UNCHANGED <<tmq, tskpri, wobjid, wuptim, victim, dltd, mbxbmap, mbx>>

snd_mbx(t, m, d) ==
  /\ Running(t, "user")
  /\ SendMbx(m, d)
  /\ ThenSchedule(t, "user")

(* A handler sends: the Ethernet driver posts received frames.             *)
snd_mbx_int(m, d) ==
  /\ cpu = "task"
  /\ SendMbx(m, d)
  /\ HandlerExit(TRUE)
  /\ UNCHANGED <<current, dispatching, cpu, pc, resched>>

----------------------------------------------------------------------------
(* Wrong variant: the header is not released.                              *)
TakeMessage_leak(m) ==
  /\ ~queue_is_empty(msgque, m)
  /\ msgque' = queue_extract(msgque, m)
  /\ UNCHANGED <<mbxbmap, msgdat, msg_pool, handed>>

TakeMessage(m) ==
  /\ ~queue_is_empty(msgque, m)
  /\ msgque' = queue_extract(msgque, m)
  /\ msg_pool' = mpfree(msg_pool, msgque.head[m])
  /\ UNCHANGED <<mbxbmap, msgdat, handed>>

WaitMessage(t, m) ==
  /\ queue_is_empty(msgque, m)
  /\ Block(t, m)
  /\ wobjid' = [wobjid EXCEPT ![t] = m]
  /\ UNCHANGED <<tskpri, waitObjVars, mbxbmap, msgque, msgdat, msg_pool, handed>>

(* rcv_mbx_sys() and trcv_mbx_sys() when a message is queued.              *)
rcv_mbx_ok(t, m) ==
  /\ Running(t, "user")
  /\ m \in mbxbmap
  /\ TakeMessage(m)
  /\ UNCHANGED <<schedVars, waitObjVars, mbx>>

rcv_mbx(t, m) ==
  /\ Running(t, "user")
  /\ m \in mbxbmap
  /\ WaitMessage(t, m)
  /\ ThenSchedule(t, "rcv_mbx")
  /\ UNCHANGED <<tmq, wuptim, mbx>>

(* The end of the wait: a deletion, or a message passed in extdat.         *)
EndReceive(t) ==
  /\ dltd' = dltd \ {t}
  /\ handed' = handed \ {t}
  /\ UNCHANGED <<readyVars, tskstat, tskpri, wuptim, cpuVars, resched, extdat,
                 victim, mbxbmap, msgque, msgdat>>

rcv_mbx_end(t) ==
  /\ Running(t, "rcv_mbx")
  /\ EndReceive(t)
  /\ pc' = [pc EXCEPT ![t] = IF mbx[t] = NULL THEN "user" ELSE "tryfetch_ena"]
  /\ IF wobjid[t] = "E_DLT"
     THEN wobjid' = [wobjid EXCEPT ![t] = "NONE"] /\ UNCHANGED msg_pool
     ELSE msg_pool' = mpfree(msg_pool, extdat[t][2]) /\ UNCHANGED wobjid
  /\ UNCHANGED <<tmq, waitq, mbx>>

trcv_mbx(t, m, tmout) ==
  /\ Running(t, "user")
  /\ tmout # 0    \* TMO_FEVR is rcv_mbx()
  /\ m \in mbxbmap
  /\ WaitMessage(t, m)
  /\ tq_insert(t, tmout)
  /\ mbx' = [mbx EXCEPT ![t] = m]
  /\ ThenSchedule(t, "trcv_mbx")

(* Only a wait that ended with a message leaves the timeout queue; one     *)
(* that timed out leaves the wait queue, whether it is there or not.       *)
trcv_mbx_end(t) ==
  /\ Running(t, "trcv_mbx")
  /\ EndReceive(t)
  /\ pc' = [pc EXCEPT ![t] = "user"]
  /\ mbx' = [mbx EXCEPT ![t] = NULL]
  /\ IF wobjid[t] \in {"E_DLT", "E_TMOUT"}
     THEN /\ wobjid' = [wobjid EXCEPT ![t] = "NONE"]
          /\ waitq' = IF wobjid[t] = "E_TMOUT" THEN queue_remove(waitq, mbx[t], t)
                      ELSE waitq
          /\ UNCHANGED <<tmq, msg_pool>>
     ELSE /\ msg_pool' = mpfree(msg_pool, extdat[t][2])
          /\ tq_remove(t)
          /\ UNCHANGED <<waitq, wobjid>>

----------------------------------------------------------------------------
(* sys_arch_mbox_tryfetch(): the mailbox is looked at and emptied with     *)
(* dispatching disabled.                                                   *)

(* Wrong variant: dispatching stays enabled.                               *)
tryfetch_preemptible(t, m) ==
  /\ Running(t, "user")
  /\ mbx' = [mbx EXCEPT ![t] = m]
  /\ pc' = [pc EXCEPT ![t] = "tryfetch"]
  /\ UNCHANGED <<readyVars, tmq, waitq, tcbVars, cpuVars, resched, waitObjVars,
                 mbxbmap, msgque, msgdat, msg_pool, handed>>

tryfetch(t, m) ==
  /\ Running(t, "user")
  /\ dis_dsp_sys
  /\ mbx' = [mbx EXCEPT ![t] = m]
  /\ pc' = [pc EXCEPT ![t] = "tryfetch"]
  /\ UNCHANGED <<readyVars, tmq, waitq, tcbVars, current, need_resched, ivg15,
                 cpu, resched, waitObjVars, mbxbmap, msgque, msgdat, msg_pool,
                 handed>>

(* ref_mbx_sys() looks for a message at the head of the queue.             *)
ref_mbx(t) ==
  /\ Running(t, "tryfetch")
  /\ LET m == mbx[t] IN
       pc' = [pc EXCEPT ![t] = IF m \in mbxbmap /\ ~queue_is_empty(msgque, m)
                               THEN "tryfetch_rcv" ELSE "tryfetch_ena"]
  /\ UNCHANGED <<readyVars, tmq, waitq, tcbVars, cpuVars, resched, waitObjVars,
                 mbxVars>>

(* rcv_mbx_sys() as it is called here, whatever it meets.                  *)
tryfetch_rcv(t) ==
  /\ Running(t, "tryfetch_rcv")
  /\ LET m == mbx[t] IN
       IF m \in mbxbmap /\ queue_is_empty(msgque, m)
       THEN /\ WaitMessage(t, m)
            /\ ThenSchedule(t, "rcv_mbx")
       ELSE /\ IF m \in mbxbmap THEN TakeMessage(m)
               ELSE UNCHANGED <<mbxbmap, msgque, msgdat, msg_pool, handed>>
            /\ pc' = [pc EXCEPT ![t] = "tryfetch_ena"]
            /\ UNCHANGED <<readyVars, waitq, tskstat, tskpri, wobjid, cpuVars,
                           resched, waitObjVars>>
  /\ UNCHANGED <<tmq, wuptim, mbx>>

tryfetch_end(t) ==
  /\ Running(t, "tryfetch_ena")
  /\ ena_dsp_sys
  /\ mbx' = [mbx EXCEPT ![t] = NULL]
  /\ pc' = [pc EXCEPT ![t] = "user"]
  /\ UNCHANGED <<readyVars, tmq, waitq, tcbVars, current, need_resched, ivg15,
                 cpu, resched, waitObjVars, mbxbmap, msgque, msgdat, msg_pool,
                 handed>>

----------------------------------------------------------------------------
MbxStep ==
  \/ \E t \in Task, m \in Mbx :
       \/ cre_mbx(t, m) \/ del_mbx(t, m) \/ rcv_mbx_ok(t, m) \/ rcv_mbx(t, m)
       \/ \E d \in Msg : snd_mbx(t, m, d)
  \/ \E t \in Task :
       del_mbx_release(t) \/ del_mbx_message(t) \/ del_mbx_end(t) \/ rcv_mbx_end(t)
  \/ \E m \in Mbx, d \in Msg : snd_mbx_int(m, d)

TryfetchStep ==
  \/ \E t \in Task, m \in Mbx : tryfetch(t, m)
  \/ \E t \in Task : ref_mbx(t) \/ tryfetch_rcv(t) \/ tryfetch_end(t)

TimedMbxStep(maxTmo) ==
  \/ \E t \in Task, m \in Mbx, tmout \in 1..maxTmo : trcv_mbx(t, m, tmout)
  \/ \E t \in Task : trcv_mbx_end(t)
=============================================================================
