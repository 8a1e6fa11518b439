----------------------------- MODULE ObjKernel -----------------------------
(***************************************************************************)
(* Mailboxes, eventflags and fixed-size memory pools used by the same      *)
(* tasks, handlers that send messages, and the timer.                      *)
(***************************************************************************)
EXTENDS TaskMgmt, Mailbox, EventFlag, MemPool

CONSTANT MaxObj    \* bound on the objects created in a behaviour

VARIABLE made      \* how many have been

objVars == <<waitObjVars, mbxVars, flgVars, mpfVars, made>>
vars == <<schedVars, taskVars, objVars>>

Init ==
  /\ SchedInit /\ TaskInit /\ WaitObjInit
  /\ MbxInit /\ FlgInit /\ MpfInit /\ made = 0

(* A creation is counted, and stops at the bound.                          *)
Counted(bmap) ==
  IF bmap' \ bmap = {} THEN UNCHANGED made ELSE made < MaxObj /\ made' = made + 1

Next ==
  \/ SchedStep /\ UNCHANGED <<taskVars, objVars>>
  \/ (\E t \in Task : act_tsk_int(t) \/ \E c \in Task : act_tsk(c, t)) /\ UNCHANGED objVars
  \/ /\ MbxStep \/ TryfetchStep
     /\ UNCHANGED <<taskVars, flgVars, mpfVars>> /\ Counted(mbxbmap)
  \/ FlgStep /\ UNCHANGED <<taskVars, mbxVars, mpfVars>> /\ Counted(flgbmap)
  \/ MpfStep /\ UNCHANGED <<taskVars, mbxVars, flgVars>> /\ Counted(mpfbmap)

Spec == Init /\ [][Next]_vars

TypeOK ==
  /\ SchedTypeOK /\ TaskTypeOK /\ WaitObjTypeOK
  /\ MbxTypeOK /\ FlgTypeOK /\ MpfTypeOK

----------------------------------------------------------------------------
(* Every task is in one queue: a node inserted while it is linked would    *)
(* corrupt two (queue_insert() in rq_insert(), wai_flg, get_mpf; released  *)
(* by set_flg, rel_mpf and the deletions, some without a new tskstat).     *)
OnePlace ==
  \A t \in Task :
    /\ ~(InReady(t) /\ InWait(t))
    /\ tskstat[t] \in {"RUN", "RDY"} => InReady(t)
    /\ tskstat[t] = "WAI" => InReady(t) \/ InWait(t)

(* The blocks in a chain of links that starts at k.                        *)
Chain(next, k) ==
  LET N == Cardinality(DOMAIN next)
      Reach[n \in 0..N] ==
        IF n = 0 THEN {k} \ {NULL}
        ELSE Reach[n - 1] \cup ({next[x] : x \in Reach[n - 1]} \ {NULL})
  IN Reach[N]

FreeBlocks(p) == Chain(p.next, p.free) \cup {k \in Blocks(p) : k >= p.freeidx}

FreeHeads == FreeBlocks(msg_pool)
QueuedHeads(m) == Chain(msgque.next, msgque.head[m])
HandedHead(t) == extdat[t][2]

(* A header is free, or in one message queue, or on its way to one task:   *)
(* mpalloc() in snd_mbx_sys() never returns a header in use, and mpfree()  *)
(* is called exactly once for each, by the receiver or the deletion.       *)
HeadersConserved ==
  LET used == [m \in mbxbmap |-> QueuedHeads(m)]
      onway == {HandedHead(t) : t \in handed}
  IN /\ MsgHead = FreeHeads \cup onway \cup UNION {used[m] : m \in mbxbmap}
     /\ FreeHeads \cap onway = {} /\ Cardinality(onway) = Cardinality(handed)
     /\ \A m \in mbxbmap :
          /\ used[m] \cap (FreeHeads \cup onway) = {}
          /\ \A n \in mbxbmap \ {m} : used[m] \cap used[n] = {}

(* A mailbox with a queued message has no waiting task: nothing would wake *)
(* it, since the next snd_mbx_sys() gives away the message it brings.      *)
NoWaiterWhileMessage ==
  \A m \in mbxbmap : ~queue_is_empty(msgque, m) => queue_is_empty(waitq, m)

(* "A message has been received": a task comes back from its wait in       *)
(* rcv_mbx_sys() with a message given to it in this wait, or with E_DLT    *)
(* and none.  Otherwise it would use, and release, an old extdat.          *)
ReceivedIsHanded ==
  \A t \in Task : Running(t, "rcv_mbx") =>
    /\ wobjid[t] = "E_DLT" <=> t \in dltd
    /\ t \in handed <=> t \notin dltd

(* "the invoking task could get blocked" (sys_arch.c): not in tryfetch,    *)
(* which empties the mailbox before any other task or handler can.         *)
TryfetchNeverWaits == \A t \in Task : mbx[t] # NULL => ~InWait(t) /\ tskstat[t] # "WAI"

(* The lists, the shared pool and extdat together keep what a mailbox      *)
(* promises: messages come out in order, unchanged, each to one receiver.  *)
Messages(m) ==
  LET Walk[n \in 0..NMsg] ==
        IF n = 0 THEN << >>
        ELSE LET s == Walk[n - 1]
                 k == IF s = << >> THEN msgque.head[m] ELSE msgque.next[s[Len(s)]]
             IN IF Len(s) < n - 1 \/ k = NULL THEN s ELSE Append(s, k)
  IN [n \in 1..Len(Walk[NMsg]) |-> msgdat[Walk[NMsg][n]]]

Abs == INSTANCE MailboxAbs WITH
  None <- NULL,
  box <- [m \in Mbx |-> Messages(m)],
  inbox <- [t \in Task |-> IF t \in handed THEN msgdat[HandedHead(t)] ELSE NULL]

ImplementsMailbox == Abs!Spec

----------------------------------------------------------------------------
FlgWaiters(f) == Chain(waitq.next, waitq.head[f])

(* Task t waits at f although what it asked wai_flg() for is there.        *)
WaitsInVain(t, f) == Satisfied(wflgptn[t], wfmode[t], flgptn[f])

(* A flag without TA_WMUL has one waiter at most, whoever interleaves.  No *)
(* AND wait whose pattern is set goes on at a flag with TA_CLR, where the  *)
(* first release clears the pattern, or without TA_WMUL, where there is no *)
(* second waiter.  Nothing is said of OR waits, nor of TA_WMUL without     *)
(* TA_CLR, where set_flg_sys() ends its search with the first release.     *)
AndWaitsReleased ==
  \A f \in flgbmap :
    /\ "TA_WMUL" \notin flgatr[f] => waitq.head[f] = waitq.tail[f]
    /\ ~("TA_WMUL" \in flgatr[f] /\ "TA_CLR" \notin flgatr[f]) =>
         \A t \in FlgWaiters(f) : wfmode[t] = "TWF_ANDW" => ~WaitsInVain(t, f)

(* set_flg_sys(), "Look for tasks satisfying its release condition": no    *)
(* task waits at a flag that has what the task asked for, in the mode in   *)
(* which it asked.                                                         *)
NoWaiterWhileSet == \A f \in flgbmap : \A t \in FlgWaiters(f) : ~WaitsInVain(t, f)

GivenTasks(p) == {t \in given : extdat[t][1] = p}

(* A block of a pool is free, or owned by a caller, or on its way to one   *)
(* task that waited: get_mpf_sys() never gives the same block to two.      *)
BlocksOwnedOnce ==
  \A p \in mpfbmap :
    LET own == {k \in Blocks(mpf[p]) : <<p, k>> \in held}
        way == {extdat[t][2] : t \in GivenTasks(p)}
    IN /\ Cardinality(way) = Cardinality(GivenTasks(p))
       /\ own \cap way = {} /\ FreeBlocks(mpf[p]) \cap (own \cup way) = {}

(* No task waits for a block while one is free.                            *)
NoWaiterWhileFree ==
  \A p \in mpfbmap : AllocBlock(mpf[p]) # NULL => queue_is_empty(waitq, p)

(* Outside the windows in which a call of scheduler() is due, the running  *)
(* task is the first of the highest priority, unless a handler woke a task *)
(* during a tryfetch: ena_dsp_sys() does not call scheduler(), but         *)
(* need_resched is still set and the next interrupt exit makes up for it.  *)
InversionIsFlagged ==
  cpu = "task" /\ dispatching /\ ~ivg15 /\ current \notin resched
    => current = Top \/ need_resched

=============================================================================
