--------------------------- MODULE SemTaskProofs ---------------------------
(***************************************************************************)
(* The inductive invariant of SemKernel, and that the tick, the scheduler  *)
(* and the task services keep it.                                          *)
(*                                                                         *)
(* No property is inductive alone: that a task is linked in one place      *)
(* only, that the bitmap is exact, that the running task may be taken out  *)
(* of the ready queue, and what the second half of wai_sem() will find     *)
(* depend on each other.  IInv joins them.                                 *)
(***************************************************************************)
EXTENDS SemKernel, QueueProofs, WellFoundedInduction

(* The tasks in the ready queue, by the fields of task_t: a task released  *)
(* by del_sem() stays in state TTS_WAI until it runs.                      *)
ReadySet == {t \in Task : \/ tskstat[t] \in {"RUN", "RDY"}
                          \/ tskstat[t] = "WAI" /\ wobjid[t] = "E_DLT"}

(* The tasks in the wait queue of the semaphore wobjid.                    *)
WaitSet == {t \in Task : tskstat[t] = "WAI" /\ wobjid[t] # "E_DLT"}

QueueInv ==
  /\ Links(ready, ReadySet, tskpri, Pri, Thread)
  /\ Links(waitq, WaitSet, wobjid, WaitObj, Task)
  /\ \A t \in WaitSet : wobjid[t] \in Sem
  /\ BitmapExact
  /\ tmq.head = NULL

CpuInv ==
  /\ dispatching
  /\ cpu = "cli" => deleting \in sembmap /\ ~ivg15 /\ current \notin resched
  /\ cpu # "cli" => deleting = NULL
  /\ current \in Task /\ current \notin resched => current \in ReadySet

SemInv ==
  /\ NoWaiterWhileAvailable
  /\ \A s \in Sem \ sembmap : waitq.head[s] = NULL

(* What wai_sem() finds when scheduler() returns to it.                    *)
GrantInv ==
  \A t \in Task :
    /\ t \in granted => /\ pc[t] = "wai_sem" /\ t \in ReadySet
                        /\ wobjid[t] # "E_DLT"
    /\ t \in WaitSet => pc[t] = "wai_sem"
    /\ pc[t] = "wai_sem" /\ wobjid[t] # "E_DLT" => t \in granted \cup WaitSet

(* InversionOnlyAfterDelete, also inside del_sem().                        *)
DispatchInv ==
  cpu # "tick" /\ ~ivg15 /\ current \notin resched
    => \/ current = Top
       \/ tskstat[Top] = "WAI" /\ wobjid[Top] = "E_DLT"

IInv ==
  TypeOK /\ QueueInv /\ CpuInv /\ SemInv /\ GrantInv /\ DispatchInv

----------------------------------------------------------------------------
(* The smallest priority of a set exists: rq_get_head() reads it from the  *)
(* bitmap with one instruction.                                            *)
LEMMA MinPriority ==
  ASSUME NEW S \in SUBSET Pri, S # {}
  PROVE  Min(S) \in S /\ \A p \in S : Min(S) <= p
<1>1. S \subseteq Nat
  BY SchedAssumption DEF Pri
<1> DEFINE less == {ss \in Nat \X Nat : ss[1] < ss[2]}
<1>2. IsWellFoundedOn(less, Nat)
  BY NatLessThanWellFounded, Zenon DEF OpToRel
<1>3. PICK x \in S : \A y \in S : ~(<<y, x>> \in less)
  <2> HIDE DEF less
  <2> QED
    BY Zenon, <1>1, <1>2, WFMin
<1>4. \A y \in S : x <= y
  <2> TAKE y \in S
  <2>1. <<y, x>> \in Nat \X Nat /\ <<y, x>>[1] = y /\ <<y, x>>[2] = x
    BY <1>1
  <2>2. ~(<<y, x>>[1] < <<y, x>>[2])
    BY <2>1, <1>3, Zenon
  <2> QED
    BY <1>1, <2>1, <2>2
<1> QED
  BY <1>4 DEF Min

(* rq_get_head() answers NULL or a task of the ready queue.                *)
LEMMA TopReady ==
  ASSUME TypeOK, QueueInv
  PROVE  /\ rq_get_head = NULL \/ rq_get_head \in ReadySet
         /\ Top \in ReadySet \cup {Idle}
<1>1. ASSUME priobmap # {}
      PROVE  ready.head[Min(priobmap)] \in ReadySet
  <2>1. Min(priobmap) \in priobmap
    BY <1>1, MinPriority DEF TypeOK, SchedTypeOK
  <2> QED
    BY <2>1 DEF TypeOK, SchedTypeOK, QueueInv, Links, BitmapExact
<1>2. rq_get_head = NULL \/ rq_get_head \in ReadySet
  BY <1>1 DEF rq_get_head
<1> QED
  BY <1>2 DEF Top

(* rq_insert() of a task that is in no ready queue.                        *)
LEMMA RqInsert ==
  ASSUME TypeOK, QueueInv, NEW t \in Task, t \notin ReadySet, rq_insert(t)
  PROVE  /\ ready' \in Bank(Pri, Thread) /\ priobmap' \subseteq Pri
         /\ Links(ready', ReadySet \cup {t}, tskpri, Pri, Thread)
         /\ BitmapExact'
<1>1. /\ t \in Thread /\ tskpri[t] \in Pri /\ NULL \notin Thread
      /\ ready \in Bank(Pri, Thread) /\ ReadySet \subseteq Thread
      /\ priobmap \subseteq Pri
      /\ Links(ready, ReadySet, tskpri, Pri, Thread)
  BY SchedAssumption DEF TypeOK, SchedTypeOK, Thread, ReadySet, QueueInv
<1>2. ready' \in Bank(Pri, Thread)
  BY <1>1, BankType DEF rq_insert
<1>3. Links(ready', ReadySet \cup {t}, tskpri, Pri, Thread)
  BY <1>1, InsertLinks DEF rq_insert
<1>4. BitmapExact'
  BY <1>1 DEF rq_insert, queue_insert, Bank, BitmapExact, QueueInv
<1> QED
  BY <1>1, <1>2, <1>3, <1>4 DEF rq_insert

(* rq_remove() of a task of the ready queue.                               *)
LEMMA RqRemove ==
  ASSUME TypeOK, QueueInv, NEW t \in ReadySet, rq_remove(t)
  PROVE  /\ ready' \in Bank(Pri, Thread) /\ priobmap' \subseteq Pri
         /\ Links(ready', ReadySet \ {t}, tskpri, Pri, Thread)
         /\ BitmapExact'
<1>1. /\ t \in Thread /\ tskpri[t] \in Pri /\ NULL \notin Thread
      /\ ready \in Bank(Pri, Thread) /\ ReadySet \subseteq Thread
      /\ priobmap \subseteq Pri
      /\ Links(ready, ReadySet, tskpri, Pri, Thread)
  BY SchedAssumption DEF TypeOK, SchedTypeOK, Thread, ReadySet, QueueInv
<1>2. ready' \in Bank(Pri, Thread)
  BY <1>1, BankType DEF rq_remove
<1>3. Links(ready', ReadySet \ {t}, tskpri, Pri, Thread)
  BY <1>1, RemoveLinks DEF rq_remove
<1>4. BitmapExact'
  BY <1>1 DEF rq_remove, queue_remove, Bank, BitmapExact, QueueInv
<1> QED
  BY <1>1, <1>2, <1>3, <1>4 DEF rq_remove

----------------------------------------------------------------------------
LEMMA InitIInv == Init => IInv
<1> SUFFICES ASSUME Init PROVE IInv
  OBVIOUS
<1> USE DEF Init, SchedInit, TaskInit, SemInit
<1>1. /\ Main \in Task /\ Main # Idle /\ Main \in Thread /\ Idle \in Thread
      /\ NULL \notin Thread /\ BasePri \in [Thread -> Pri]
  BY SchedAssumption DEF Thread, Pri
<1>2. TypeOK
  <2>1. SchedTypeOK
    <3>1. ready \in Bank(Pri, Thread)
      BY <1>1 DEF Bank
    <3>2. waitq \in Bank(WaitObj, Task)
      BY DEF Bank, EmptyBank
    <3>3. tmq \in [head : Task \cup {NULL}, next : [Task -> Task \cup {NULL}],
                  prev : [Task -> Task \cup {NULL}]]
      OBVIOUS
    <3>4. tskstat \in [Thread -> Stat]
      BY DEF Stat
    <3>5. /\ tskpri \in [Thread -> Pri] /\ wobjid \in [Thread -> WObj]
          /\ wuptim \in [Thread -> 0..MaxTmo] /\ priobmap \subseteq Pri
          /\ pc \in [Thread -> Labels]
      BY <1>1, SchedAssumption DEF WObj, Labels
    <3> QED
      BY Zenon, <1>1, <3>1, <3>2, <3>3, <3>4, <3>5 DEF SchedTypeOK
  <2>2. TaskTypeOK /\ SemTypeOK
    BY <1>1, SemAssumption, TaskAssumption DEF TaskTypeOK, SemTypeOK
  <2> QED
    BY <2>1, <2>2 DEF TypeOK
<1>3. ReadySet = {Main} /\ WaitSet = {}
  BY <1>1 DEF ReadySet, WaitSet, Thread
<1>4. QueueInv
  <2>1. Links(ready, {Main}, tskpri, Pri, Thread)
    BY Zenon, <1>1 DEF Links
  <2>2. Links(waitq, {}, wobjid, WaitObj, Task)
    BY DEF Links, EmptyBank
  <2>3. BitmapExact
    BY <1>1 DEF BitmapExact
  <2> QED
    BY <1>3, <2>1, <2>2, <2>3 DEF QueueInv
<1>5. CpuInv
  BY <1>1, <1>3 DEF CpuInv
<1>6. SemInv
  BY SemAssumption DEF SemInv, NoWaiterWhileAvailable, EmptyBank
<1>7. GrantInv
  BY <1>1, <1>3 DEF GrantInv, Thread
<1>8. DispatchInv
  <2>1. Min({BasePri[Main]}) = BasePri[Main]
    BY <1>1, MinPriority
  <2> QED
    BY <1>1, <2>1 DEF DispatchInv, Top, rq_get_head
<1> QED
  BY <1>2, <1>4, <1>5, <1>6, <1>7, <1>8 DEF IInv

----------------------------------------------------------------------------
(* A step that changes no queue, state, priority or wobjid of a task.      *)
LEMMA QueueFrame ==
  ASSUME QueueInv, UNCHANGED <<ready, priobmap, tmq, waitq, tskstat, tskpri, wobjid>>
  PROVE  /\ QueueInv' /\ ReadySet' = ReadySet /\ WaitSet' = WaitSet
         /\ Top' = Top
BY DEF QueueInv, ReadySet, WaitSet, BitmapExact, Top, rq_get_head

LEMMA TickIInv ==
  ASSUME IInv, evt_tmr_isr, UNCHANGED <<taskVars, semVars>>
  PROVE  IInv'
<1> USE DEF evt_tmr_isr, readyVars, taskVars, semVars, IInv
<1>1. QueueInv' /\ ReadySet' = ReadySet /\ WaitSet' = WaitSet
  BY QueueFrame
<1>2. TypeOK'
  <2>1. SchedTypeOK'
    BY SchedAssumption DEF TypeOK, SchedTypeOK
  <2> QED
    BY <2>1 DEF TypeOK, TaskTypeOK, SemTypeOK
<1>3. CpuInv'
  BY <1>1 DEF CpuInv
<1>4. SemInv'
  BY DEF SemInv, NoWaiterWhileAvailable, queue_is_empty
<1>5. GrantInv'
  BY <1>1 DEF GrantInv
<1>6. DispatchInv'
  BY DEF DispatchInv
<1> QED
  BY <1>1, <1>2, <1>3, <1>4, <1>5, <1>6

LEMMA TickExitIInv ==
  ASSUME IInv, evt_timer_exit, UNCHANGED <<taskVars, semVars>>
  PROVE  IInv'
<1> USE DEF evt_timer_exit, readyVars, tcbVars, taskVars, semVars, IInv
<1>1. QueueInv' /\ ReadySet' = ReadySet /\ WaitSet' = WaitSet
  BY QueueFrame
<1>2. TypeOK'
  BY DEF TypeOK, SchedTypeOK, TaskTypeOK, SemTypeOK
<1>3. CpuInv'
  BY <1>1 DEF CpuInv
<1>4. SemInv'
  BY DEF SemInv, NoWaiterWhileAvailable, queue_is_empty
<1>5. GrantInv'
  BY <1>1 DEF GrantInv
<1>6. DispatchInv'
  BY DEF DispatchInv
<1> QED
  BY <1>1, <1>2, <1>3, <1>4, <1>5, <1>6

----------------------------------------------------------------------------
(* scheduler() runs the first task of the highest priority, and moves no   *)
(* task between the sets.                                                  *)
LEMMA SchedulerFacts ==
  ASSUME IInv, scheduler, UNCHANGED <<ready, priobmap, tskpri, wobjid>>
  PROVE  /\ current' = Top /\ Top' = Top
         /\ tskstat' \in [Thread -> Stat] /\ need_resched' \in BOOLEAN
         /\ ReadySet' = ReadySet /\ WaitSet' = WaitSet
<1> DEFINE preempted == IF tskstat[current] = "RUN" THEN "RDY" ELSE tskstat[current]
<1>1. Top \in ReadySet \cup {Idle}
  BY TopReady DEF IInv
<1>2. Top' = Top
  BY DEF Top, rq_get_head
<1>3. Idle \notin Task /\ current \in Thread /\ tskstat \in [Thread -> Stat]
  BY SchedAssumption DEF IInv, TypeOK, SchedTypeOK
<1>4. CASE Top = current
  <2>1. UNCHANGED <<current, tskstat, need_resched>>
    BY <1>4 DEF scheduler, Top
  <2> QED
    BY <1>2, <1>4, <2>1 DEF IInv, TypeOK, SchedTypeOK, ReadySet, WaitSet
<1>5. CASE Top # current
  <2>1. /\ current' = Top /\ need_resched' = FALSE
        /\ tskstat' = [tskstat EXCEPT ![current] = preempted, ![Top] = "RUN"]
    BY <1>5 DEF scheduler, Top, IInv, CpuInv
  <2>2. /\ Top \in Thread /\ tskstat' \in [Thread -> Stat]
        /\ tskstat'[Top] = "RUN" /\ tskstat'[current] = preempted
        /\ \A t \in Task \ {Top, current} : tskstat'[t] = tskstat[t]
    BY <1>1, <1>3, <1>5, <2>1 DEF Thread, Stat, ReadySet
  <2>3. ReadySet' = ReadySet
    BY <1>1, <1>3, <2>2 DEF ReadySet
  <2>4. WaitSet' = WaitSet
    BY <1>1, <1>3, <2>2 DEF ReadySet, WaitSet
  <2> QED
    BY Zenon, <1>2, <2>1, <2>2, <2>3, <2>4
<1> QED
  BY <1>4, <1>5

LEMMA SchedulerIInv ==
  ASSUME IInv, CallScheduler \/ schedule_from_int, UNCHANGED <<taskVars, semVars>>
  PROVE  IInv'
<1> USE DEF IInv, readyVars, taskVars, semVars, schedUnchanged
<1>1. /\ scheduler /\ cpu = "task" /\ ivg15' \in BOOLEAN
      /\ resched' \subseteq resched /\ resched \ {current} \subseteq resched'
      /\ UNCHANGED <<ready, priobmap, tmq, waitq, tskpri, wobjid, wuptim,
                     dispatching, cpu, pc>>
  BY Zenon DEF CallScheduler, schedule_from_int, TypeOK, SchedTypeOK
<1>2. /\ current' = Top /\ Top' = Top
      /\ tskstat' \in [Thread -> Stat] /\ need_resched' \in BOOLEAN
      /\ ReadySet' = ReadySet /\ WaitSet' = WaitSet
  BY <1>1, SchedulerFacts
<1>3. Top \in ReadySet \cup {Idle} /\ Idle \notin Task
  BY TopReady, SchedAssumption
<1>4. TypeOK'
  <2>1. current' \in Thread
    BY SMTT(30), <1>2, <1>3 DEF ReadySet, Thread
  <2> QED
    BY <1>1, <1>2, <2>1 DEF TypeOK, SchedTypeOK, TaskTypeOK, SemTypeOK
<1>5. QueueInv'
  BY <1>1, <1>2 DEF QueueInv, BitmapExact
<1>6. CpuInv'
  BY <1>1, <1>2, <1>3 DEF CpuInv
<1>7. SemInv'
  BY <1>1 DEF SemInv, NoWaiterWhileAvailable, queue_is_empty
<1>8. GrantInv'
  BY <1>1, <1>2 DEF GrantInv
<1>9. DispatchInv'
  BY <1>2 DEF DispatchInv
<1> QED
  BY <1>4, <1>5, <1>6, <1>7, <1>8, <1>9

----------------------------------------------------------------------------
(* Task services.  A caller that goes on to scheduler() leaves CpuInv and  *)
(* DispatchInv to that call.                                               *)
LEMMA ThenScheduleFacts ==
  ASSUME IInv, NEW c \in Task, NEW k \in Labels, NEW l \in Labels,
         Running(c, k), ThenSchedule(c, l), UNCHANGED semVars
  PROVE  /\ CpuInv' /\ DispatchInv' /\ resched' \subseteq Thread
         /\ pc' \in [Thread -> Labels] /\ pc'[c] = l
         /\ \A t \in Task \ {c} : pc'[t] = pc[t]
<1> USE DEF IInv, Running, ThenSchedule, TypeOK, SchedTypeOK
<1>1. c \in Thread
  BY DEF Thread
<1>2. CpuInv'
  BY DEF CpuInv, semVars
<1>3. DispatchInv'
  BY DEF DispatchInv
<1> QED
  BY <1>1, <1>2, <1>3 DEF Thread

LEMMA ActIInv ==
  ASSUME IInv, NEW c \in Task, NEW t \in Task, act_tsk(c, t), UNCHANGED semVars
  PROVE  IInv'
<1> USE DEF IInv
<1>1. /\ Running(c, "user") /\ Activate(t) /\ ThenSchedule(c, "user")
      /\ "user" \in Labels /\ t \in Thread /\ tskstat \in [Thread -> Stat]
      /\ UNCHANGED <<sembmap, semcnt, maxsem, deleting, granted>>
  BY DEF act_tsk, Labels, Thread, semVars, TypeOK, SchedTypeOK
<1>2. /\ CpuInv' /\ DispatchInv' /\ resched' \subseteq Thread
      /\ pc' \in [Thread -> Labels] /\ pc'[c] = "user"
      /\ \A u \in Task \ {c} : pc'[u] = pc[u]
  BY <1>1, ThenScheduleFacts
<1>3. \A u \in Task : pc'[u] = pc[u]
  BY <1>1, <1>2 DEF Running
<1>4. /\ QueueInv' /\ WaitSet' = WaitSet /\ ReadySet \subseteq ReadySet'
      /\ ready' \in Bank(Pri, Thread) /\ priobmap' \subseteq Pri
      /\ tskstat' \in [Thread -> Stat] /\ actcnt' \in [Thread -> 0..MaxAct]
  <2>1. CASE tskstat[t] = "DMT"
    <3>1. /\ rq_insert(t) /\ tskstat' = [tskstat EXCEPT ![t] = "RDY"]
          /\ UNCHANGED <<actcnt, tmq, waitq, tskpri, wobjid>>
      BY <1>1, <2>1 DEF Activate
    <3>2. /\ tskstat' \in [Thread -> Stat] /\ t \notin ReadySet
          /\ ReadySet' = ReadySet \cup {t} /\ WaitSet' = WaitSet
      BY <1>1, <2>1, <3>1 DEF ReadySet, WaitSet, Stat, Thread
    <3>3. /\ ready' \in Bank(Pri, Thread) /\ priobmap' \subseteq Pri
          /\ Links(ready', ReadySet \cup {t}, tskpri, Pri, Thread)
          /\ BitmapExact'
      BY <3>1, <3>2, RqInsert
    <3> QED
      BY <3>1, <3>2, <3>3 DEF QueueInv, TypeOK, TaskTypeOK
  <2>2. CASE tskstat[t] # "DMT"
    <3>1. /\ actcnt[t] < MaxAct /\ actcnt' = [actcnt EXCEPT ![t] = @ + 1]
          /\ UNCHANGED <<ready, priobmap, tskstat, tmq, waitq, tskpri, wobjid>>
      BY <1>1, <2>2 DEF Activate, readyVars
    <3>2. QueueInv' /\ ReadySet' = ReadySet /\ WaitSet' = WaitSet
      BY <3>1, QueueFrame
    <3>3. actcnt' \in [Thread -> 0..MaxAct]
      BY SMTT(30), <1>1, <3>1, TaskAssumption DEF TypeOK, TaskTypeOK
    <3> QED
      BY <3>1, <3>2, <3>3 DEF TypeOK, SchedTypeOK
  <2> QED
    BY <2>1, <2>2
<1>5. TypeOK'
  BY SMTT(30), <1>1, <1>2, <1>4
  DEF Activate, ThenSchedule, TypeOK, SchedTypeOK, TaskTypeOK, SemTypeOK
<1>6. SemInv'
  BY Zenon, <1>1 DEF Activate, SemInv, NoWaiterWhileAvailable, queue_is_empty
<1>7. GrantInv'
  BY <1>1, <1>3, <1>4 DEF Activate, GrantInv
<1> QED
  BY <1>2, <1>4, <1>5, <1>6, <1>7

(* rq_relocate() of a task of the ready queue.                             *)
LEMMA RqRelocate ==
  ASSUME TypeOK, QueueInv, NEW t \in ReadySet, NEW newpri \in Pri,
         rq_relocate(t, newpri)
  PROVE  /\ ready' \in Bank(Pri, Thread) /\ priobmap' \subseteq Pri
         /\ tskpri' \in [Thread -> Pri]
         /\ Links(ready', ReadySet, tskpri', Pri, Thread)
         /\ BitmapExact'
<1> DEFINE removed == queue_remove(ready, tskpri[t], t)
           bmap == IF removed.head[tskpri[t]] = NULL
                   THEN priobmap \ {tskpri[t]} ELSE priobmap
<1>1. /\ t \in Thread /\ tskpri[t] \in Pri /\ NULL \notin Thread
      /\ ready \in Bank(Pri, Thread) /\ ReadySet \subseteq Thread
      /\ priobmap \subseteq Pri /\ tskpri \in [Thread -> Pri]
      /\ Links(ready, ReadySet, tskpri, Pri, Thread)
  BY SchedAssumption DEF TypeOK, SchedTypeOK, Thread, ReadySet, QueueInv
<1>2. /\ ready' = queue_insert(removed, newpri, t)
      /\ priobmap' = bmap \cup {newpri}
      /\ tskpri' = [tskpri EXCEPT ![t] = newpri]
  BY DEF rq_relocate
<1>3. removed \in Bank(Pri, Thread)
  BY <1>1, BankType
<1>4. \A p \in Pri : p \in bmap <=> removed.head[p] # NULL
  BY <1>1 DEF queue_remove, Bank, QueueInv, BitmapExact
<1>5. Links(removed, ReadySet \ {t}, tskpri, Pri, Thread)
  BY <1>1, RemoveLinks
<1>6. /\ tskpri' \in [Thread -> Pri] /\ tskpri'[t] = newpri
      /\ \A n \in ReadySet \ {t} : tskpri'[n] = tskpri[n]
  BY <1>1, <1>2
<1>7. bmap \subseteq Pri
  BY <1>1
<1> HIDE DEF removed, bmap
<1>8. Links(removed, ReadySet \ {t}, tskpri', Pri, Thread)
  BY <1>1, <1>5, <1>6, LinksOwn
<1>9. Links(ready', (ReadySet \ {t}) \cup {t}, tskpri', Pri, Thread)
  BY Zenon, <1>1, <1>2, <1>3, <1>6, <1>8, InsertLinks
<1>10. (ReadySet \ {t}) \cup {t} = ReadySet
  OBVIOUS
<1>11. BitmapExact'
  BY <1>1, <1>2, <1>3, <1>4 DEF queue_insert, Bank, BitmapExact
<1>12. ready' \in Bank(Pri, Thread)
  BY <1>1, <1>2, <1>3, BankType
<1> QED
  BY SMTT(30), <1>2, <1>6, <1>7, <1>9, <1>10, <1>11, <1>12

LEMMA ChgPriIInv ==
  ASSUME IInv, NEW c \in Task, NEW t \in Task, NEW pri \in NewPri,
         chg_pri(c, t, pri), UNCHANGED semVars
  PROVE  IInv'
<1> USE DEF IInv
<1>1. /\ Running(c, "user") /\ ThenSchedule(c, "user")
      /\ "user" \in Labels /\ t \in Thread /\ pri \in Pri
      /\ UNCHANGED <<sembmap, semcnt, maxsem, deleting, granted>>
      /\ UNCHANGED <<tmq, waitq, tskstat, wobjid, wuptim, taskbmap, actcnt>>
  BY NewPriAssumption DEF chg_pri, Labels, Thread, semVars, taskVars
<1>2. /\ CpuInv' /\ DispatchInv' /\ resched' \subseteq Thread
      /\ pc' \in [Thread -> Labels] /\ pc'[c] = "user"
      /\ \A u \in Task \ {c} : pc'[u] = pc[u]
  BY <1>1, ThenScheduleFacts
<1>3. \A u \in Task : pc'[u] = pc[u]
  BY <1>1, <1>2 DEF Running
<1>4. ReadySet' = ReadySet /\ WaitSet' = WaitSet
  BY <1>1 DEF ReadySet, WaitSet
<1>5. /\ QueueInv' /\ tskpri' \in [Thread -> Pri]
      /\ ready' \in Bank(Pri, Thread) /\ priobmap' \subseteq Pri
  <2>1. CASE tskstat[t] = "RDY"
    <3>1. rq_relocate(t, pri) /\ t \in ReadySet
      BY <2>1 DEF chg_pri, ReadySet
    <3>2. /\ ready' \in Bank(Pri, Thread) /\ priobmap' \subseteq Pri
          /\ tskpri' \in [Thread -> Pri]
          /\ Links(ready', ReadySet, tskpri', Pri, Thread)
          /\ BitmapExact'
      BY <1>1, <3>1, RqRelocate
    <3> QED
      BY SMTT(30), <1>1, <1>4, <3>2 DEF QueueInv
  <2>2. CASE tskstat[t] # "RDY"
    <3>1. UNCHANGED <<ready, priobmap, tskpri>>
      BY SMTT(30), <2>2 DEF chg_pri, readyVars
    <3> QED
      BY <1>1, <3>1, QueueFrame DEF TypeOK, SchedTypeOK
  <2> QED
    BY <2>1, <2>2
<1>6. TypeOK'
  BY SMTT(30), <1>1, <1>2, <1>5
  DEF ThenSchedule, TypeOK, SchedTypeOK, TaskTypeOK, SemTypeOK
<1>7. SemInv'
  BY <1>1 DEF SemInv, NoWaiterWhileAvailable, queue_is_empty
<1>8. GrantInv'
  BY <1>1, <1>3, <1>4 DEF GrantInv
<1> QED
  BY <1>2, <1>5, <1>6, <1>7, <1>8

LEMMA ExtIInv ==
  ASSUME IInv, NEW c \in Task, ext_tsk(c), UNCHANGED semVars
  PROVE  IInv'
<1> USE DEF IInv
<1>1. /\ Running(c, "user") /\ ThenSchedule(c, "ext_tsk") /\ rq_remove(c)
      /\ {"user", "ext_tsk"} \subseteq Labels /\ c \in Thread
      /\ tskstat' = [tskstat EXCEPT ![c] = "DMT"] /\ tskstat \in [Thread -> Stat]
      /\ UNCHANGED <<sembmap, semcnt, maxsem, deleting, granted>>
      /\ UNCHANGED <<tmq, waitq, tskpri, wobjid, wuptim, taskbmap, actcnt>>
  BY DEF ext_tsk, Labels, Thread, semVars, taskVars, TypeOK, SchedTypeOK
<1>2. /\ CpuInv' /\ DispatchInv' /\ resched' \subseteq Thread
      /\ pc' \in [Thread -> Labels] /\ pc'[c] = "ext_tsk"
      /\ \A u \in Task \ {c} : pc'[u] = pc[u]
  BY <1>1, ThenScheduleFacts
<1>3. c \in ReadySet /\ pc[c] = "user"
  BY SMTT(30), <1>1 DEF Running, CpuInv
<1>4. /\ ReadySet' = ReadySet \ {c} /\ WaitSet' = WaitSet
      /\ tskstat' \in [Thread -> Stat]
  BY <1>1, <1>3 DEF ReadySet, WaitSet, Stat, Thread
<1>5. /\ ready' \in Bank(Pri, Thread) /\ priobmap' \subseteq Pri
      /\ Links(ready', ReadySet \ {c}, tskpri, Pri, Thread)
      /\ BitmapExact'
  BY SMTT(30), <1>1, <1>3, RqRemove
<1>6. QueueInv'
  BY SMTT(30), <1>1, <1>4, <1>5 DEF QueueInv
<1>7. TypeOK'
  BY SMTT(30), <1>1, <1>2, <1>4, <1>5
  DEF ThenSchedule, TypeOK, SchedTypeOK, TaskTypeOK, SemTypeOK
<1>8. SemInv'
  BY ZenonT(40), <1>1 DEF SemInv, NoWaiterWhileAvailable, queue_is_empty
<1>9. GrantInv'
  BY Zenon, <1>1, <1>2, <1>3, <1>4 DEF GrantInv
<1> QED
  BY <1>2, <1>6, <1>7, <1>8, <1>9

LEMMA ExtEndIInv ==
  ASSUME IInv, NEW c \in Task, ext_tsk_end(c), UNCHANGED semVars
  PROVE  IInv'
<1> USE DEF IInv, ext_tsk_end, Running, readyVars, tcbVars, cpuVars, taskVars, semVars
<1>1. /\ QueueInv' /\ ReadySet' = ReadySet /\ WaitSet' = WaitSet
      /\ Top' = Top
  BY QueueFrame
<1>2. /\ pc[c] = "ext_tsk" /\ pc'[c] = "user"
      /\ \A u \in Task \ {c} : pc'[u] = pc[u]
      /\ pc' \in [Thread -> Labels]
  BY SMTT(30) DEF TypeOK, SchedTypeOK, Thread, Labels
<1>3. TypeOK'
  BY SMTT(30), <1>2 DEF TypeOK, SchedTypeOK, TaskTypeOK, SemTypeOK
<1>4. CpuInv' /\ DispatchInv'
  BY <1>1 DEF CpuInv, DispatchInv
<1>5. SemInv'
  BY DEF SemInv, NoWaiterWhileAvailable, queue_is_empty
<1>6. GrantInv'
  BY <1>1, <1>2 DEF GrantInv
<1> QED
  BY <1>1, <1>3, <1>4, <1>5, <1>6
============================================================================
