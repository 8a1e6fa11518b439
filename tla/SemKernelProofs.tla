-------------------------- MODULE SemKernelProofs --------------------------
(***************************************************************************)
(* The semaphore services keep the invariant of SemTaskProofs, and with it *)
(* every property of SemKernel holds for every number of tasks, priorities *)
(* and semaphores.                                                         *)
(***************************************************************************)
EXTENDS SemTaskProofs

(* Semaphore services.                                                     *)
LEMMA CreSemIInv ==
  ASSUME IInv, NEW t \in Task, NEW s \in Sem, NEW i \in 0..MaxSem,
         NEW m \in 0..MaxSem, cre_sem(t, s, i, m), UNCHANGED taskVars
  PROVE  IInv'
<1> USE DEF IInv, cre_sem, Running, readyVars, tcbVars, cpuVars, taskVars
<1>1. waitq' = waitq /\ waitq.head[s] = NULL
  <2>1. waitq.head[s] = NULL /\ waitq.tail[s] = NULL /\ s \in WaitObj
    BY SemAssumption DEF SemInv, QueueInv, Links
  <2>2. waitq \in Bank(WaitObj, Task)
    BY DEF TypeOK, SchedTypeOK
  <2>3. /\ [waitq.head EXCEPT ![s] = NULL] = waitq.head
        /\ [waitq.tail EXCEPT ![s] = NULL] = waitq.tail
    BY <2>1, <2>2 DEF Bank
  <2>4. waitq' = [waitq EXCEPT !.head = waitq.head, !.tail = waitq.tail]
    BY Zenon, <2>2, <2>3 DEF Bank
  <2> QED
    BY Zenon, <2>1, <2>2, <2>4 DEF Bank
<1>2. /\ QueueInv' /\ ReadySet' = ReadySet /\ WaitSet' = WaitSet
      /\ Top' = Top
  BY <1>1, QueueFrame
<1>3. TypeOK'
  <2>1. SchedTypeOK'
    BY <1>1 DEF TypeOK, SchedTypeOK
  <2>2. TaskTypeOK' /\ SemTypeOK'
    BY DEF TypeOK, TaskTypeOK, SemTypeOK
  <2> QED
    BY <2>1, <2>2 DEF TypeOK
<1>4. CpuInv' /\ DispatchInv'
  BY <1>2 DEF CpuInv, DispatchInv
<1>5. SemInv'
  BY <1>1, SemAssumption
  DEF SemInv, NoWaiterWhileAvailable, queue_is_empty, TypeOK, SemTypeOK
<1>6. GrantInv'
  BY <1>2 DEF GrantInv
<1> QED
  BY <1>2, <1>3, <1>4, <1>5, <1>6

LEMMA DelSemIInv ==
  ASSUME IInv, NEW t \in Task, NEW s \in Sem, del_sem(t, s), UNCHANGED taskVars
  PROVE  IInv'
<1> USE DEF IInv, del_sem, Running, readyVars, tcbVars, taskVars
<1>1. /\ QueueInv' /\ ReadySet' = ReadySet /\ WaitSet' = WaitSet
      /\ Top' = Top
  BY QueueFrame
<1>2. /\ pc[t] = "user" /\ pc'[t] = "del_sem"
      /\ \A u \in Task \ {t} : pc'[u] = pc[u]
      /\ pc' \in [Thread -> Labels]
  BY DEF TypeOK, SchedTypeOK, Thread, Labels
<1>3. TypeOK'
  BY <1>2 DEF TypeOK, SchedTypeOK, TaskTypeOK, SemTypeOK
<1>4. CpuInv' /\ DispatchInv'
  BY <1>1 DEF CpuInv, DispatchInv
<1>5. SemInv'
  BY DEF SemInv, NoWaiterWhileAvailable, queue_is_empty
<1>6. GrantInv'
  BY <1>1, <1>2 DEF GrantInv
<1> QED
  BY <1>1, <1>3, <1>4, <1>5, <1>6

(* The only task that rq_insert() can bring to the front is its argument.  *)
LEMMA RqInsertTop ==
  ASSUME TypeOK, QueueInv, NEW t \in Task, rq_insert(t)
  PROVE  Top' \in {Top, t}
<1> DEFINE p == tskpri[t]
           m == Min(priobmap)
           m2 == Min(priobmap \cup {p})
<1>1. /\ p \in Pri /\ priobmap \subseteq Pri /\ Pri \subseteq Nat
      /\ ready.head \in [Pri -> Thread \cup {NULL}]
      /\ t # Idle /\ t # NULL
      /\ \A i \in Pri : i \in priobmap <=> ready.head[i] # NULL
  BY SchedAssumption
  DEF TypeOK, SchedTypeOK, Bank, Thread, QueueInv, BitmapExact, Pri
<1>2. /\ priobmap' = priobmap \cup {p}
      /\ ready'.head = IF ready.head[p] = NULL THEN [ready.head EXCEPT ![p] = t]
                       ELSE ready.head
  BY DEF rq_insert, queue_insert
<1>3. CASE p \in priobmap
  BY <1>1, <1>2, <1>3 DEF Top, rq_get_head
<1>4. CASE p \notin priobmap
  <2>1. ready'.head = [ready.head EXCEPT ![p] = t]
    BY Zenon, <1>1, <1>2, <1>4
  <2>2. /\ m2 \in priobmap \cup {p} /\ \A i \in priobmap \cup {p} : m2 <= i
    BY <1>1, MinPriority
  <2>3. priobmap # {} => m \in priobmap /\ \A i \in priobmap : m <= i
    BY <1>1, MinPriority
  <2>4. CASE m2 = p
    BY <1>1, <1>2, <2>1, <2>4 DEF Top, rq_get_head
  <2>5. CASE m2 \in priobmap
    <3> HIDE DEF m, m2
    <3>1. m \in Nat /\ m2 \in Nat /\ m <= m2 /\ m2 <= m
      BY Zenon, <1>1, <2>2, <2>3, <2>5
    <3>2. m = m2 /\ m # p /\ m \in Pri
      BY <1>1, <1>4, <2>5, <3>1
    <3>3. ready'.head[m2] = ready.head[m]
      BY <1>1, <2>1, <3>2
    <3> QED
      BY <1>2, <2>5, <3>3 DEF Top, rq_get_head, m, m2
  <2> QED
    BY <2>2, <2>4, <2>5
<1> QED
  BY <1>3, <1>4

LEMMA DelSemReleaseIInv ==
  ASSUME IInv, NEW t \in Task, del_sem_release(t), UNCHANGED taskVars
  PROVE  IInv'
<1> USE DEF IInv
<1> DEFINE w == waitq.head[deleting]
<1>1. /\ cpu = "cli" /\ w # NULL /\ waitq' = queue_extract(waitq, deleting)
      /\ rq_insert(w) /\ wobjid' = [wobjid EXCEPT ![w] = "E_DLT"]
      /\ UNCHANGED <<tmq, tskstat, tskpri, wuptim, pc, resched, taskbmap, actcnt>>
      /\ UNCHANGED <<current, dispatching, need_resched, ivg15, cpu>>
      /\ UNCHANGED <<sembmap, semcnt, maxsem, deleting, granted>>
  BY DEF del_sem_release, cpuVars, semVars, taskVars
<1>2. /\ deleting \in sembmap /\ deleting \in Sem /\ deleting \in WaitObj
      /\ waitq \in Bank(WaitObj, Task) /\ NULL \notin Task
      /\ wobjid \in [Thread -> WObj] /\ "E_DLT" \in WObj
      /\ Links(waitq, WaitSet, wobjid, WaitObj, Task) /\ WaitSet \subseteq Task
  BY SMTT(30), <1>1, SemAssumption, SchedAssumption
  DEF CpuInv, TypeOK, SchedTypeOK, SemTypeOK, QueueInv, WaitSet, WObj
<1>3. w \in WaitSet /\ w \in Task /\ w \in Thread /\ w \notin ReadySet
  BY <1>1, <1>2 DEF Links, WaitSet, ReadySet, Thread
<1> HIDE DEF w
<1>4. /\ wobjid' \in [Thread -> WObj] /\ wobjid'[w] = "E_DLT"
      /\ \A u \in Task \ {w} : wobjid'[u] = wobjid[u]
      /\ ReadySet' = ReadySet \cup {w} /\ WaitSet' = WaitSet \ {w}
  BY <1>1, <1>2, <1>3 DEF ReadySet, WaitSet, Thread
<1>5. /\ ready' \in Bank(Pri, Thread) /\ priobmap' \subseteq Pri
      /\ Links(ready', ReadySet \cup {w}, tskpri, Pri, Thread)
      /\ BitmapExact'
  BY <1>1, <1>3, RqInsert
<1>6. waitq' \in Bank(WaitObj, Task)
  BY <1>1, <1>2, BankType
<1>7. Links(waitq', WaitSet \ {w}, wobjid', WaitObj, Task)
  <2>1. Links(waitq', WaitSet \ {w}, wobjid, WaitObj, Task)
    BY <1>1, <1>2, ExtractLinks DEF w
  <2>2. WaitSet \ {w} \subseteq Task /\ \A n \in WaitSet \ {w} : wobjid'[n] = wobjid[n]
    BY <1>2, <1>4
  <2> QED
    BY <2>1, <2>2, LinksOwn
<1>8. QueueInv'
  <2>1. tmq'.head = NULL /\ tskpri' = tskpri
    BY <1>1 DEF QueueInv
  <2>2. \A u \in WaitSet' : wobjid'[u] \in Sem
    BY <1>2, <1>4 DEF QueueInv
  <2> QED
    BY <1>4, <1>5, <1>7, <2>1, <2>2 DEF QueueInv
<1>9. TypeOK'
  BY <1>1, <1>4, <1>5, <1>6 DEF TypeOK, SchedTypeOK, TaskTypeOK, SemTypeOK
<1>10. CpuInv'
  BY <1>1, <1>4 DEF CpuInv
<1>11. SemInv'
  <2>1. \A s \in Sem \ {deleting} : waitq'.head[s] = waitq.head[s]
    BY <1>1, <1>2, SemAssumption DEF queue_extract, Bank, w
  <2>2. ~(semcnt[deleting] > 0)
    BY <1>1, <1>2 DEF SemInv, NoWaiterWhileAvailable, queue_is_empty, w
  <2> QED
    BY <1>1, <1>2, <2>1, <2>2
    DEF SemInv, NoWaiterWhileAvailable, queue_is_empty, TypeOK, SemTypeOK
<1>12. GrantInv'
  BY <1>1, <1>3, <1>4 DEF GrantInv
<1>13. DispatchInv'
  <2>1. Top' \in {Top, w}
    BY <1>1, <1>3, RqInsertTop
  <2>2. CASE Top' = w
    BY <1>1, <1>3, <1>4, <2>2 DEF DispatchInv, WaitSet
  <2>3. CASE Top' = Top /\ Top # w
    <3>1. Top \in Thread
      BY TopReady DEF ReadySet, Thread
    <3>2. wobjid'[Top] = wobjid[Top]
      BY <1>1, <1>2, <2>3, <3>1
    <3> QED
      BY <1>1, <2>3, <3>2 DEF DispatchInv
  <2> QED
    BY <2>1, <2>2, <2>3
<1> QED
  BY <1>8, <1>9, <1>10, <1>11, <1>12, <1>13

LEMMA DelSemEndIInv ==
  ASSUME IInv, NEW t \in Task, del_sem_end(t), UNCHANGED taskVars
  PROVE  IInv'
<1> USE DEF IInv, del_sem_end, readyVars, tcbVars, taskVars
<1>1. /\ deleting \in Sem /\ waitq' = waitq /\ waitq.head[deleting] = NULL
  <2>1. /\ deleting \in Sem /\ deleting \in WaitObj
        /\ waitq.head[deleting] = NULL /\ waitq.tail[deleting] = NULL
        /\ waitq \in Bank(WaitObj, Task)
    BY SemAssumption
    DEF queue_is_empty, CpuInv, QueueInv, Links, TypeOK, SchedTypeOK, SemTypeOK
  <2>2. [waitq.tail EXCEPT ![deleting] = NULL] = waitq.tail
    BY <2>1 DEF Bank
  <2>3. waitq' = [waitq EXCEPT !.tail = waitq.tail]
    BY <2>1, <2>2 DEF queue_extract, Bank
  <2> QED
    BY SMTT(30), <2>1, <2>3 DEF Bank
<1>2. /\ QueueInv' /\ ReadySet' = ReadySet /\ WaitSet' = WaitSet
      /\ Top' = Top
  BY <1>1, QueueFrame
<1>3. /\ pc[t] = "del_sem" /\ pc'[t] = "user"
      /\ \A u \in Task \ {t} : pc'[u] = pc[u]
      /\ pc' \in [Thread -> Labels]
  BY DEF TypeOK, SchedTypeOK, Thread, Labels
<1>4. TypeOK'
  BY <1>1, <1>3 DEF TypeOK, SchedTypeOK, TaskTypeOK, SemTypeOK
<1>5. CpuInv' /\ DispatchInv'
  BY SMTT(30), <1>2 DEF CpuInv, DispatchInv
<1>6. SemInv'
  BY <1>1 DEF SemInv, NoWaiterWhileAvailable, queue_is_empty
<1>7. GrantInv'
  BY <1>2, <1>3 DEF GrantInv
<1> QED
  BY <1>2, <1>4, <1>5, <1>6, <1>7

(* The critical section of sig_sem(): a waiter becomes ready and is        *)
(* granted the semaphore, or the count grows.                              *)
LEMMA SignalFacts ==
  ASSUME IInv, NEW s \in Sem, SignalSem(s)
  PROVE  /\ QueueInv' /\ SemInv' /\ SemTypeOK'
         /\ ready' \in Bank(Pri, Thread) /\ priobmap' \subseteq Pri
         /\ waitq' \in Bank(WaitObj, Task) /\ tskstat' \in [Thread -> Stat]
         /\ ReadySet \subseteq ReadySet'
         /\ \/ UNCHANGED granted /\ WaitSet' = WaitSet
            \/ \E w \in WaitSet : /\ granted' = granted \cup {w} /\ w \in ReadySet'
                                  /\ WaitSet' = WaitSet \ {w}
<1> USE DEF IInv
<1> DEFINE w == waitq.head[s]
<1>1. /\ s \in sembmap /\ semcnt[s] # maxsem[s]
      /\ waitq' = queue_extract(waitq, s)
      /\ UNCHANGED <<tmq, tskpri, wobjid, wuptim, sembmap, maxsem, deleting>>
  BY DEF SignalSem
<1>2. /\ s \in WaitObj /\ waitq \in Bank(WaitObj, Task) /\ NULL \notin Task
      /\ WaitSet \subseteq Task /\ Links(waitq, WaitSet, wobjid, WaitObj, Task)
      /\ tskstat \in [Thread -> Stat]
  BY SemAssumption, SchedAssumption
  DEF TypeOK, SchedTypeOK, QueueInv, WaitSet
<1>3. waitq' \in Bank(WaitObj, Task)
  BY <1>1, <1>2, BankType
<1>4. Links(waitq', WaitSet \ {w}, wobjid, WaitObj, Task)
  BY <1>1, <1>2, ExtractLinks
<1>5. \A r \in Sem \ {s} : waitq'.head[r] = waitq.head[r]
  BY <1>1, <1>2, SemAssumption DEF queue_extract, Bank
<1>6. CASE w # NULL
  <2>1. /\ tskstat' = [tskstat EXCEPT ![w] = "RDY"] /\ rq_insert(w)
        /\ granted' = granted \cup {w} /\ UNCHANGED semcnt
    BY <1>6 DEF SignalSem, queue_is_empty
  <2>2. w \in WaitSet /\ w \in Task /\ w \in Thread /\ w \notin ReadySet
    BY SMTT(30), <1>2, <1>6 DEF Links, WaitSet, ReadySet, Thread
  <2> HIDE DEF w
  <2>3. /\ tskstat' \in [Thread -> Stat]
        /\ ReadySet' = ReadySet \cup {w} /\ WaitSet' = WaitSet \ {w}
    BY <1>1, <1>2, <2>1, <2>2 DEF ReadySet, WaitSet, Stat, Thread
  <2>4. /\ ready' \in Bank(Pri, Thread) /\ priobmap' \subseteq Pri
        /\ Links(ready', ReadySet \cup {w}, tskpri, Pri, Thread)
        /\ BitmapExact'
    BY SMTT(30), <2>1, <2>2, RqInsert
  <2>5. QueueInv'
    BY <1>1, <1>4, <2>3, <2>4 DEF QueueInv
  <2>6. SemTypeOK'
    BY <1>1, <2>1, <2>2 DEF TypeOK, SemTypeOK
  <2>7. SemInv'
    <3>1. ~(semcnt[s] > 0)
      BY <1>1, <1>6 DEF SemInv, NoWaiterWhileAvailable, queue_is_empty, w
    <3> QED
      BY <1>1, <1>5, <2>1, <3>1
      DEF SemInv, NoWaiterWhileAvailable, queue_is_empty, TypeOK, SemTypeOK
  <2> QED
    BY SMTT(30), <1>3, <2>1, <2>2, <2>3, <2>4, <2>5, <2>6, <2>7
<1>7. CASE w = NULL
  <2>1. /\ semcnt' = [semcnt EXCEPT ![s] = @ + 1]
        /\ UNCHANGED <<ready, priobmap, tskstat, granted>>
    BY <1>7 DEF SignalSem, readyVars
  <2>2. ReadySet' = ReadySet /\ WaitSet' = WaitSet /\ WaitSet \ {w} = WaitSet
    BY SMTT(30), <1>1, <1>2, <1>7, <2>1 DEF ReadySet, WaitSet
  <2>3. QueueInv'
    BY <1>1, <1>4, <2>1, <2>2 DEF QueueInv, BitmapExact
  <2>4. /\ semcnt[s] < maxsem[s] /\ semcnt' \in [Sem -> 0..MaxSem]
        /\ \A r \in sembmap : semcnt'[r] <= maxsem[r] /\ maxsem[r] > 0
        /\ \A r \in Sem \ {s} : semcnt'[r] = semcnt[r]
    <3>1. /\ semcnt \in [Sem -> 0..MaxSem] /\ maxsem \in [Sem -> 0..MaxSem]
          /\ sembmap \subseteq Sem /\ s \in sembmap /\ semcnt[s] # maxsem[s]
          /\ \A r \in sembmap : semcnt[r] <= maxsem[r] /\ maxsem[r] > 0
      BY <1>1 DEF SemInv, NoWaiterWhileAvailable, TypeOK, SemTypeOK
    <3>2. semcnt[s] \in Nat /\ maxsem[s] \in 0..MaxSem /\ MaxSem \in Nat
      BY <3>1, SemAssumption
    <3>3. semcnt[s] < maxsem[s] /\ semcnt[s] + 1 \in 0..MaxSem
      BY <3>1, <3>2
    <3> QED
      BY <2>1, <3>1, <3>3
  <2>5. SemTypeOK'
    BY <1>1, <2>1, <2>4 DEF TypeOK, SemTypeOK
  <2>6. waitq'.head[s] = NULL
    BY <1>1, <1>2, <1>7 DEF queue_extract, Bank
  <2>7. SemInv'
    BY <1>1, <1>5, <2>4, <2>6
    DEF SemInv, NoWaiterWhileAvailable, queue_is_empty, TypeOK, SemTypeOK
  <2> QED
    BY <1>3, <2>1, <2>2, <2>3, <2>5, <2>7 DEF TypeOK, SchedTypeOK
<1> QED
  BY <1>6, <1>7

LEMMA SigSemIInv ==
  ASSUME IInv, NEW t \in Task, NEW s \in Sem, sig_sem(t, s), UNCHANGED taskVars
  PROVE  IInv'
<1> USE DEF IInv
<1>1. /\ Running(t, "user") /\ SignalSem(s) /\ ThenSchedule(t, "user")
      /\ "user" \in Labels /\ UNCHANGED <<taskbmap, actcnt>>
      /\ UNCHANGED <<tmq, tskpri, wobjid, wuptim, sembmap, maxsem, deleting>>
  BY DEF sig_sem, Labels, taskVars, SignalSem
<1>2. /\ QueueInv' /\ SemInv' /\ SemTypeOK'
      /\ ready' \in Bank(Pri, Thread) /\ priobmap' \subseteq Pri
      /\ waitq' \in Bank(WaitObj, Task) /\ tskstat' \in [Thread -> Stat]
      /\ ReadySet \subseteq ReadySet'
      /\ \/ UNCHANGED granted /\ WaitSet' = WaitSet
         \/ \E w \in WaitSet : /\ granted' = granted \cup {w} /\ w \in ReadySet'
                               /\ WaitSet' = WaitSet \ {w}
  BY <1>1, SignalFacts
<1>3. /\ pc' = pc /\ resched' \subseteq Thread
  BY <1>1 DEF Running, ThenSchedule, TypeOK, SchedTypeOK
<1>4. CpuInv' /\ DispatchInv'
  BY <1>1 DEF Running, ThenSchedule, CpuInv, DispatchInv
<1>5. TypeOK'
  BY Zenon, <1>1, <1>2, <1>3 DEF ThenSchedule, TypeOK, SchedTypeOK, TaskTypeOK
<1>6. GrantInv'
  BY <1>1, <1>2, <1>3 DEF GrantInv, WaitSet
<1> QED
  BY <1>2, <1>4, <1>5, <1>6

LEMMA SigSemIntIInv ==
  ASSUME IInv, NEW s \in Sem, sig_sem_int(s), UNCHANGED taskVars
  PROVE  IInv'
<1> USE DEF IInv
<1>1. /\ cpu = "task" /\ SignalSem(s) /\ ivg15' = TRUE /\ need_resched' = TRUE
      /\ UNCHANGED <<taskbmap, actcnt, current, dispatching, cpu, pc, resched>>
      /\ UNCHANGED <<tmq, tskpri, wobjid, wuptim, sembmap, maxsem, deleting>>
  BY ZenonT(40) DEF sig_sem_int, taskVars, SignalSem, HandlerExit
<1>2. /\ QueueInv' /\ SemInv' /\ SemTypeOK'
      /\ ready' \in Bank(Pri, Thread) /\ priobmap' \subseteq Pri
      /\ waitq' \in Bank(WaitObj, Task) /\ tskstat' \in [Thread -> Stat]
      /\ ReadySet \subseteq ReadySet'
      /\ \/ UNCHANGED granted /\ WaitSet' = WaitSet
         \/ \E w \in WaitSet : /\ granted' = granted \cup {w} /\ w \in ReadySet'
                               /\ WaitSet' = WaitSet \ {w}
  BY <1>1, SignalFacts
<1>3. CpuInv' /\ DispatchInv'
  BY <1>1, <1>2 DEF CpuInv, DispatchInv
<1>4. TypeOK'
  BY <1>1, <1>2 DEF TypeOK, SchedTypeOK, TaskTypeOK
<1>5. GrantInv'
  BY SMTT(30), <1>1, <1>2 DEF GrantInv, WaitSet
<1> QED
  BY <1>2, <1>3, <1>4, <1>5

LEMMA SigSemIntErrorIInv ==
  ASSUME IInv, NEW s \in Sem, sig_sem_int_error(s), UNCHANGED taskVars
  PROVE  IInv'
<1> USE DEF IInv, sig_sem_int_error, HandlerExit, readyVars, tcbVars, taskVars, semVars
<1>1. /\ QueueInv' /\ ReadySet' = ReadySet /\ WaitSet' = WaitSet
      /\ Top' = Top
  BY QueueFrame
<1>2. /\ ivg15' \in BOOLEAN /\ need_resched' \in BOOLEAN
      /\ cpu = "task" /\ ~ivg15' => ~ivg15
  BY DEF TypeOK, SchedTypeOK
<1>3. TypeOK'
  BY SMTT(30), <1>2 DEF TypeOK, SchedTypeOK, TaskTypeOK, SemTypeOK
<1>4. CpuInv' /\ DispatchInv'
  BY SMTT(30), <1>1, <1>2 DEF CpuInv, DispatchInv
<1>5. SemInv'
  BY ZenonT(40) DEF SemInv, NoWaiterWhileAvailable, queue_is_empty
<1>6. GrantInv'
  BY Zenon, <1>1 DEF GrantInv
<1> QED
  BY SMTT(30), <1>1, <1>3, <1>4, <1>5, <1>6

LEMMA WaiSemOkIInv ==
  ASSUME IInv, NEW t \in Task, NEW s \in Sem, wai_sem_ok(t, s), UNCHANGED taskVars
  PROVE  IInv'
<1> USE DEF IInv, wai_sem_ok, schedVars, taskVars
<1>1. /\ QueueInv' /\ ReadySet' = ReadySet /\ WaitSet' = WaitSet
      /\ Top' = Top
  BY QueueFrame
<1>2. /\ semcnt' \in [Sem -> 0..MaxSem] /\ semcnt[s] \in Nat
      /\ semcnt'[s] = semcnt[s] - 1
      /\ \A r \in Sem \ {s} : semcnt'[r] = semcnt[r]
  BY SemAssumption DEF TypeOK, SemTypeOK
<1>3. TypeOK'
  BY SMTT(30), <1>2 DEF TypeOK, SchedTypeOK, TaskTypeOK, SemTypeOK
<1>4. CpuInv' /\ DispatchInv'
  BY <1>1 DEF CpuInv, DispatchInv
<1>5. SemInv'
  <2>1. /\ UNCHANGED <<sembmap, maxsem, waitq>> /\ sembmap \subseteq Sem
        /\ semcnt \in [Sem -> 0..MaxSem] /\ maxsem \in [Sem -> 0..MaxSem]
    BY DEF TypeOK, SemTypeOK
  <2>2. \A r \in sembmap : semcnt[r] <= maxsem[r] => semcnt'[r] <= maxsem[r]
    BY <1>2, <2>1
  <2>3. \A r \in sembmap : semcnt'[r] > 0 => semcnt[r] > 0
    BY <1>2, <2>1
  <2> QED
    BY <2>1, <2>2, <2>3 DEF SemInv, NoWaiterWhileAvailable, queue_is_empty
<1>6. GrantInv'
  BY <1>1 DEF GrantInv
<1> QED
  BY <1>1, <1>3, <1>4, <1>5, <1>6

LEMMA WaiSemIInv ==
  ASSUME IInv, NEW t \in Task, NEW s \in Sem, wai_sem(t, s), UNCHANGED taskVars
  PROVE  IInv'
<1> USE DEF IInv
<1>1. /\ Running(t, "user") /\ ThenSchedule(t, "wai_sem") /\ rq_remove(t)
      /\ {"user", "wai_sem"} \subseteq Labels /\ t \in Thread
      /\ s \in sembmap /\ semcnt[s] < 1
      /\ waitq' = queue_insert(waitq, s, t)
      /\ tskstat' = [tskstat EXCEPT ![t] = "WAI"]
      /\ wobjid' = [wobjid EXCEPT ![t] = s]
      /\ UNCHANGED <<tskpri, tmq, wuptim, taskbmap, actcnt>>
      /\ UNCHANGED <<sembmap, semcnt, maxsem, deleting, granted>>
  BY DEF wai_sem, WaitSem, Labels, Thread, semVars, taskVars
<1>2. /\ CpuInv' /\ DispatchInv' /\ resched' \subseteq Thread
      /\ pc' \in [Thread -> Labels] /\ pc'[t] = "wai_sem"
      /\ \A u \in Task \ {t} : pc'[u] = pc[u]
  BY <1>1, ThenScheduleFacts DEF semVars
<1>3. /\ t \in ReadySet /\ t \notin WaitSet /\ pc[t] = "user"
  BY <1>1 DEF Running, CpuInv, ReadySet, WaitSet
<1>4. /\ s \in WaitObj /\ s # "E_DLT" /\ s \in WObj
      /\ waitq \in Bank(WaitObj, Task) /\ NULL \notin Task /\ WaitSet \subseteq Task
      /\ tskstat \in [Thread -> Stat] /\ wobjid \in [Thread -> WObj]
      /\ Links(waitq, WaitSet, wobjid, WaitObj, Task)
  BY SemAssumption, SemNames, SchedAssumption
  DEF WObj, TypeOK, SchedTypeOK, WaitSet, QueueInv
<1>5. /\ tskstat' \in [Thread -> Stat] /\ wobjid' \in [Thread -> WObj]
      /\ wobjid'[t] = s /\ \A u \in Task \ {t} : wobjid'[u] = wobjid[u]
      /\ ReadySet' = ReadySet \ {t} /\ WaitSet' = WaitSet \cup {t}
  BY <1>1, <1>4 DEF ReadySet, WaitSet, Stat, Thread
<1>6. /\ ready' \in Bank(Pri, Thread) /\ priobmap' \subseteq Pri
      /\ Links(ready', ReadySet \ {t}, tskpri, Pri, Thread)
      /\ BitmapExact'
  BY <1>1, <1>3, RqRemove
<1>7. waitq' \in Bank(WaitObj, Task)
  BY SMTT(30), <1>1, <1>4, BankType
<1>8. Links(waitq', WaitSet \cup {t}, wobjid', WaitObj, Task)
  <2>1. Links(waitq, WaitSet, wobjid', WaitObj, Task)
    <3>1. \A n \in WaitSet : wobjid'[n] = wobjid[n]
      BY SMTT(30), <1>3, <1>4, <1>5
    <3> QED
      BY <1>4, <3>1, LinksOwn
  <2> QED
    BY Zenon, <1>1, <1>3, <1>4, <1>5, <2>1, InsertLinks
<1>9. QueueInv'
  <2>1. tmq'.head = NULL /\ tskpri' = tskpri
    BY <1>1 DEF QueueInv
  <2>2. \A u \in WaitSet' : wobjid'[u] \in Sem
    BY SMTT(30), <1>4, <1>5 DEF QueueInv
  <2> QED
    BY <1>5, <1>6, <1>8, <2>1, <2>2 DEF QueueInv
<1>10. TypeOK'
  BY ZenonT(40), <1>1, <1>2, <1>5, <1>6, <1>7
  DEF ThenSchedule, TypeOK, SchedTypeOK, TaskTypeOK, SemTypeOK
<1>11. SemInv'
  <2>1. \A r \in Sem \ {s} : waitq'.head[r] = waitq.head[r]
    BY <1>1, <1>4, SemAssumption DEF queue_insert, Bank
  <2>2. /\ UNCHANGED <<sembmap, semcnt, maxsem>> /\ s \in sembmap
        /\ sembmap \subseteq Sem /\ ~(semcnt[s] > 0)
    BY SMTT(30), <1>1 DEF TypeOK, SemTypeOK
  <2> QED
    BY <2>1, <2>2 DEF SemInv, NoWaiterWhileAvailable, queue_is_empty
<1>12. GrantInv'
  BY Zenon, <1>1, <1>2, <1>3, <1>5 DEF GrantInv
<1> QED
  BY <1>2, <1>9, <1>10, <1>11, <1>12

LEMMA WaiSemEndIInv ==
  ASSUME IInv, NEW t \in Task, wai_sem_end(t), UNCHANGED taskVars
  PROVE  IInv'
<1> USE DEF IInv, wai_sem_end, Running, readyVars, tcbVars, cpuVars, taskVars
<1>1. /\ QueueInv' /\ ReadySet' = ReadySet /\ WaitSet' = WaitSet
      /\ Top' = Top
  BY QueueFrame
<1>2. /\ pc[t] = "wai_sem" /\ pc'[t] = "user"
      /\ \A u \in Task \ {t} : pc'[u] = pc[u]
      /\ pc' \in [Thread -> Labels]
  BY DEF TypeOK, SchedTypeOK, Thread, Labels
<1>3. t \notin WaitSet
  BY SMTT(30) DEF CpuInv, ReadySet, WaitSet
<1>4. TypeOK'
  BY SMTT(30), <1>2 DEF TypeOK, SchedTypeOK, TaskTypeOK, SemTypeOK
<1>5. CpuInv' /\ DispatchInv'
  BY ZenonT(40), <1>1 DEF CpuInv, DispatchInv
<1>6. SemInv'
  BY DEF SemInv, NoWaiterWhileAvailable, queue_is_empty
<1>7. GrantInv'
  BY <1>1, <1>2, <1>3 DEF GrantInv
<1> QED
  BY <1>1, <1>4, <1>5, <1>6, <1>7

----------------------------------------------------------------------------
LEMMA StepIInv == IInv /\ [Next]_vars => IInv'
<1> SUFFICES ASSUME IInv, [Next]_vars PROVE IInv'
  OBVIOUS
<1>1. CASE UNCHANGED vars
  <2> USE <1>1 DEF IInv, vars, schedVars, taskVars, semVars
  <2>1. /\ QueueInv' /\ ReadySet' = ReadySet /\ WaitSet' = WaitSet
        /\ Top' = Top
    BY QueueFrame
  <2>2. TypeOK'
    BY SMTT(30) DEF TypeOK, SchedTypeOK, TaskTypeOK, SemTypeOK
  <2>3. CpuInv' /\ DispatchInv' /\ GrantInv'
    BY SMTT(30), <2>1 DEF CpuInv, DispatchInv, GrantInv
  <2>4. SemInv'
    BY Zenon DEF SemInv, NoWaiterWhileAvailable, queue_is_empty
  <2> QED
    BY <2>1, <2>2, <2>3, <2>4
<1>2. CASE SchedStep /\ UNCHANGED <<taskVars, semVars>>
  <2>1. ~ tq_wakeup
    \* Nothing ever enters the timeout queue.
    BY Zenon DEF IInv, QueueInv, tq_wakeup, Expired
  <2> QED
    BY SMTT(30), <1>2, <2>1, TickIInv, TickExitIInv, SchedulerIInv DEF SchedStep
<1>3. CASE TaskStep /\ UNCHANGED semVars
  BY <1>3, ActIInv, ChgPriIInv, ExtIInv, ExtEndIInv DEF TaskStep
<1>4. CASE SemStep /\ UNCHANGED taskVars
  <2>1. ASSUME NEW t \in Task, NEW s \in Sem, NEW i \in 0..MaxSem,
               NEW m \in 0..MaxSem, cre_sem(t, s, i, m)
        PROVE  IInv'
    BY <1>4, <2>1, CreSemIInv
  <2>2. ASSUME NEW t \in Task, NEW s \in Sem,
               \/ del_sem(t, s) \/ sig_sem(t, s)
               \/ wai_sem_ok(t, s) \/ wai_sem(t, s)
        PROVE  IInv'
    BY <1>4, <2>2, DelSemIInv, SigSemIInv, WaiSemOkIInv, WaiSemIInv
  <2>3. ASSUME NEW t \in Task,
               del_sem_release(t) \/ del_sem_end(t) \/ wai_sem_end(t)
        PROVE  IInv'
    BY <1>4, <2>3, DelSemReleaseIInv, DelSemEndIInv, WaiSemEndIInv
  <2>4. ASSUME NEW s \in Sem, sig_sem_int(s) \/ sig_sem_int_error(s)
        PROVE  IInv'
    BY <1>4, <2>4, SigSemIntIInv, SigSemIntErrorIInv
  <2> QED
    BY <1>4, <2>1, <2>2, <2>3, <2>4 DEF SemStep
<1> QED
  BY <1>1, <1>2, <1>3, <1>4 DEF Next

LEMMA Invariance == Spec => []IInv
BY InitIInv, StepIInv, PTL DEF Spec

(* Every service keeps every field in its type: counts within 0..MaxSem,   *)
(* the running thread a real one (scheduler() never takes up NULL), links  *)
(* and heads pointing to task_t's or NULL.                                 *)
THEOREM TypeCorrect == Spec => []TypeOK
BY Invariance, PTL DEF IInv

(* A semaphore that counts has no waiter, so that the E_QOVR test of       *)
(* sig_sem() never refuses a signal somebody waits for.                    *)
THEOREM SemaphoreCorrect == Spec => []NoWaiterWhileAvailable
<1>1. IInv => NoWaiterWhileAvailable
  BY DEF IInv, SemInv
<1> QED
  BY <1>1, Invariance, PTL

(* priobmap is exact after every step of every service and interrupt.      *)
THEOREM BitmapCorrect == Spec => []BitmapExact
<1>1. IInv => BitmapExact
  BY DEF IInv, QueueInv
<1> QED
  BY <1>1, Invariance, PTL

(* No interleaving of services, handlers and ticks links a task in two     *)
(* queues, or leaves a live one in none.                                   *)
THEOREM QueuesCorrect == Spec => []OnePlace
<1>1. IInv => OnePlace
  <2> SUFFICES ASSUME IInv, NEW t \in Task
               PROVE  /\ ~(InReady(t) /\ InWait(t))
                      /\ tskstat[t] \in {"RUN", "RDY"} => InReady(t)
                      /\ tskstat[t] = "DMT" => ~InReady(t) /\ ~InWait(t)
                      /\ tskstat[t] = "WAI" => (InReady(t) <=> ~InWait(t))
    BY DEF OnePlace
  <2>1. InReady(t) <=> t \in ReadySet
    <3>1. /\ t \in Thread /\ tskpri[t] \in Pri /\ t # NULL
          /\ Links(ready, ReadySet, tskpri, Pri, Thread)
      BY SchedAssumption DEF IInv, TypeOK, SchedTypeOK, QueueInv, Thread
    <3> QED
      BY <3>1 DEF InReady, Links
  <2>2. InWait(t) <=> t \in WaitSet
    <3>1. /\ t # NULL /\ Sem \subseteq WaitObj
          /\ Links(waitq, WaitSet, wobjid, WaitObj, Task)
          /\ t \in WaitSet => wobjid[t] \in Sem
      BY SchedAssumption, SemAssumption DEF IInv, QueueInv
    <3> QED
      BY SMTT(30), <3>1 DEF InWait, Links
  <2> QED
    BY <2>1, <2>2 DEF ReadySet, WaitSet
<1> QED
  BY <1>1, Invariance, PTL

(* Outside the windows before scheduler() the running task is the first of *)
(* the highest priority, but for tasks released by del_sem().              *)
THEOREM PriorityCorrect == Spec => []InversionOnlyAfterDelete
<1>1. IInv => InversionOnlyAfterDelete
  BY DEF IInv, DispatchInv, InversionOnlyAfterDelete
<1> QED
  BY <1>1, Invariance, PTL

(* wai_sem() tells its caller the truth: E_OK exactly when the semaphore   *)
(* was handed to it.                                                       *)
THEOREM WaitResultCorrect == Spec => ReturnsWhatWasGranted
<1> DEFINE A == \A t \in Task :
                  pc[t] = "wai_sem" /\ pc'[t] = "user" =>
                    ((wobjid[t] = "E_DLT") <=> t \notin granted)
<1>1. IInv /\ [Next]_vars => [A]_vars
  <2> SUFFICES ASSUME IInv, Next, NEW t \in Task, pc[t] = "wai_sem", pc'[t] = "user"
               PROVE  (wobjid[t] = "E_DLT") <=> t \notin granted
    OBVIOUS
  <2>1. wai_sem_end(t)
    <3> USE DEF Running, ThenSchedule, IInv, TypeOK, SchedTypeOK, Thread
    <3>1. \A u \in Task : pc' = [pc EXCEPT ![u] = "user"] /\ pc[u] # "wai_sem"
                           => pc'[t] = pc[t]
      OBVIOUS
    <3>2. ~(SchedStep /\ UNCHANGED <<taskVars, semVars>>)
      BY SMTT(30) DEF SchedStep, evt_tmr_isr, tq_wakeup, evt_timer_exit, CallScheduler,
             schedule_from_int, schedUnchanged
    <3>3. ~(TaskStep /\ UNCHANGED semVars)
      BY SMTT(30) DEF TaskStep, act_tsk, chg_pri, ext_tsk, ext_tsk_end
    <3>4. ASSUME NEW u \in Task, NEW s \in Sem,
                 \/ del_sem(u, s) \/ sig_sem(u, s)
                 \/ wai_sem_ok(u, s) \/ wai_sem(u, s)
          PROVE  FALSE
      BY <3>4 DEF del_sem, sig_sem, wai_sem_ok, wai_sem, WaitSem, schedVars
    <3>5. ASSUME NEW u \in Task, NEW s \in Sem, NEW i \in 0..MaxSem,
                 NEW m \in 0..MaxSem, cre_sem(u, s, i, m)
          PROVE  FALSE
      BY <3>5 DEF cre_sem
    <3>6. ASSUME NEW u \in Task, del_sem_release(u) \/ del_sem_end(u)
          PROVE  FALSE
      BY SMTT(30), <3>6 DEF del_sem_release, del_sem_end
    <3>7. ASSUME NEW s \in Sem, sig_sem_int(s) \/ sig_sem_int_error(s)
          PROVE  FALSE
      BY Zenon, <3>7 DEF sig_sem_int, sig_sem_int_error
    <3>8. PICK u \in Task : wai_sem_end(u)
      BY SMTT(30), <3>2, <3>3, <3>4, <3>5, <3>6, <3>7 DEF Next, SemStep
    <3>9. u = t
      BY SMTT(30), <3>8 DEF wai_sem_end
    <3> QED
      BY <3>8, <3>9
  <2>2. t \in ReadySet /\ t \notin WaitSet
    BY Zenon, <2>1 DEF wai_sem_end, Running, IInv, CpuInv, ReadySet, WaitSet
  <2> QED
    BY <2>2 DEF IInv, GrantInv
<1>2. ReturnsWhatWasGranted <=> [][A]_vars
  BY DEF ReturnsWhatWasGranted
<1> QED
  BY <1>1, <1>2, Invariance, PTL DEF Spec
=============================================================================
