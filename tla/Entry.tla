------------------------------- MODULE Entry -------------------------------
(***************************************************************************)
(* System calls and reschedule requests on the one vector EVT15, from      *)
(* blackfin/entry.S and interrupts.S.                                      *)
(*                                                                         *)
(* Handlers do not save RETI before their work, so that neither they nor   *)
(* the timer are interrupted: each is one action.  Interrupt 15 does save  *)
(* it and, with SYSCFG_SNEN set in head.S, may nest in itself.  Every task *)
(* has a kernel stack; scheduler() switches to another one.                *)
(***************************************************************************)
EXTENDS Naturals, Sequences

CONSTANTS Task, MaxNest    \* the tasks; bound on the frames of a stack

VARIABLES
  evt15,          \* the code that interrupt 15 will run
  ilat15,         \* interrupt 15 is latched
  need_resched,
  current,
  stack,          \* the interrupt 15 frames on the kernel stack of a task
  call            \* history: what became of the system call of a task

vars == <<evt15, ilat15, need_resched, current, stack, call>>

Vector == {"_system_call", "_schedule_from_int"}

TypeOK ==
  /\ evt15 \in Vector /\ ilat15 \in BOOLEAN /\ need_resched \in BOOLEAN
  /\ current \in Task
  /\ stack \in [Task -> Seq(Vector)]
  /\ call \in [Task -> {"none", "asked", "done"}]

(* Some time after the start: all tasks run user code, and the last to use *)
(* the vector was the exit of an interrupt.                                *)
Init ==
  /\ evt15 = "_schedule_from_int" /\ ilat15 = FALSE /\ need_resched = FALSE
  /\ current \in Task
  /\ stack = [t \in Task |-> << >>]
  /\ call = [t \in Task |-> "none"]

Frame(t) == IF stack[t] = << >> THEN "user" ELSE Head(stack[t])

(* User code traps; the exception handler only installs _system_call and   *)
(* raises interrupt 15.                                                    *)
syscall_prolog(t) ==
  /\ current = t /\ ~ilat15 /\ Frame(t) = "user"
  /\ evt15' = "_system_call"
  /\ ilat15' = TRUE
  /\ call' = [call EXCEPT ![t] = "asked"]
  /\ UNCHANGED <<need_resched, current, stack>>

entering_scheduler_from_int ==
  /\ evt15' = "_schedule_from_int"
  /\ ilat15' = TRUE

(* The timer has a higher priority than interrupt 15.                      *)
evt_timer ==
  /\ entering_scheduler_from_int
  /\ UNCHANGED <<need_resched, current, stack, call>>

(* So has every device; its handler may have asked for a reschedule.       *)
common_interrupt_body(resched) ==
  /\ need_resched' = (need_resched \/ resched)
  /\ IF need_resched' THEN entering_scheduler_from_int ELSE UNCHANGED <<evt15, ilat15>>
  /\ UNCHANGED <<current, stack, call>>

(* Hardware: the latched interrupt is taken.                               *)
TakeInterrupt15 ==
  /\ ilat15 /\ Len(stack[current]) < MaxNest
  /\ ilat15' = FALSE
  /\ stack' = [stack EXCEPT ![current] = <<evt15>> \o @]
  /\ UNCHANGED <<evt15, need_resched, current, call>>

system_call(t) ==
  /\ current = t /\ ~ilat15 /\ Frame(t) = "_system_call" /\ call[t] = "asked"
  /\ call' = [call EXCEPT ![t] = "done"]
  /\ UNCHANGED <<evt15, ilat15, need_resched, current, stack>>

(* scheduler(), called by the service or by _schedule_from_int.            *)
context_switch(t, u) ==
  /\ current = t /\ ~ilat15 /\ Frame(t) # "user" /\ u # t
  /\ Frame(t) = "_system_call" => call[t] = "done"
  /\ current' = u
  /\ need_resched' = FALSE
  /\ UNCHANGED <<evt15, ilat15, stack, call>>

rti(t) ==
  /\ current = t /\ ~ilat15 /\ Frame(t) # "user"
  /\ Frame(t) = "_system_call" => call[t] = "done"
  /\ stack' = [stack EXCEPT ![t] = Tail(@)]
  /\ call' = [call EXCEPT ![t] = IF Frame(t) = "_system_call" THEN "none" ELSE @]
  /\ UNCHANGED <<evt15, ilat15, need_resched, current>>

Next ==
  \/ evt_timer \/ TakeInterrupt15
  \/ \E resched \in BOOLEAN : common_interrupt_body(resched)
  \/ \E t \in Task :
       \/ syscall_prolog(t) \/ system_call(t) \/ rti(t)
       \/ \E u \in Task : context_switch(t, u)

Spec == Init /\ [][Next]_vars

----------------------------------------------------------------------------
(* "r0 - arg1 & retval" (entry.S): when the code of a task goes on after   *)
(* its trap, the call has been executed and r0 holds its result.           *)
SystemCallExecuted ==
  ~ilat15 /\ Frame(current) = "user" => call[current] # "asked"
=============================================================================
