----------------------------- MODULE MailboxAbs -----------------------------
(***************************************************************************)
(* What a mailbox promises: messages leave it in the order in which they   *)
(* were sent, unchanged, and a message given directly to a waiting task is *)
(* the one that task receives.                                             *)
(***************************************************************************)
EXTENDS Sequences

CONSTANTS Mbx, Task, Msg, None

VARIABLES
  box,      \* the messages waiting in each mailbox
  inbox     \* the message given to a task that waited, or None

vars == <<box, inbox>>

Init ==
  /\ box = [m \in Mbx |-> << >>]
  /\ inbox = [t \in Task |-> None]

Send(m, d) ==
  /\ box' = [box EXCEPT ![m] = Append(@, d)]
  /\ UNCHANGED inbox

(* Only an empty mailbox can have waiting tasks.                           *)
Give(m, t, d) ==
  /\ box[m] = << >> /\ inbox[t] = None
  /\ inbox' = [inbox EXCEPT ![t] = d]
  /\ UNCHANGED box

Take(t) ==
  /\ inbox[t] # None
  /\ inbox' = [inbox EXCEPT ![t] = None]
  /\ UNCHANGED box

(* The first message is received, or thrown away by a deletion.            *)
Remove(m) ==
  /\ box[m] # << >>
  /\ box' = [box EXCEPT ![m] = Tail(@)]
  /\ UNCHANGED inbox

Next ==
  \/ \E m \in Mbx, d \in Msg : Send(m, d) \/ \E t \in Task : Give(m, t, d)
  \/ \E t \in Task : Take(t)
  \/ \E m \in Mbx : Remove(m)

Spec == Init /\ [][Next]_vars
=============================================================================
