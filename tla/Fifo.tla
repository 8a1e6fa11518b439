-------------------------------- MODULE Fifo --------------------------------
(***************************************************************************)
(* What the kernel expects of its queues: a family of FIFO sequences in    *)
(* which a node occurs at most once, with removal from any position.       *)
(***************************************************************************)
EXTENDS Naturals, Sequences

CONSTANTS Index, Node, NULL

VARIABLES
  fifo,    \* one sequence per queue
  out      \* the result of the last queue_extract()

Queued(n) == \E i \in Index : \E k \in 1..Len(fifo[i]) : fifo[i][k] = n

Init == fifo = [i \in Index |-> << >>] /\ out = NULL

Insert(i, n) ==
  /\ ~Queued(n)
  /\ fifo' = [fifo EXCEPT ![i] = Append(@, n)]
  /\ UNCHANGED out

Extract(i) ==
  \/ /\ fifo[i] = << >>
     /\ out' = NULL
     /\ UNCHANGED fifo
  \/ /\ fifo[i] # << >>
     /\ out' = Head(fifo[i])
     /\ fifo' = [fifo EXCEPT ![i] = Tail(@)]

(* Every other node keeps its place in the order.                          *)
Remove(i, n) ==
  /\ \E k \in 1..Len(fifo[i]) : fifo[i][k] = n
  /\ fifo' = [fifo EXCEPT ![i] = SelectSeq(@, LAMBDA m : m # n)]
  /\ UNCHANGED out

Next == \E i \in Index :
          \/ Extract(i)
          \/ \E n \in Node : Insert(i, n) \/ Remove(i, n)

Spec == Init /\ [][Next]_<<fifo, out>>
=============================================================================
