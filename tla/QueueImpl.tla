----------------------------- MODULE QueueImpl -----------------------------
(***************************************************************************)
(* A bank of queue.h queues under the discipline the kernel follows: an    *)
(* unlinked node may be inserted anywhere, a linked one only be taken out. *)
(* It implements Fifo.                                                     *)
(***************************************************************************)
EXTENDS Queue, FiniteSets

CONSTANTS Index, Node

ASSUME QueueAssumption == NULL \notin Node /\ IsFiniteSet(Node)

VARIABLES bank, out

vars == <<bank, out>>

(* The nodes met from the head of queue i on; a chain longer than the      *)
(* number of nodes would be a cycle and is cut there.                      *)
Chain(i) ==
  LET Follow[k \in 0..Cardinality(Node)] ==
        IF k = 0 THEN << >>
        ELSE LET s == Follow[k-1]
                 n == IF s = << >> THEN bank.head[i] ELSE bank.next[s[Len(s)]]
             IN IF n = NULL \/ Len(s) < k-1 THEN s ELSE Append(s, n)
  IN Follow[Cardinality(Node)]

Chains == [i \in Index |-> Chain(i)]

Init == bank = EmptyBank(Index, Node) /\ out = NULL

Insert(i, n) ==
  /\ \A j \in Index : ~InFifo(Chains, j, n)
  /\ bank' = queue_insert(bank, i, n)
  /\ UNCHANGED out

Extract(i) ==
  /\ bank' = queue_extract(bank, i)
  /\ out' = bank.head[i]

Remove(i, n) ==
  /\ InFifo(Chains, i, n)
  /\ bank' = queue_remove(bank, i, n)
  /\ UNCHANGED out

(* queue_remove() of a node that is in no queue.                           *)
RemoveUnlinked(i, n) ==
  /\ \A j \in Index : ~InFifo(Chains, j, n)
  /\ bank' = queue_remove(bank, i, n)
  /\ UNCHANGED out

Next == \E i \in Index :
          \/ Extract(i)
          \/ \E n \in Node : Insert(i, n) \/ Remove(i, n) \/ RemoveUnlinked(i, n)

Spec == Init /\ [][Next]_vars

(* Heads, tails, next and prev links always describe the same sequences:   *)
(* queue_insert(), queue_extract() and queue_remove() leave no dangling or *)
(* one-way link behind.                                                    *)
LinksAgree ==
  bank \in Bank(Index, Node) /\ Represents(bank, Chains, Index, Node)

F == INSTANCE Fifo WITH fifo <- Chains

(* The pointer operations are the FIFO operations.                         *)
ImplementsFifo == F!Spec
=============================================================================
