------------------------------- MODULE Queue -------------------------------
(***************************************************************************)
(* The intrusive lists of core/include/queue.h and linked_list.h.          *)
(*                                                                         *)
(* The kernel never owns one queue alone: the 32 ready queues share the    *)
(* rdyque links of the tasks, and all wait queues share their synque       *)
(* links.  A "bank" is such a family of queues: a head and a tail pointer  *)
(* per index, and one next and one prev link per node.                     *)
(* The operators are the C functions, pointer for pointer, so that they    *)
(* also say what happens when a node that is already linked is inserted.   *)
(***************************************************************************)
EXTENDS Naturals, Sequences

CONSTANT NULL

Bank(Index, Node) ==
  [head : [Index -> Node \cup {NULL}], tail : [Index -> Node \cup {NULL}],
   next : [Node -> Node \cup {NULL}],  prev : [Node -> Node \cup {NULL}]]

EmptyBank(Index, Node) ==
  [head |-> [i \in Index |-> NULL], tail |-> [i \in Index |-> NULL],
   next |-> [n \in Node |-> NULL],  prev |-> [n \in Node |-> NULL]]

queue_is_empty(b, i) == b.head[i] = NULL

(* Wrong variant: the prev link is forgotten.                              *)
queue_insert_noprev(b, i, p) ==
  LET t == b.tail[i] IN
    [head |-> IF b.head[i] = NULL THEN [b.head EXCEPT ![i] = p] ELSE b.head,
     tail |-> [b.tail EXCEPT ![i] = p],
     next |-> IF t # NULL THEN [b.next EXCEPT ![t] = p] ELSE b.next,
     prev |-> b.prev]

(* Wrong variant: the node goes to the front.                              *)
queue_insert_front(b, i, p) ==
  LET h == b.head[i] IN
    [head |-> [b.head EXCEPT ![i] = p],
     tail |-> IF b.tail[i] = NULL THEN [b.tail EXCEPT ![i] = p] ELSE b.tail,
     next |-> [b.next EXCEPT ![p] = h],
     prev |-> IF h # NULL THEN [b.prev EXCEPT ![h] = p] ELSE b.prev]

(* Appends p: the old tail points to p, whose own next link is left alone. *)
queue_insert(b, i, p) ==
  LET t == b.tail[i] IN
    [head |-> IF b.head[i] = NULL THEN [b.head EXCEPT ![i] = p] ELSE b.head,
     tail |-> [b.tail EXCEPT ![i] = p],
     next |-> IF t # NULL THEN [b.next EXCEPT ![t] = p] ELSE b.next,
     prev |-> [b.prev EXCEPT ![p] = t]]

(* Unlinks the head; the caller reads b.head[i] to know which node it was. *)
queue_extract(b, i) ==
  LET h == b.head[i]
      n == b.next[h]
  IN IF h = NULL
     THEN [b EXCEPT !.tail[i] = NULL]
     ELSE [head |-> [b.head EXCEPT ![i] = n],
           tail |-> IF n = NULL THEN [b.tail EXCEPT ![i] = NULL] ELSE b.tail,
           next |-> [b.next EXCEPT ![h] = NULL],
           prev |-> [x \in DOMAIN b.prev |->
                       IF x \in {h, n} THEN NULL ELSE b.prev[x]]]

(* Unlinks p, wherever it is, on the assumption that it is in queue i.     *)
queue_remove(b, i, p) ==
  LET n == b.next[p]
      q == b.prev[p]
  IN [head |-> IF b.head[i] = p THEN [b.head EXCEPT ![i] = n] ELSE b.head,
      tail |-> IF b.tail[i] = p THEN [b.tail EXCEPT ![i] = q] ELSE b.tail,
      next |-> [x \in DOMAIN b.next |->
                  IF x = p THEN NULL ELSE IF x = q THEN n ELSE b.next[x]],
      prev |-> [x \in DOMAIN b.prev |->
                  IF x = p THEN NULL ELSE IF x = n THEN q ELSE b.prev[x]]]

----------------------------------------------------------------------------
(* What a bank stands for: one sequence of nodes per index.                *)

Fifos(Index, Node) == [Index -> Seq(Node)]

InFifo(s, i, n) == \E k \in 1..Len(s[i]) : s[i][k] = n

(* Bank b is exactly the family of sequences s: heads, tails and links     *)
(* agree, no node occurs twice, and a node in no sequence is unlinked.     *)
Represents(b, s, Index, Node) ==
  /\ \A i \in Index :
       /\ b.head[i] = IF s[i] = << >> THEN NULL ELSE s[i][1]
       /\ b.tail[i] = IF s[i] = << >> THEN NULL ELSE s[i][Len(s[i])]
       /\ \A k \in 1..Len(s[i]) :
            /\ b.next[s[i][k]] = IF k = Len(s[i]) THEN NULL ELSE s[i][k+1]
            /\ b.prev[s[i][k]] = IF k = 1 THEN NULL ELSE s[i][k-1]
  /\ \A i, j \in Index : \A k \in 1..Len(s[i]), l \in 1..Len(s[j]) :
       s[i][k] = s[j][l] => i = j /\ k = l
  /\ \A n \in Node :
       (\A i \in Index : ~InFifo(s, i, n)) =>
         b.next[n] = NULL /\ b.prev[n] = NULL

(* The sequence without its k-th element.                                  *)
Without(q, k) == [m \in 1..(Len(q)-1) |-> IF m < k THEN q[m] ELSE q[m+1]]
=============================================================================
