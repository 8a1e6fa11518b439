---------------------------- MODULE QueueProofs ----------------------------
(***************************************************************************)
(* What queue_insert(), queue_extract() and queue_remove() preserve, for   *)
(* every number of queues and nodes.                                       *)
(*                                                                         *)
(* Links says that the pointers of a bank agree with a set mem of linked   *)
(* nodes and the queue own[n] each of them is in.  It is local (it only    *)
(* relates neighbours), so that the kernel's invariants can use it without *)
(* induction over the queues.                                              *)
(***************************************************************************)
EXTENDS Queue, TLAPS

Links(b, mem, own, Index, Node) ==
  /\ \A i \in Index :
       /\ b.head[i] = NULL <=> b.tail[i] = NULL
       /\ b.head[i] # NULL => /\ b.head[i] \in mem /\ own[b.head[i]] = i
                              /\ b.prev[b.head[i]] = NULL
       /\ b.tail[i] # NULL => /\ b.tail[i] \in mem /\ own[b.tail[i]] = i
                              /\ b.next[b.tail[i]] = NULL
  /\ \A n \in Node :
       /\ n \notin mem => b.next[n] = NULL /\ b.prev[n] = NULL
       /\ n \in mem =>
            /\ own[n] \in Index
            /\ b.next[n] = NULL => b.tail[own[n]] = n
            /\ b.prev[n] = NULL => b.head[own[n]] = n
            /\ b.next[n] # NULL => /\ b.next[n] \in mem /\ b.prev[b.next[n]] = n
                                   /\ own[b.next[n]] = own[n]
            /\ b.prev[n] # NULL => /\ b.prev[n] \in mem /\ b.next[b.prev[n]] = n
                                   /\ own[b.prev[n]] = own[n]

----------------------------------------------------------------------------
(* The operations yield a bank.                                            *)

LEMMA BankType ==
  ASSUME NEW Index, NEW Node, NEW b \in Bank(Index, Node), NEW i \in Index
  PROVE  /\ queue_extract(b, i) \in Bank(Index, Node)
         /\ \A p \in Node : /\ queue_insert(b, i, p) \in Bank(Index, Node)
                            /\ queue_remove(b, i, p) \in Bank(Index, Node)
<1>1. queue_extract(b, i) \in Bank(Index, Node)
  BY DEF queue_extract, Bank
<1>2. ASSUME NEW p \in Node PROVE queue_insert(b, i, p) \in Bank(Index, Node)
  BY DEF queue_insert, Bank
<1>3. ASSUME NEW p \in Node PROVE queue_remove(b, i, p) \in Bank(Index, Node)
  BY DEF queue_remove, Bank
<1> QED
  BY <1>1, <1>2, <1>3

----------------------------------------------------------------------------
(* Only the queues of the linked nodes matter.                             *)
LEMMA LinksOwn ==
  ASSUME NEW Index, NEW Node, NEW b, NEW mem, NEW own, NEW own2,
         mem \subseteq Node, Links(b, mem, own, Index, Node),
         \A n \in mem : own2[n] = own[n]
  PROVE  Links(b, mem, own2, Index, Node)
BY DEF Links

(* queue_insert() of an unlinked node adds it to queue i.                  *)
LEMMA InsertLinks ==
  ASSUME NEW Index, NEW Node, NULL \notin Node,
         NEW b \in Bank(Index, Node), NEW mem \in SUBSET Node, NEW own,
         Links(b, mem, own, Index, Node),
         NEW i \in Index, NEW p \in Node, p \notin mem, own[p] = i
  PROVE  Links(queue_insert(b, i, p), mem \cup {p}, own, Index, Node)
BY DEF queue_insert, Bank, Links

(* queue_remove() of a node of queue i takes it out and leaves the others. *)
LEMMA RemoveLinks ==
  ASSUME NEW Index, NEW Node, NULL \notin Node,
         NEW b \in Bank(Index, Node), NEW mem \in SUBSET Node, NEW own,
         Links(b, mem, own, Index, Node),
         NEW p \in mem
  PROVE  Links(queue_remove(b, own[p], p), mem \ {p}, own, Index, Node)
<1> DEFINE i == own[p]
           n == b.next[p]
           q == b.prev[p]
           c == queue_remove(b, i, p)
<1>1. /\ i \in Index /\ p \in Node
      /\ n \in mem \cup {NULL} /\ q \in mem \cup {NULL}
  BY DEF Links, Bank
<1>2. /\ c.head = IF b.head[i] = p THEN [b.head EXCEPT ![i] = n] ELSE b.head
      /\ c.tail = IF b.tail[i] = p THEN [b.tail EXCEPT ![i] = q] ELSE b.tail
      /\ c.next = [x \in Node |-> IF x = p THEN NULL
                                  ELSE IF x = q THEN n ELSE b.next[x]]
      /\ c.prev = [x \in Node |-> IF x = p THEN NULL
                                  ELSE IF x = n THEN q ELSE b.prev[x]]
  BY DEF queue_remove, Bank
<1> HIDE DEF c
<1>3. ASSUME NEW j \in Index
      PROVE  /\ c.head[j] = NULL <=> c.tail[j] = NULL
             /\ c.head[j] # NULL =>
                  /\ c.head[j] \in mem \ {p} /\ own[c.head[j]] = j
                  /\ c.prev[c.head[j]] = NULL
             /\ c.tail[j] # NULL =>
                  /\ c.tail[j] \in mem \ {p} /\ own[c.tail[j]] = j
                  /\ c.next[c.tail[j]] = NULL
  BY <1>1, <1>2 DEF Links, Bank
<1>4. ASSUME NEW m \in Node, m \notin mem \ {p}
      PROVE  c.next[m] = NULL /\ c.prev[m] = NULL
  <2>1. CASE m = p
    BY <2>1, <1>2
  <2>2. CASE m \notin mem
    <3>1. m # p /\ m # n /\ m # q
      BY <2>2, <1>1
    <3>2. b.next[m] = NULL /\ b.prev[m] = NULL
      BY <2>2 DEF Links
    <3> QED
      BY <3>1, <3>2, <1>2
  <2> QED
    BY <1>4, <2>1, <2>2
<1>5. ASSUME NEW m \in mem \ {p}
      PROVE  /\ own[m] \in Index
             /\ c.next[m] = NULL => c.tail[own[m]] = m
             /\ c.prev[m] = NULL => c.head[own[m]] = m
             /\ c.next[m] # NULL =>
                  /\ c.next[m] \in mem \ {p} /\ c.prev[c.next[m]] = m
                  /\ own[c.next[m]] = own[m]
             /\ c.prev[m] # NULL =>
                  /\ c.prev[m] \in mem \ {p} /\ c.next[c.prev[m]] = m
                  /\ own[c.prev[m]] = own[m]
  BY <1>1, <1>2 DEF Links, Bank
<1>6. QED
  BY <1>3, <1>4, <1>5 DEF Links, c

(* queue_extract() takes the head out, if there is one.                    *)
LEMMA ExtractLinks ==
  ASSUME NEW Index, NEW Node, NULL \notin Node,
         NEW b \in Bank(Index, Node), NEW mem \in SUBSET Node, NEW own,
         Links(b, mem, own, Index, Node), NEW i \in Index
  PROVE  Links(queue_extract(b, i), mem \ {b.head[i]}, own, Index, Node)
<1> DEFINE h == b.head[i]
           n == b.next[h]
<1>1. CASE h = NULL
  <2>1. queue_extract(b, i) = b
    BY <1>1 DEF queue_extract, Bank, Links
  <2>2. mem \ {h} = mem
    BY <1>1
  <2> QED
    BY <2>1, <2>2
<1>2. CASE h # NULL
  <2>1. /\ h \in mem /\ h \in Node /\ own[h] = i /\ b.prev[h] = NULL
        /\ n = NULL <=> b.tail[i] = h
        /\ n \in Node \cup {NULL}
    BY <1>2 DEF Links, Bank
  <2>2. queue_extract(b, i) = queue_remove(b, i, h)
    BY <1>2, <2>1 DEF queue_extract, queue_remove, Bank
  <2>3. Links(queue_remove(b, own[h], h), mem \ {h}, own, Index, Node)
    BY <2>1, RemoveLinks
  <2> QED
    BY <2>1, <2>2, <2>3
<1> QED
  BY <1>1, <1>2
=============================================================================
