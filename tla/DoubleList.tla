----------------------------- MODULE DoubleList -----------------------------
(***************************************************************************)
(* The class DoubleList of 数据结构/double_linked_list.cpp: nodes on a     *)
(* heap, linked both ways, with a pointer to the first and to the last.    *)
(* The two dumps after each operation only read the list.                  *)
(***************************************************************************)
EXTENDS Sequences, Naturals

CONSTANTS Node,   \* addresses new may return
          Value, Null

ASSUME NullAssumption == Null \notin Node

VARIABLES live,   \* nodes that are allocated
          value, pre, next,   \* the members of each node
          head, tail,         \* head_ and tail_
          order   \* history: the nodes in the order the callers expect

vars == <<live, value, pre, next, head, tail, order>>

Init ==
    /\ live = {}
    /\ value \in [Node -> Value]
    /\ pre = [n \in Node |-> Null]
    /\ next = [n \in Node |-> Null]
    /\ head = Null /\ tail = Null
    /\ order = <<>>

-----------------------------------------------------------------------------
\* Mutant: the constructor forgets the value.
NewUnset(n, v) ==
    /\ n \in Node \ live
    /\ live' = live \cup {n}
    /\ value' = [value EXCEPT ![n] = Null]

\* new Node(v) at address n, linked to p and q before it becomes reachable.
New(n, v) ==
    /\ n \in Node \ live
    /\ live' = live \cup {n}
    /\ value' = [value EXCEPT ![n] = v]

\* The list is empty: head_ = tail_ = node.
AddFirst(n) ==
    /\ head' = n /\ tail' = n
    /\ pre' = [pre EXCEPT ![n] = Null]
    /\ next' = [next EXCEPT ![n] = Null]

\* Mutant: the old head is not linked back.
AddToHeadOneWay(n, v) ==
    /\ New(n, v)
    /\ IF head = Null
         THEN AddFirst(n)
         ELSE /\ next' = [next EXCEPT ![n] = head]
              /\ pre' = [pre EXCEPT ![n] = Null]
              /\ head' = n
              /\ tail' = tail
    /\ order' = <<n>> \o order

add_to_head(n, v) ==
    /\ New(n, v)
    /\ IF head = Null
         THEN AddFirst(n)
         ELSE /\ next' = [next EXCEPT ![n] = head]
              /\ pre' = [pre EXCEPT ![n] = Null, ![head] = n]
              /\ head' = n
              /\ tail' = tail
    /\ order' = <<n>> \o order

add_to_tail(n, v) ==
    /\ New(n, v)
    /\ IF tail = Null
         THEN AddFirst(n)
         ELSE /\ next' = [next EXCEPT ![n] = Null, ![tail] = n]
              /\ pre' = [pre EXCEPT ![n] = tail]
              /\ tail' = n
              /\ head' = head
    /\ order' = Append(order, n)

\* The only node is deleted: head_ = tail_ = nullptr.
DelOnly ==
    /\ head = tail
    /\ head' = Null /\ tail' = Null
    /\ UNCHANGED <<pre, next>>

\* Mutant: the node is unlinked and not deleted.
DelFromHeadLeaks ==
    /\ head # Null
    /\ \/ DelOnly
       \/ /\ head # tail
          /\ head' = next[head]
          /\ pre' = [pre EXCEPT ![next[head]] = Null]
          /\ UNCHANGED <<tail, next>>
    /\ order' = Tail(order)
    /\ UNCHANGED <<live, value>>

del_from_head ==
    /\ head # Null
    /\ \/ DelOnly
       \/ /\ head # tail
          /\ head' = next[head]
          /\ pre' = [pre EXCEPT ![next[head]] = Null]
          /\ UNCHANGED <<tail, next>>
    /\ live' = live \ {head}
    /\ order' = Tail(order)
    /\ UNCHANGED value

del_from_tail ==
    /\ tail # Null
    /\ \/ DelOnly
       \/ /\ head # tail
          /\ tail' = pre[tail]
          /\ next' = [next EXCEPT ![pre[tail]] = Null]
          /\ UNCHANGED <<head, pre>>
    /\ live' = live \ {tail}
    /\ order' = SubSeq(order, 1, Len(order) - 1)
    /\ UNCHANGED value

Next ==
    \/ \E n \in Node, v \in Value : add_to_head(n, v) \/ add_to_tail(n, v)
    \/ del_from_head \/ del_from_tail

Spec == Init /\ [][Next]_vars

-----------------------------------------------------------------------------
TypeOK ==
    /\ live \in SUBSET Node
    /\ value \in [Node -> Value]
    /\ pre \in [Node -> Node \cup {Null}]
    /\ next \in [Node -> Node \cup {Null}]
    /\ head \in Node \cup {Null}
    /\ tail \in Node \cup {Null}
    /\ order \in Seq(Node)

\* Both chains of pointers list the nodes in the expected order: dump_vor
\* visits order[1], order[2], ... and stops at the null after the last one,
\* dump_bak visits the same nodes backwards.
Linked ==
    LET len == Len(order) IN
    /\ head = IF len = 0 THEN Null ELSE order[1]
    /\ tail = IF len = 0 THEN Null ELSE order[len]
    /\ \A i \in 1..len :
         /\ next[order[i]] = IF i = len THEN Null ELSE order[i + 1]
         /\ pre[order[i]] = IF i = 1 THEN Null ELSE order[i - 1]

\* Every allocated node is in the list exactly once and nothing else is: no
\* node leaks, and no pointer that is followed leads to a deleted node.
NoLeakNoDangling ==
    /\ live = {order[i] : i \in 1..Len(order)}
    /\ \A i, j \in 1..Len(order) : order[i] = order[j] => i = j

\* What the callers see is a sequence that changes at its two ends.
Content == [i \in 1..Len(order) |-> value[order[i]]]
Abstract == INSTANCE Deque WITH content <- Content
IsDeque == Abstract!Spec
=============================================================================
