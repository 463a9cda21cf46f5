----------------------------- MODULE SortedList -----------------------------
(***************************************************************************)
(* The class List of 数据结构/singel_linked_list.cpp, a singly linked list *)
(* that is meant to be sorted.  add_node links a node that does not become *)
(* the first one to its predecessor, and to nothing behind it.             *)
(***************************************************************************)
EXTENDS NodeWalks, Integers

CONSTANT Number   \* the integers that are added and deleted

NumberAssumption == Number \subseteq Int /\ Number # {}

VARIABLES live,    \* nodes that are allocated
          value,   \* the members of each node
          next,
          head     \* head_

vars == <<live, value, next, head>>

Init ==
    /\ live = {}
    /\ value = [n \in Address |-> CHOOSE v \in Number : TRUE]
    /\ next = [n \in Address |-> Nil]
    /\ head = Nil

-----------------------------------------------------------------------------
\* Where a loop that went past the nodes of s stands.
Stop(s) == IF s = <<>> THEN head ELSE next[s[Len(s)]]

\* The nodes from head_ on that a loop goes past when it looks for a value
\* in W and ends at the first node that has one, or at null.
Passed(s, W) ==
    /\ s # <<>> => Follows(s, head, next)
    /\ \A i \in 1..Len(s) : value[s[i]] \notin W
    /\ Stop(s) # Nil => value[Stop(s)] \in W

\* Mutant: a node that becomes the first one is not linked to the old first.
AddNodeLosesHead(n, v) ==
    /\ n \in Address \ live
    /\ live' = live \cup {n}
    /\ value' = [value EXCEPT ![n] = v]
    /\ \E s \in Walks \cup {<<>>} :
         /\ Passed(s, {w \in Number : w >= v})
         /\ IF Stop(s) = head
              THEN head' = n /\ next' = [next EXCEPT ![n] = Nil]
              ELSE head' = head /\ next' = [next EXCEPT ![n] = Nil, ![s[Len(s)]] = n]

\* tmp->next = node, and node->next stays null.
add_node(n, v) ==
    /\ n \in Address \ live
    /\ live' = live \cup {n}
    /\ value' = [value EXCEPT ![n] = v]
    /\ \E s \in Walks \cup {<<>>} :
         /\ Passed(s, {w \in Number : w >= v})
         /\ IF Stop(s) = head
              THEN head' = n /\ next' = [next EXCEPT ![n] = head]
              ELSE head' = head /\ next' = [next EXCEPT ![n] = Nil, ![s[Len(s)]] = n]

\* Mutant: the predecessor still leads to the deleted node.
DelNodeLeavesLink(v) ==
    /\ \E s \in Walks \cup {<<>>} :
         /\ Passed(s, {v})
         /\ Stop(s) # Nil
         /\ head' = (IF s = <<>> THEN next[head] ELSE head)
         /\ live' = live \ {Stop(s)}
    /\ UNCHANGED <<value, next>>

del_node(v) ==
    /\ \E s \in Walks \cup {<<>>} :
         /\ Passed(s, {v})
         /\ Stop(s) # Nil
         /\ IF s = <<>>
              THEN head' = next[head] /\ UNCHANGED next
              ELSE next' = [next EXCEPT ![s[Len(s)]] = next[Stop(s)]] /\ UNCHANGED head
         /\ live' = live \ {Stop(s)}
    /\ UNCHANGED value

Next == \E v \in Number : del_node(v) \/ \E n \in Address : add_node(n, v)

Spec == Init /\ [][Next]_vars

-----------------------------------------------------------------------------
TypeOK ==
    /\ live \subseteq Address
    /\ value \in [Address -> Number]
    /\ next \in [Address -> Address \cup {Nil}]
    /\ head \in Address \cup {Nil}

\* What dump prints, if it comes to an end.
IsList(s) == Passed(s, {}) /\ Stop(s) = Nil
List == CHOOSE s \in Walks \cup {<<>>} : IsList(s)

\* dump always ends, meets no deleted node, and prints ascending values.
Ascends ==
    /\ \E s \in Walks \cup {<<>>} : IsList(s)
    /\ NodesOf(List) \subseteq live
    /\ \A i \in 1..Len(List) - 1 : value[List[i]] <= value[List[i + 1]]

\* What the operations make of a list: a node with a value up to that of
\* the first goes before it; any other node is put behind the smaller values
\* and every node behind them is lost, still allocated; a deletion takes out
\* a node and loses none.
Inserted(n, before, after) ==
    \E k \in 0..Len(before) :
        /\ \A i \in 1..Len(before) : value[before[i]] < value'[n] <=> i <= k
        /\ after = IF k = 0 THEN <<n>> \o before ELSE SubSeq(before, 1, k) \o <<n>>
Deleted(n, before, after) ==
    \E k \in 1..Len(before) :
        /\ before[k] = n
        /\ after = SubSeq(before, 1, k - 1) \o SubSeq(before, k + 1, Len(before))

\* An insertion that does not become the first node cuts off everything
\* behind it, which is why the list stays sorted; no other node is ever lost.
Cuts ==
    LET before == List
        after == List'
    IN  /\ \A n \in live' \ live : Inserted(n, before, after)
        /\ \A n \in live \ live' : Deleted(n, before, after)
=============================================================================
