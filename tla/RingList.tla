------------------------------ MODULE RingList ------------------------------
(***************************************************************************)
(* The class RingList of 数据结构/ring_linked_list.cpp: a circular list    *)
(* known by its last node, whose next is the first.  Every operation ends  *)
(* in dump_3_times, which walks the ring: the walk is part of the          *)
(* operation, since it may never end or read what was deleted.             *)
(***************************************************************************)
EXTENDS NodeWalks

VARIABLES live,     \* nodes that are allocated
          next,     \* the member next of each node
          tail,     \* tail_
          printed,  \* the nodes dump printed last
          status,   \* "ok", or how the program came to its end
          order,    \* history: the nodes in the order the callers expect
          kept      \* history: nodes taken off the list and not deleted

vars == <<live, next, tail, printed, status, order, kept>>

Init ==
    /\ live = {} /\ kept = {}
    /\ next = [n \in Address |-> Nil]
    /\ tail = Nil
    /\ printed = <<>> /\ order = <<>>
    /\ status = "ok"

-----------------------------------------------------------------------------
\* s leads from the first node once round, through allocated nodes.
Round(s, t, nx, lv) ==
    /\ Follows(s, nx[t], nx)
    /\ nx[s[Len(s)]] = s[1]
    /\ \A i \in 1..Len(s) : s[i] \in lv /\ (s[i] = s[1] => i = 1)

\* dump prints the nodes up to the one that leads back to the first.  It
\* dereferences a null tail_, may come to a deleted node, or goes round a
\* ring the first node is not on.
dump(t, nx, lv) ==
    LET deleted(s) == Follows(s, nx[t], nx) /\ s[Len(s)] \notin lv IN
    \/ /\ t = Nil
       /\ status' = "crashed" /\ UNCHANGED printed
    \/ /\ t # Nil
       /\ \E s \in Walks : Round(s, t, nx, lv) /\ printed' = s
       /\ status' = "ok"
    \/ /\ t # Nil
       /\ \A s \in Walks : ~Round(s, t, nx, lv)
       /\ status' = IF \E s \in Walks : deleted(s) THEN "undefined" ELSE "loops"
       /\ UNCHANGED printed

-----------------------------------------------------------------------------
New(n) == n \in Address \ live /\ live' = live \cup {n}

\* The list is empty: the node is linked to itself.
AddFirst(n) == tail' = n /\ next' = [next EXCEPT ![n] = n]

\* Mutant: the last node still leads to the old first one.
AddToHeadUnlinked(n) ==
    /\ status = "ok" /\ New(n)
    /\ IF tail = Nil THEN AddFirst(n)
       ELSE /\ next' = [next EXCEPT ![n] = next[tail]]
            /\ tail' = tail
    /\ order' = <<n>> \o order
    /\ dump(tail', next', live')
    /\ UNCHANGED kept

add_to_head(n) ==
    /\ status = "ok" /\ New(n)
    /\ IF tail = Nil THEN AddFirst(n)
       ELSE /\ next' = [next EXCEPT ![n] = next[tail], ![tail] = n]
            /\ tail' = tail
    /\ order' = <<n>> \o order
    /\ dump(tail', next', live')
    /\ UNCHANGED kept

\* The old last node is not linked to the new one.
add_to_tail(n) ==
    /\ status = "ok" /\ New(n)
    /\ IF tail = Nil THEN AddFirst(n)
       ELSE /\ next' = [next EXCEPT ![n] = next[tail]]
            /\ tail' = n
    /\ order' = Append(order, n)
    /\ dump(tail', next', live')
    /\ UNCHANGED kept

\* The only node is deleted.
DelOnly ==
    /\ next[tail] = tail
    /\ live' = live \ {tail}
    /\ tail' = Nil
    /\ UNCHANGED <<next, kept>>
    /\ dump(tail', next', live')

del_from_head ==
    /\ status = "ok" /\ tail # Nil
    /\ \/ DelOnly
       \/ /\ next[tail] # tail
          /\ live' = live \ {next[tail]}
          /\ next' = [next EXCEPT ![tail] = next[next[tail]]]
          /\ UNCHANGED <<tail, kept>>
          /\ dump(tail', next', live')
    /\ order' = Tail(order)

\* The walk of del_from_tail to the node before the last one.
BeforeTail == {s[Len(s)] : s \in {w \in Walks : Follows(w, next[tail], next) /\ next[w[Len(w)]] = tail}}

\* Mutant: the walk is ended by the first node instead of the last.
DelFromTailRoundOnce ==
    /\ status = "ok" /\ tail # Nil
    /\ \/ DelOnly
       \/ /\ next[tail] # tail
          /\ \E end \in Address : next[end] = next[tail] /\ end # tail /\ tail' = end
          /\ next' = [next EXCEPT ![tail'] = next[tail]]
          /\ kept' = kept \cup {tail}
          /\ UNCHANGED live
          /\ dump(tail', next', live')
    /\ order' = SubSeq(order, 1, Len(order) - 1)

\* The last node is unlinked and never deleted.
del_from_tail ==
    /\ status = "ok" /\ tail # Nil
    /\ \/ DelOnly
       \/ /\ next[tail] # tail
          /\ \E end \in BeforeTail : tail' = end /\ next' = [next EXCEPT ![end] = next[tail]]
          /\ kept' = kept \cup {tail}
          /\ UNCHANGED live
          /\ dump(tail', next', live')
       \/ /\ next[tail] # tail
          /\ BeforeTail = {}
          /\ status' = "loops"
          /\ UNCHANGED <<live, next, tail, printed, kept>>
    /\ order' = SubSeq(order, 1, Len(order) - 1)

Next ==
    \/ \E n \in Address : add_to_head(n) \/ add_to_tail(n)
    \/ del_from_head \/ del_from_tail

Spec == Init /\ [][Next]_vars

-----------------------------------------------------------------------------
TypeOK ==
    /\ live \subseteq Address /\ kept \subseteq live
    /\ next \in [Address -> Address \cup {Nil}]
    /\ tail \in Address \cup {Nil}
    /\ printed \in Seq(Address) /\ order \in Seq(Address)
    /\ status \in {"ok", "crashed", "undefined", "loops"}

\* The last node is not on the ring that is printed.
Detached == tail # Nil /\ tail \notin NodesOf(printed)

\* As long as add_to_tail has met no list with a node in it, dump prints the
\* list the callers expect, from its first to its last node, and the nodes
\* that are allocated are those and what del_from_tail left behind.
PrintsTheList ==
    status = "ok" /\ tail # Nil /\ ~Detached =>
        /\ printed = order
        /\ tail = order[Len(order)]
        /\ live = NodesOf(order) \cup kept

\* Once the last node is off the ring no operation brings it back: another
\* add_to_tail leaves the ring as it is, and after anything else dump, or the
\* walk of del_from_tail, never ends or reads a deleted node.
NothingRepairs ==
    [][status = "ok" /\ Detached =>
          \/ status' = "ok" /\ Detached' /\ printed' = printed
          \/ status' \in {"loops", "undefined"}]_vars
=============================================================================
