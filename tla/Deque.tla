------------------------------- MODULE Deque -------------------------------
(***************************************************************************)
(* A sequence of values that grows and shrinks at both ends: what the list *)
(* classes of 数据结构 promise their callers.                              *)
(***************************************************************************)
EXTENDS Sequences, Naturals

CONSTANT Value

VARIABLE content

Init == content = <<>>

AddToHead(v) == content' = <<v>> \o content
AddToTail(v) == content' = Append(content, v)
DelFromHead == content # <<>> /\ content' = Tail(content)
DelFromTail == content # <<>> /\ content' = SubSeq(content, 1, Len(content) - 1)

Next ==
    \/ \E v \in Value : AddToHead(v) \/ AddToTail(v)
    \/ DelFromHead \/ DelFromTail

Spec == Init /\ [][Next]_content
=============================================================================
