------------------------------ MODULE NodeWalks ------------------------------
(***************************************************************************)
(* Walks along a pointer, as the loops over the nodes of a list in         *)
(* 数据结构 make them.                                                     *)
(***************************************************************************)
EXTENDS Naturals, Sequences, FiniteSets

CONSTANTS Address,   \* what new may return
          Nil        \* nullptr

ASSUME AddressAssumption == IsFiniteSet(Address) /\ Nil \notin Address

\* A walk that comes to an end is at no node twice.
Walks == UNION {[1..k -> Address] : k \in 1..Cardinality(Address)}

\* s starts at the node first and follows nx.
Follows(s, first, nx) ==
    /\ s[1] = first
    /\ \A i \in 1..Len(s) - 1 : s[i + 1] = nx[s[i]]

NodesOf(s) == {s[i] : i \in 1..Len(s)}
=============================================================================
