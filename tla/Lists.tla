-------------------------------- MODULE Lists --------------------------------
(***************************************************************************)
(* The lists of 数据结构 whose operations walk along the nodes.  Each is a *)
(* program of its own with one object; class says which of them runs.      *)
(***************************************************************************)
EXTENDS RingList, Integers

CONSTANTS Number,    \* the integers that are added and deleted
          Root,      \* root_ of the skip list
          MaxLevel   \* max_level_

VARIABLES class,   \* the class of the list, "ring", "sorted" or "skip"
          value,   \* the members of each node
          head     \* head_ of the sorted list

Sorted == INSTANCE SortedList
Skip == INSTANCE SkipList

ASSUME ListsAssumption == Sorted!NumberAssumption /\ Skip!SkipAssumption

ringVars == <<tail, printed, order, kept>>

listVars == <<class, live, next, value, head, status, ringVars>>

NoRing == tail = Nil /\ printed = <<>> /\ order = <<>> /\ kept = {}

Start ==
    \/ class = "ring" /\ Init /\ value = <<>> /\ head = Nil
    \/ class = "sorted" /\ Sorted!Init /\ NoRing /\ status = "ok"
    \/ class = "skip" /\ Skip!Init /\ NoRing /\ head = Nil

Step ==
    \/ class = "ring" /\ Next /\ UNCHANGED <<class, value, head>>
    \/ class = "sorted" /\ Sorted!Next /\ UNCHANGED <<class, status, ringVars>>
    \/ class = "skip" /\ Skip!Next /\ UNCHANGED <<class, head, ringVars>>

Programs == Start /\ [][Step]_listVars

-----------------------------------------------------------------------------
\* Every variable of the list that runs keeps its type.
ListTypes ==
    /\ class \in {"ring", "sorted", "skip"}
    /\ class = "ring" => TypeOK
    /\ class = "sorted" => Sorted!TypeOK
    /\ class = "skip" => Skip!TypeOK

\* What dump of the ring prints, and that nothing brings a lost last node
\* back, are PrintsTheList and NothingRepairs of RingList.

\* The walk of the sorted list always ends, in order: see SortedList.
SortedAscends == class = "sorted" => Sorted!Ascends

\* The sorted list stays in order because an insertion that does not become
\* the first node loses everything behind it; nothing else is lost: see
\* SortedList.
SortedByCutting == []SortedAscends /\ [][class = "sorted" => Sorted!Cuts]_listVars

\* The levels of the skip list are lists nested in each other, in which only
\* one value can be deleted: see SkipList.
SkipNested == class = "skip" => Skip!Nested

\* The levels stay so, and an operation that ends well adds a value that was
\* not there or deletes one, and disturbs no other: see SkipList.
SkipExact == []SkipNested /\ [][class = "skip" => Skip!OneValue]_listVars
=============================================================================
