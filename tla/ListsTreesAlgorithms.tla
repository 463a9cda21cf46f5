------------------------ MODULE ListsTreesAlgorithms ------------------------
(***************************************************************************)
(* The sequential programs of 数据结构 whose operations walk along nodes,  *)
(* and the functions of Algorithms: a behaviour is a run of one list or of *)
(* one tree, of which class is the class, or calls of the functions.       *)
(***************************************************************************)
EXTENDS Lists, TLC

CONSTANTS Key,   \* the integers that are inserted into a tree
          MaxCount, MaxText, MaxAmount, MaxNumber, MaxSize, MaxOperators

VARIABLES root, keys,               \* of a tree
          call, args, ret, static   \* of the functions

Tree == INSTANCE Trees
Algorithm == INSTANCE Algorithms

ASSUME KeyAssumption == Tree!KeyAssumption
ASSUME BoundsAssumption == Algorithm!BoundsAssumption

treeVars == <<root, keys>>
callVars == <<call, args, ret, static>>
programVars == <<listVars, treeVars, callVars>>

NoList == live = {} /\ next = <<>> /\ value = <<>> /\ head = Nil /\ status = "ok" /\ NoRing
NoTree == root = Tree!Null /\ keys = {}

StartAny ==
    /\ Algorithm!Init
    /\ \/ Start /\ NoTree
       \/ Tree!Init /\ NoList
       \/ class = "none" /\ NoList /\ NoTree

StepAny ==
    \/ Step /\ UNCHANGED <<treeVars, callVars>>
    \/ class \in {"binary", "balance"} /\ Tree!Next /\ UNCHANGED <<listVars, callVars>>
    \/ class = "none" /\ Algorithm!Next /\ UNCHANGED <<listVars, treeVars>>

AnyProgram == StartAny /\ [][StepAny]_programVars

\* Nothing compares the addresses of nodes.
AddressSymmetry == Permutations(Address)

-----------------------------------------------------------------------------
\* The properties of the lists are those of RingList and Lists.

\* Every insertion and rotation leaves a tree of the inserted keys in which
\* search, min and max find them; BalanceTree stays balanced, and is_balance
\* can tell: see Trees.
TreeExact == class \in {"binary", "balance"} => Tree!TreeExact /\ Tree!BalanceKept

\* The traversals with a stack print what the recursive ones print: see Trees.
StackTraversals == class \in {"binary", "balance"} => Tree!StackTraversals

\* Each table and each recursion finds the optimum it is written for, whatever
\* an earlier call has left in it: see Algorithms.
OptimaExact == Algorithm!OptimaExact

\* The searches with undo and binary search find every solution: see Algorithms.
SearchesExact == Algorithm!SearchesExact

\* The calculator applies its operators in the right order: see Algorithms.
CalculatorExact == Algorithm!CalculatorExact
=============================================================================
