-------------------------------- MODULE Trees --------------------------------
(***************************************************************************)
(* 数据结构/tree.cpp: the search tree BinaryTree, the height-balanced      *)
(* BalanceTree, and the traversals with and without recursion.  A node is  *)
(* <<value, left, right>>, nullptr is <<>>: no node has two parents, so a  *)
(* tree is a value, and a function that relinks nodes returns the new one. *)
(* A run uses one of the two classes, and inserts keys in any order.       *)
(***************************************************************************)
EXTENDS Integers, SequencesExt, FiniteSetsExt

CONSTANT Key   \* the integers that are inserted

KeyAssumption == Key \subseteq Int

VARIABLES class,  \* the class of the tree, "binary" or "balance"
          root,   \* root_
          keys    \* history: the values inserted so far

vars == <<class, root, keys>>

Null == <<>>

Node(v, l, r) == <<v, l, r>>
Value(n) == n[1]
Left(n) == n[2]
Right(n) == n[3]

Larger(a, b) == IF a > b THEN a ELSE b

-----------------------------------------------------------------------------
RECURSIVE tree_deepth(_)
tree_deepth(n) ==
    IF n = Null THEN 0
    ELSE Larger(tree_deepth(Left(n)), tree_deepth(Right(n))) + 1

LowSlope(n) == tree_deepth(Left(n)) - tree_deepth(Right(n)) \in {-1, 0, 1}

RECURSIVE is_balance(_)
is_balance(n) ==
    n = Null \/ (is_balance(Left(n)) /\ is_balance(Right(n)) /\ LowSlope(n))

RECURSIVE preorder(_), inorder(_), postorder(_)
preorder(n) == IF n = Null THEN <<>> ELSE <<Value(n)>> \o preorder(Left(n)) \o preorder(Right(n))
inorder(n) == IF n = Null THEN <<>> ELSE inorder(Left(n)) \o <<Value(n)>> \o inorder(Right(n))
postorder(n) == IF n = Null THEN <<>> ELSE postorder(Left(n)) \o postorder(Right(n)) \o <<Value(n)>>

\* One round of the three loops: node is pushed, and the loop goes on to its
\* left, or else pops a node.
Pushed(node, stack) == IF node = Null THEN stack ELSE Append(stack, node)
GoesLeft(node) == node # Null /\ Left(node) # Null
Done(node, stack) == node = Null /\ stack = <<>>

RECURSIVE preorder_stack(_, _, _)
preorder_stack(node, stack, out) ==
    LET s == Pushed(node, stack)
        o == IF node = Null THEN out ELSE Append(out, Value(node))
    IN  CASE Done(node, stack) -> out
          [] GoesLeft(node) -> preorder_stack(Left(node), s, o)
          [] OTHER -> preorder_stack(Right(Last(s)), Front(s), o)

RECURSIVE inorder_stack(_, _, _)
inorder_stack(node, stack, out) ==
    LET s == Pushed(node, stack)
    IN  CASE Done(node, stack) -> out
          [] GoesLeft(node) -> inorder_stack(Left(node), s, out)
          [] OTHER -> inorder_stack(Right(Last(s)), Front(s), Append(out, Value(Last(s))))

\* Mutant: one saved node is printed, those above it are forgotten.
DelayedOnce(back, mark, saved, out) ==
    IF back \notin mark THEN [mark |-> mark, saved |-> saved, out |-> out]
    ELSE [mark |-> mark \ {back}, saved |-> Front(saved), out |-> Append(out, Value(Last(saved)))]

\* A node that was printed and is marked is the last of a right subtree, whose
\* parent was saved and is printed now.
RECURSIVE Delayed(_, _, _, _)
Delayed(back, mark, saved, out) ==
    IF back \notin mark THEN [mark |-> mark, saved |-> saved, out |-> out]
    ELSE Delayed(Last(saved), mark \ {back}, Front(saved), Append(out, Value(Last(saved))))

RECURSIVE postorder_stack(_, _, _, _, _)
postorder_stack(node, stack, mark, saved, out) ==
    LET s == Pushed(node, stack)
        back == Last(s)
        printed == Delayed(back, mark, saved, Append(out, Value(back)))
    IN  CASE Done(node, stack) -> out
          [] GoesLeft(node) -> postorder_stack(Left(node), s, mark, saved, out)
          [] Right(back) # Null ->
               postorder_stack(Right(back), Front(s), mark \cup {Right(back)}, Append(saved, back), out)
          [] OTHER -> postorder_stack(Null, Front(s), printed.mark, printed.saved, printed.out)

-----------------------------------------------------------------------------
RECURSIVE search(_, _)
search(n, v) ==
    CASE n = Null \/ Value(n) = v -> n
      [] Value(n) > v -> search(Left(n), v)
      [] OTHER -> search(Right(n), v)

\* The value of the node reached; min of an empty tree is undefined.
RECURSIVE min(_), max(_)
min(n) == IF Left(n) = Null THEN Value(n) ELSE min(Left(n))
max(n) == IF Right(n) = Null THEN Value(n) ELSE max(Right(n))

RECURSIVE insert_node(_, _)
insert_node(n, v) ==
    CASE n = Null -> Node(v, Null, Null)
      [] Value(n) > v -> Node(Value(n), insert_node(Left(n), v), Right(n))
      [] OTHER -> Node(Value(n), Left(n), insert_node(Right(n), v))

\* Mutant: the subtree between the two nodes is lost.
RightRotationLoses(n) ==
    LET l == Left(n) IN Node(Value(l), Left(l), Node(Value(n), Null, Right(n)))

right_rotation(n) ==
    LET l == Left(n) IN Node(Value(l), Left(l), Node(Value(n), Right(l), Right(n)))

left_rotation(n) ==
    LET r == Right(n) IN Node(Value(r), Node(Value(n), Left(n), Left(r)), Right(r))

\* Mutant: the son is not rotated first.
SingleRotation(n) == right_rotation(n)

right_left_rotation(n) == right_rotation(Node(Value(n), left_rotation(Left(n)), Right(n)))
left_right_rotation(n) == left_rotation(Node(Value(n), Left(n), right_rotation(Right(n))))

\* The part after the recursive call: v was inserted below n.
Rebalance(n, v) ==
    LET sub == tree_deepth(Left(n)) - tree_deepth(Right(n))
    IN  CASE sub > 1 /\ Value(Left(n)) > v -> right_rotation(n)
          [] sub > 1 /\ Value(Left(n)) < v -> right_left_rotation(n)
          [] sub < -1 /\ Value(Right(n)) < v -> left_rotation(n)
          [] sub < -1 /\ Value(Right(n)) > v -> left_right_rotation(n)
          [] OTHER -> n

RECURSIVE balance_insert(_, _)
balance_insert(n, v) ==
    CASE n = Null -> Node(v, Null, Null)
      [] Value(n) > v -> Rebalance(Node(Value(n), balance_insert(Left(n), v), Right(n)), v)
      [] OTHER -> Rebalance(Node(Value(n), Left(n), balance_insert(Right(n), v)), v)

-----------------------------------------------------------------------------
Init ==
    /\ class \in {"binary", "balance"}
    /\ root = Null
    /\ keys = {}

\* The way down ends at a node with this value: an exception is thrown before
\* anything is linked.
Exists(v) ==
    /\ search(root, v) # Null
    /\ UNCHANGED vars

BinaryTree_insert(v) ==
    /\ class = "binary" /\ search(root, v) = Null
    /\ root' = insert_node(root, v)
    /\ keys' = keys \cup {v}
    /\ UNCHANGED class

BalanceTree_insert(v) ==
    /\ class = "balance" /\ search(root, v) = Null
    /\ root' = balance_insert(root, v)
    /\ keys' = keys \cup {v}
    /\ UNCHANGED class

Next == \E v \in Key : Exists(v) \/ BinaryTree_insert(v) \/ BalanceTree_insert(v)

Spec == Init /\ [][Next]_vars

-----------------------------------------------------------------------------
RECURSIVE Subtrees(_)
Subtrees(n) == IF n = Null THEN {} ELSE {n} \cup Subtrees(Left(n)) \cup Subtrees(Right(n))

\* The class never changes kind, and every node of the tree holds an inserted
\* value.
TypeOK ==
    /\ class \in {"binary", "balance"}
    /\ keys \subseteq Key
    /\ \A n \in Subtrees(root) : Len(n) = 3 /\ Value(n) \in Key

\* However keys are inserted and nodes rotated, each key is in the tree once,
\* smaller ones to its left and larger ones to its right.
Ordered == inorder(root) = SetToSortSeq(keys, LAMBDA a, b : a < b)

\* search of BinaryTree finds exactly the inserted keys, whatever the order
\* they came in, and min and max are the ends of the order.
SearchExact ==
    class = "binary" =>
    /\ \A v \in Key : search(root, v) # Null <=> v \in keys
    /\ keys # {} => \A v \in keys : min(root) <= v /\ v <= max(root)

\* No sequence of insertions or rotations loses a key, keeps one twice, or
\* puts one where search, min and max would miss it.
TreeExact == TypeOK /\ Ordered /\ SearchExact

\* The lengths of the paths from a node down to a missing son.
RECURSIVE Paths(_)
Paths(n) == IF n = Null THEN {0} ELSE {p + 1 : p \in Paths(Left(n)) \cup Paths(Right(n))}
Longest(n) == CHOOSE p \in Paths(n) : \A q \in Paths(n) : q <= p
Slopes == {Longest(Left(n)) - Longest(Right(n)) : n \in Subtrees(root)}

\* No sequence of insertions takes BalanceTree out of balance: below every
\* node the longest paths on its two sides differ by at most one.
Balanced == class = "balance" => Slopes \subseteq {-1, 0, 1}

\* is_balance says so of exactly the trees that are balanced at every node.
IsBalanceExact == is_balance(root) <=> Slopes \subseteq {-1, 0, 1}

\* BalanceTree stays balanced, and is_balance can tell either tree.
BalanceKept == Balanced /\ IsBalanceExact

\* The loops with a stack print the nodes in the order of the recursive
\* traversals; postorder_stack has to delay a node until its right subtree is
\* printed, several of them at once when right subtrees end together.
StackTraversals ==
    /\ preorder_stack(root, <<>>, <<>>) = preorder(root)
    /\ inorder_stack(root, <<>>, <<>>) = inorder(root)
    /\ postorder_stack(root, <<>>, {}, <<>>, <<>>) = postorder(root)
=============================================================================
