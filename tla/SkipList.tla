------------------------------ MODULE SkipList ------------------------------
(***************************************************************************)
(* The class SkipList of 数据结构/skip_linked_list.cpp.  add_node takes the *)
(* number of levels choose_level draws for the index of the highest one: a *)
(* node gets a level more than was drawn, and a draw from the top of the   *)
(* range leads past the array.  del_node deletes what it finds next to     *)
(* where it stands, after it has gone down.                                *)
(***************************************************************************)
EXTENDS NodeWalks, Integers

CONSTANTS Number,    \* the integers that are added and deleted
          Root,      \* root_
          MaxLevel   \* max_level_

SkipAssumption ==
    /\ Number \subseteq Int /\ Number # {}
    /\ Root \notin Address \cup {Nil}
    /\ MaxLevel \in Nat /\ MaxLevel >= 2

VARIABLES live,    \* nodes that are allocated
          value,   \* the members of each node, and of root_
          next,
          status   \* "ok", or how the program came to its end

vars == <<live, value, next, status>>

Levels == 0..MaxLevel - 1

NullLevels == [i \in Levels |-> Nil]

Init ==
    /\ live = {}
    /\ value = [n \in Address \cup {Root} |-> CHOOSE v \in Number : TRUE]
    /\ next = [n \in Address \cup {Root} |-> NullLevels]
    /\ status = "ok"

is_empty == next[Root][0] = Nil

\* 1 to MaxLevel + 1: the last of the powers is one less than the largest draw.
choose_level == 1..MaxLevel + 1

-----------------------------------------------------------------------------
\* The node on level i, from cur on, after which a loop stops that goes on
\* while the next node is smaller than v.
Advance(cur, i, v) ==
    LET at[m \in DOMAIN next] ==
            IF next[m][i] # Nil /\ value[next[m][i]] < v THEN at[next[m][i]] ELSE m
    IN  at[cur]

\* Where the way down from level top of root_ leaves each level.
Descent(top, v) ==
    LET at[i \in 0..top] == Advance(IF i = top THEN Root ELSE at[i + 1], i, v)
    IN  at

\* v is what comes next there.
Holds(at, i, v) == next[at[i]][i] # Nil /\ value[next[at[i]][i]] = v

\* Mutant: as in the sorted list, nothing is linked behind n.
LinkedCuts(n, at, L) ==
    [m \in DOMAIN next |->
        [i \in Levels |->
            IF i \notin L THEN next[m][i]
            ELSE IF m = n THEN Nil
            ELSE IF m = at[i] THEN n
            ELSE next[m][i]]]

\* n is linked in on the levels of L, behind at.
Linked(n, at, L) ==
    [m \in DOMAIN next |->
        [i \in Levels |->
            IF i \notin L THEN next[m][i]
            ELSE IF m = n THEN next[at[i]][i]
            ELSE IF m = at[i] THEN n
            ELSE next[m][i]]]

New(n, v) ==
    /\ n \in Address \ live
    /\ live' = live \cup {n}
    /\ value' = [value EXCEPT ![n] = v]

\* Mutant: the number of levels that is drawn is the number that is linked.
AddNodeDrawn(n, v, level) ==
    /\ status = "ok" /\ level <= MaxLevel /\ New(n, v)
    /\ next' = Linked(n, Descent(level - 1, v), 0..level - 1)
    /\ status' = "ok"

\* The first node is linked on as many levels as were drawn.
add_first(n, v, level) ==
    /\ status = "ok" /\ is_empty /\ New(n, v)
    /\ IF level <= MaxLevel
         THEN /\ next' = [next EXCEPT ![Root] = [i \in Levels |-> IF i < level THEN n ELSE @[i]]]
              /\ status' = "ok"
         ELSE status' = "undefined" /\ UNCHANGED next

\* A further node is linked on one level more.  At a node with its value the
\* loop goes round for ever, with the levels above linked already.
add_node(n, v, level) ==
    /\ status = "ok" /\ ~is_empty /\ New(n, v)
    /\ \/ /\ level >= MaxLevel
          /\ status' = "undefined" /\ UNCHANGED next
       \/ /\ level < MaxLevel
          /\ LET at == Descent(level, v)
                 met == {i \in 0..level : Holds(at, i, v)}
             IN  /\ next' = Linked(n, at, {i \in 0..level : \A j \in met : i > j})
                 /\ status' = IF met = {} THEN "ok" ELSE "loops"

\* The value is unlinked on every level it is on.  Gone down from level 1,
\* the loop deletes the node that is next on level 0, which dump reads; a
\* node that is on level 0 only is not deleted at all.
del_node(v) ==
    /\ status = "ok"
    /\ LET at == Descent(MaxLevel - 1, v)
           found == {i \in Levels : Holds(at, i, v)}
           deletes == 1 \in found
       IN  /\ next' = [m \in DOMAIN next |->
                          [i \in Levels |->
                              IF i \in found /\ m = at[i] /\ ~(deletes /\ i = 0)
                                THEN next[next[m][i]][i] ELSE next[m][i]]]
           /\ live' = IF deletes THEN live \ {next[at[1]][0]} ELSE live
           /\ status' = IF deletes THEN "undefined" ELSE "ok"
    /\ UNCHANGED value

Next ==
    \E v \in Number :
        \/ del_node(v)
        \/ \E n \in Address, level \in choose_level : add_first(n, v, level) \/ add_node(n, v, level)

Spec == Init /\ [][Next]_vars

-----------------------------------------------------------------------------
TypeOK ==
    /\ live \subseteq Address
    /\ value \in [Address \cup {Root} -> Number]
    /\ next \in [Address \cup {Root} -> [Levels -> Address \cup {Nil}]]
    /\ status \in {"ok", "loops", "undefined"}

\* The nodes of level i, as dump prints them.
IsLevel(s, i) ==
    /\ Follows(s, Root, [n \in DOMAIN next |-> next[n][i]])
    /\ next[s[Len(s)]][i] = Nil
LevelWalks == UNION {{<<Root>> \o s : s \in [1..k -> live]} : k \in 0..Cardinality(live)}
Level(i) == NodesOf(CHOOSE s \in LevelWalks : IsLevel(s, i)) \ {Root}

\* Every level is a finite list of strictly ascending values through nodes
\* that are allocated, and holds only nodes of the level below.
Chains ==
    \A i \in Levels :
        /\ \E s \in LevelWalks :
              /\ IsLevel(s, i)
              /\ \A j \in 2..Len(s) - 1 : value[s[j]] < value[s[j + 1]]
        /\ i > 0 => Level(i) \subseteq Level(i - 1)

\* All but one of the values, the first to come into an empty list, are on
\* level 1 too: to delete any of them ends in undefined behaviour.
OneDeletable == Cardinality(Level(0) \ Level(1)) <= 1

Contents == {value[n] : n \in Level(0)}

\* As long as the program is neither stuck nor in undefined behaviour its
\* levels are lists nested in each other, and only one value can be deleted so.
Nested == status = "ok" => Chains /\ OneDeletable

\* An operation that ends well adds a value that was not there or deletes one,
\* and disturbs no other: the list does what its callers expect until it is
\* stuck or undefined.
OneValue ==
    status' = "ok" =>
        \/ \E n \in live' \ live : value'[n] \notin Contents /\ Contents' = Contents \cup {value'[n]}
        \/ live' = live /\ \E v \in Number : Contents' = Contents \ {v}
=============================================================================
