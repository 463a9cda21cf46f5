------------------------------ MODULE Windows ------------------------------
(***************************************************************************)
(* The sliding windows over a string of 算法/: min_substr.cc,              *)
(* permutation.cc, xor_substr.cc and not_repeated_substr.cc.  A behaviour  *)
(* is one call; a step is a turn of a loop or of the loop inside it.  A    *)
(* string is a function on its positions, which start at 0.                *)
(***************************************************************************)
EXTENDS Integers, Sequences, FiniteSets, Functions

CONSTANTS Char,       \* the characters of strings
          MaxText,    \* the source has at most this many
          MaxTarget   \* and the target, which is not empty

IntMax == 2147483647

ASSUME WindowAssumption == MaxText \in 0..IntMax - 1 /\ MaxTarget \in Nat

VARIABLES slider,          \* the function that runs
          turn,            \* in which part of its loop it is
          source, length,  \* the string that is searched, and its size
          sought, width,   \* the target, and its size
          lower, upper,    \* left and right in the code
          window,          \* window_map and valid_ch
          repeat_set,      \* the characters in the window of max_not_repeat
          min_count, result

ends == <<lower, upper>>
found == <<min_count, result>>
windowVars == <<slider, turn, source, length, sought, width, ends, window, repeat_set, found>>

Positions == 0..length - 1

\* A part of the source, from one position to another.
Part(from, to) == [i \in 0..to - from |-> source[from + i]]

\* How often the target has a character.
NeedMap == [c \in {sought[i] : i \in 0..width - 1} |-> Cardinality({i \in 0..width - 1 : sought[i] = c})]

WindowInit ==
    /\ slider \in {"slide_window", "has_permutation", "index_permutation", "max_not_repeat"}
    /\ length \in 0..MaxText /\ source \in [0..length - 1 -> Char]
    /\ IF slider = "max_not_repeat" THEN width = 0 ELSE width \in 1..MaxTarget
    /\ sought \in [0..width - 1 -> Char]
    /\ turn = "grow" /\ lower = 0 /\ upper = 0
    /\ window = [count |-> [c \in DOMAIN NeedMap |-> 0], valid |-> 0]
    /\ repeat_set = {}
    /\ min_count = IntMax
    /\ result = CASE slider = "slide_window" -> Part(0, -1)
                  [] slider = "has_permutation" -> FALSE
                  [] slider = "index_permutation" -> <<>>
                  [] slider = "max_not_repeat" -> 1

-----------------------------------------------------------------------------
\* A character counts only if the target has it, and is valid once the window
\* has it as often as the target.
AddChar(w, ch) ==
    IF ch \notin DOMAIN NeedMap THEN w
    ELSE LET n == w.count[ch] + 1
         IN  [count |-> [w.count EXCEPT ![ch] = n],
              valid |-> IF n = NeedMap[ch] THEN w.valid + 1 ELSE w.valid]

\* Mutant: a character that is still there often enough is uncounted.
DropCharAtNeed(w, ch) ==
    IF ch \notin DOMAIN NeedMap THEN w
    ELSE LET n == w.count[ch] - 1
         IN  [count |-> [w.count EXCEPT ![ch] = n],
              valid |-> IF n <= NeedMap[ch] THEN w.valid - 1 ELSE w.valid]

\* valid_ch goes down whenever the number is below the target's, also when it
\* was below already.  slide_window asks for the character in window_map, where
\* those of the target are that the window took in, so the one that goes.
DropChar(w, ch) ==
    IF ch \notin DOMAIN NeedMap THEN w
    ELSE LET n == w.count[ch] - 1
         IN  [count |-> [w.count EXCEPT ![ch] = n],
              valid |-> IF n < NeedMap[ch] THEN w.valid - 1 ELSE w.valid]

Valid(w) == w.valid = Cardinality(DOMAIN NeedMap)

\* The outer loop takes the next character into the window.
Grow ==
    /\ turn = "grow" /\ upper < length
    /\ turn' = "shrink" /\ window' = AddChar(window, source[upper])
    /\ UNCHANGED <<ends, repeat_set, found>>

Drop == lower' = lower + 1 /\ window' = DropChar(window, source[lower])

NextTurn == turn' = "grow" /\ upper' = upper + 1

Stop == turn' = "returned" /\ UNCHANGED <<ends, window, repeat_set>>

StopAtEnd == turn = "grow" /\ ~(upper < length) /\ Stop /\ UNCHANGED found

\* A window that has all characters shrinks until it loses one, and is measured
\* as it was before.
slide_window ==
    \/ Grow \/ StopAtEnd
    \/ /\ turn = "shrink"
       /\ \/ /\ Valid(window)
             /\ Drop
             /\ LET len == upper - lower + 1 IN
                IF window'.valid < window.valid /\ min_count > len
                  THEN min_count' = len /\ result' = Part(lower, upper)
                  ELSE UNCHANGED found
             /\ UNCHANGED <<turn, upper>>
          \/ ~Valid(window) /\ NextTurn /\ UNCHANGED <<lower, window, found>>
       /\ UNCHANGED repeat_set

has_permutation ==
    \/ Grow \/ StopAtEnd
    \/ /\ turn = "shrink" /\ upper - lower >= width
       /\ Drop
       /\ UNCHANGED <<turn, upper, repeat_set, found>>
    \/ /\ turn = "shrink" /\ ~(upper - lower >= width)
       /\ \/ Valid(window) /\ Stop /\ result' = TRUE /\ UNCHANGED min_count
          \/ ~Valid(window) /\ NextTurn /\ UNCHANGED <<lower, window, repeat_set, found>>

index_permutation ==
    \/ Grow \/ StopAtEnd
    \/ /\ turn = "shrink"
       /\ \/ /\ upper - lower + 1 = width
             /\ result' = IF Valid(window) THEN Append(result, lower) ELSE result
             /\ Drop
          \/ /\ upper - lower + 1 # width
             /\ UNCHANGED <<lower, window, result>>
       /\ NextTurn
       /\ UNCHANGED <<repeat_set, min_count>>

\* A repeated character ends the window: it gives up what comes before its
\* first occurrence, is measured, and gives that one up too.
max_not_repeat ==
    \/ StopAtEnd
    \/ /\ turn = "grow" /\ upper < length
       /\ \/ /\ source[upper] \notin repeat_set
             /\ repeat_set' = repeat_set \cup {source[upper]}
             /\ NextTurn
          \/ /\ source[upper] \in repeat_set
             /\ turn' = "shrink"
             /\ UNCHANGED <<upper, repeat_set>>
       /\ UNCHANGED <<lower, window, found>>
    \/ /\ turn = "shrink"
       /\ \/ /\ source[lower] # source[upper]
             /\ repeat_set' = repeat_set \ {source[lower]}
             /\ UNCHANGED <<turn, upper, result>>
          \/ /\ source[lower] = source[upper]
             /\ result' = IF result > upper - lower THEN result ELSE upper - lower
             /\ NextTurn
             /\ UNCHANGED repeat_set
       /\ lower' = lower + 1
       /\ UNCHANGED <<window, min_count>>

WindowNext ==
    /\ \/ slider = "slide_window" /\ slide_window
       \/ slider = "has_permutation" /\ has_permutation
       \/ slider = "index_permutation" /\ index_permutation
       \/ slider = "max_not_repeat" /\ max_not_repeat
    /\ UNCHANGED <<slider, source, length, sought, width>>

WindowSpec == WindowInit /\ [][WindowNext]_windowVars

-----------------------------------------------------------------------------
Returned(name) == slider = name /\ turn = "returned"

\* Where a part of the source has a character.
Occurs(c, from, to) == {i \in from..to : source[i] = c}

\* A part of the source that has all characters of the target, as often.
Covers(from, to) ==
    /\ from \in Positions /\ to \in Positions /\ from <= to
    /\ \A c \in DOMAIN NeedMap : Cardinality(Occurs(c, from, to)) >= NeedMap[c]

\* slide_window returns the first shortest part of the source that has all
\* characters of the target, as often as the target; none if there is none.
MinimumWindow ==
    Returned("slide_window") =>
        \/ result = Part(0, -1) /\ \A a, b \in Positions : ~Covers(a, b)
        \/ \E p, q \in Positions :
              /\ Covers(p, q) /\ result = Part(p, q)
              /\ \A a, b \in Positions :
                    Covers(a, b) => q - p < b - a \/ (q - p = b - a /\ p <= a)

\* A part of the source that is a permutation of the target.
Permuted(from) ==
    /\ from \in Positions /\ from + width <= length
    /\ \E p \in Bijection(0..width - 1, 0..width - 1) : \A k \in 0..width - 1 : source[from + p[k]] = sought[k]

AllDifferent == \A i, j \in 0..width - 1 : sought[i] = sought[j] => i = j

\* Every permutation of the target that is reported is there, in order and
\* once; those of a target without repeated characters are all reported.
\* Others are missed, as valid_ch goes down twice for one character.
PermutationWindows ==
    /\ Returned("has_permutation") =>
          /\ result => \E i \in Positions : Permuted(i)
          /\ AllDifferent /\ (\E i \in Positions : Permuted(i)) => result
    /\ Returned("index_permutation") =>
          /\ \A i \in DOMAIN result : Permuted(result[i])
          /\ \A i, j \in DOMAIN result : i < j => result[i] < result[j]
          /\ AllDifferent => \A i \in Positions : Permuted(i) => \E k \in DOMAIN result : result[k] = i

\* A run of different characters up to a repeat of its first.
ClosedRun(from, to) ==
    /\ from < to /\ source[from] = source[to]
    /\ \A i, j \in from..to - 1 : source[i] = source[j] => i = j

\* max_not_repeat measures a run of different characters only up to a repeat
\* of its first character: other runs, and the last one, can be longer.
NotRepeatedClosed ==
    Returned("max_not_repeat") =>
        /\ \A a, b \in Positions : ClosedRun(a, b) => b - a <= result
        /\ result = 1 \/ \E a, b \in Positions : ClosedRun(a, b) /\ b - a = result

\* The counts the windows keep say what is in the window at every position.
WindowsExact == MinimumWindow /\ PermutationWindows /\ NotRepeatedClosed
=============================================================================
