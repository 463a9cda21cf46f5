------------------------------- MODULE Sorts -------------------------------
(***************************************************************************)
(* The sorting functions of 数据结构/sort.cpp, each run on an array of     *)
(* integers indexed from 0 that it sorts in place.  A behaviour is one     *)
(* call; a step is a turn of a loop, or the entry to or the exit from one. *)
(***************************************************************************)
EXTENDS Integers, Sequences, FiniteSets

CONSTANTS Element,     \* what arrays hold
          MaxElements  \* arrays have at most this many elements

ASSUME SortAssumption == Element \subseteq Int /\ MaxElements \in Nat

VARIABLES fn,     \* the function that runs
          pc,     \* where it is: the loop it is about to turn
          given,  \* history: the array as it was given
          arr, count,        \* the array, and how many elements it has
          index, jdex, inc,  \* loop variables; heapify's index and heap_sort's n are index and jdex
          tmp,               \* the element that is kept out of the array: prvot in quick_sort
          left, right,       \* the ends of a partition
          jobs               \* calls of quick_sort that have not returned, innermost first

loops == <<index, jdex, inc, tmp>>
ranges == <<left, right, jobs>>
sortVars == <<fn, pc, given, arr, count, loops, ranges>>

Exchanged(i, j) == [arr EXCEPT ![i] = arr[j], ![j] = arr[i]]

Sorting == {"select_sort", "bubble_sort", "insert_sort", "shell_sort", "quick_sort",
            "heap_sort", "select_sort_vector"}

Job(from, to) == [first |-> from, last |-> to]

\* The first statement of each function.
Called ==
    /\ fn \in Sorting
    /\ pc = CASE fn = "shell_sort" -> "gap"
              [] fn = "quick_sort" -> "call"
              [] fn = "heap_sort" -> "build"
              [] OTHER -> "outer"
    /\ index = IF fn = "insert_sort" THEN 1 ELSE 0
    /\ jdex = IF fn = "heap_sort" THEN count \div 2 - 1 ELSE 0
    /\ inc = IF fn = "shell_sort" THEN count \div 2 ELSE 1
    /\ jobs = IF fn = "quick_sort" THEN <<Job(0, count - 1)>> ELSE <<>>
    /\ tmp = 0 /\ left = 0 /\ right = 0

SortInit ==
    /\ count \in 0..MaxElements
    /\ given \in [0..count - 1 -> Element]
    /\ arr = given
    /\ Called

Return == pc' = "done" /\ UNCHANGED <<arr, loops>>

-----------------------------------------------------------------------------
\* The loops of the exchange sorts: a pass for each value of index below
\* passes, in which jdex runs from first on.
Pass(passes, first) ==
    /\ pc = "outer"
    /\ \/ ~(index < passes) /\ Return
       \/ /\ index < passes
          /\ pc' = "inner" /\ jdex' = first
          /\ UNCHANGED <<arr, index, inc, tmp>>

Compare(limit, i, j) ==
    /\ pc = "inner"
    /\ \/ /\ jdex < limit
          /\ arr' = IF arr[i] > arr[j] THEN Exchanged(i, j) ELSE arr
          /\ jdex' = jdex + 1
          /\ UNCHANGED <<pc, index>>
       \/ /\ ~(jdex < limit)
          /\ pc' = "outer" /\ index' = index + 1
          /\ UNCHANGED <<arr, jdex>>
    /\ UNCHANGED <<inc, tmp>>

select_sort == Pass(count - 1, index + 1) \/ Compare(count, index, jdex)

bubble_sort == Pass(count - 1, 0) \/ Compare(count - 1 - index, jdex, jdex + 1)

\* The overload for vectors compares every pair of positions, in both orders.
select_sort_vector == Pass(count, 0) \/ Compare(count, index, jdex)

-----------------------------------------------------------------------------
\* The loops of insert_sort, where inc is 1, and of shell_sort: an element is
\* taken out, those above it move up by inc, and it is put where they stop.
TakeOut ==
    /\ pc = "outer" /\ index < count
    /\ pc' = "inner" /\ tmp' = arr[index] /\ jdex' = index
    /\ UNCHANGED <<arr, index, inc>>

Above == jdex > 0 /\ tmp < arr[jdex - inc]

MoveUp ==
    /\ pc = "inner" /\ Above
    /\ arr' = [arr EXCEPT ![jdex] = arr[jdex - inc]]
    /\ jdex' = jdex - inc
    /\ UNCHANGED <<pc, index, inc, tmp>>

PutBack ==
    /\ pc = "inner" /\ ~Above
    /\ arr' = [arr EXCEPT ![jdex] = tmp]
    /\ pc' = "outer" /\ index' = index + inc
    /\ UNCHANGED <<jdex, inc, tmp>>

insert_sort ==
    \/ TakeOut \/ MoveUp \/ PutBack
    \/ pc = "outer" /\ ~(index < count) /\ Return

\* index advances by inc, so a pass sorts the elements 0, inc, 2 * inc, ...
\* only; the last pass, with inc = 1, is insert_sort.
BeginPass ==
    /\ pc = "gap" /\ inc > 0
    /\ pc' = "outer" /\ index' = inc
    /\ UNCHANGED <<arr, jdex, inc, tmp>>

\* Mutant: inc is rounded up, and stays 1.
EndPassRoundsUp ==
    /\ pc = "outer" /\ ~(index < count)
    /\ pc' = "gap" /\ inc' = (inc + 1) \div 2
    /\ UNCHANGED <<arr, index, jdex, tmp>>

EndPass ==
    /\ pc = "outer" /\ ~(index < count)
    /\ pc' = "gap" /\ inc' = inc \div 2
    /\ UNCHANGED <<arr, index, jdex, tmp>>

shell_sort ==
    \/ BeginPass \/ TakeOut \/ MoveUp \/ PutBack \/ EndPass
    \/ pc = "gap" /\ ~(inc > 0) /\ Return

-----------------------------------------------------------------------------
\* The innermost call of quick_sort: it returns at once, or takes the first
\* element of its range out and partitions the others.
Enter ==
    /\ pc = "call" /\ jobs # <<>>
    /\ LET job == Head(jobs) IN
       \/ /\ job.first >= job.last
          /\ jobs' = Tail(jobs)
          /\ UNCHANGED <<pc, tmp, left, right>>
       \/ /\ job.first < job.last
          /\ left' = job.first /\ right' = job.last /\ tmp' = arr[job.first]
          /\ pc' = "from_right"
          /\ UNCHANGED jobs
    /\ UNCHANGED <<arr, index, jdex, inc>>

\* The scan from the right; an element below the pivot fills the hole at left.
FromRight ==
    /\ pc = "from_right" /\ left < right
    /\ \/ /\ arr[right] >= tmp
          /\ right' = right - 1
          /\ UNCHANGED <<pc, arr>>
       \/ /\ arr[right] < tmp
          /\ arr' = [arr EXCEPT ![left] = arr[right]]
          /\ pc' = "from_left"
          /\ UNCHANGED right
    /\ UNCHANGED <<loops, left, jobs>>

\* The scan from the left; an element above the pivot fills the hole at right.
FromLeft ==
    /\ pc = "from_left" /\ left < right
    /\ \/ /\ arr[left] <= tmp
          /\ left' = left + 1
          /\ UNCHANGED <<pc, arr>>
       \/ /\ arr[left] > tmp
          /\ arr' = [arr EXCEPT ![right] = arr[left]]
          /\ pc' = "from_right"
          /\ UNCHANGED left
    /\ UNCHANGED <<loops, right, jobs>>

\* Mutant: the right part starts one element too late.
PlaceWithGap ==
    /\ pc \in {"from_right", "from_left"} /\ ~(left < right)
    /\ arr' = [arr EXCEPT ![left] = tmp]
    /\ pc' = "call"
    /\ jobs' = <<Job(Head(jobs).first, right - 1), Job(right + 2, Head(jobs).last)>> \o Tail(jobs)
    /\ UNCHANGED <<loops, left, right>>

\* The scans have met: the pivot is put there, and each part is sorted.
Place ==
    /\ pc \in {"from_right", "from_left"} /\ ~(left < right)
    /\ arr' = [arr EXCEPT ![left] = tmp]
    /\ pc' = "call"
    /\ jobs' = <<Job(Head(jobs).first, right - 1), Job(right + 1, Head(jobs).last)>> \o Tail(jobs)
    /\ UNCHANGED <<loops, left, right>>

quick_sort ==
    \/ Enter \/ FromRight \/ FromLeft \/ Place
    \/ pc = "call" /\ jobs = <<>> /\ Return /\ UNCHANGED ranges

-----------------------------------------------------------------------------
\* The largest of a node of a heap of the given size and its sons, the node
\* first and the left son next where they are equal.
Largest(size, node) ==
    LET left_son == 2 * node + 1
        right_son == 2 * node + 2
        first == IF left_son < size /\ arr[node] < arr[left_son] THEN left_son ELSE node
    IN  IF right_son < size /\ arr[first] < arr[right_son] THEN right_son ELSE first

\* A call of heapify goes on with the son it exchanged the node with; at its
\* end, heap_sort goes on with the next jdex.
heapify(size, caller) ==
    LET largest == Largest(size, index) IN
    /\ \/ /\ largest # index
          /\ arr' = Exchanged(index, largest)
          /\ index' = largest
          /\ UNCHANGED <<pc, jdex>>
       \/ /\ largest = index
          /\ pc' = caller /\ jdex' = jdex - 1
          /\ UNCHANGED <<arr, index>>
    /\ UNCHANGED <<inc, tmp>>

Build ==
    /\ pc = "build"
    /\ \/ /\ jdex >= 0
          /\ pc' = "sift_build" /\ index' = jdex
          /\ UNCHANGED <<arr, jdex, inc, tmp>>
       \/ /\ ~(jdex >= 0)
          /\ pc' = "extract" /\ jdex' = count - 1
          /\ UNCHANGED <<arr, index, inc, tmp>>

Extract ==
    /\ pc = "extract"
    /\ \/ /\ jdex > 0
          /\ arr' = Exchanged(jdex, 0)
          /\ pc' = "sift_extract" /\ index' = 0
          /\ UNCHANGED <<jdex, inc, tmp>>
       \/ ~(jdex > 0) /\ Return

heap_sort ==
    \/ Build \/ Extract
    \/ pc = "sift_build" /\ heapify(count, "build")
    \/ pc = "sift_extract" /\ heapify(jdex, "extract")

-----------------------------------------------------------------------------
SortNext ==
    /\ \/ /\ \/ fn = "select_sort" /\ select_sort
             \/ fn = "bubble_sort" /\ bubble_sort
             \/ fn = "select_sort_vector" /\ select_sort_vector
             \/ fn = "insert_sort" /\ insert_sort
             \/ fn = "shell_sort" /\ shell_sort
             \/ fn = "heap_sort" /\ heap_sort
          /\ UNCHANGED ranges
       \/ fn = "quick_sort" /\ quick_sort
    /\ UNCHANGED <<fn, given, count>>

SortSpec == SortInit /\ [][SortNext]_sortVars

-----------------------------------------------------------------------------
\* What sorting means: the same elements as often as before, in order.
Times(a, e) == Cardinality({i \in DOMAIN a : a[i] = e})
Rearranged(a, b) ==
    /\ DOMAIN b = DOMAIN a
    /\ \A i \in DOMAIN a : Times(b, a[i]) = Times(a, a[i])

Ascends(a) == \A i, j \in DOMAIN a : i <= j => a[i] <= a[j]
Descends(a) == \A i, j \in DOMAIN a : i <= j => a[i] >= a[j]

\* When a sorting function returns, the array has its elements in ascending
\* order, whichever scan, pass or sift meets an end of the array or equal
\* elements.  The overload of select_sort for vectors leaves them descending.
SortsSort ==
    pc = "done" =>
        /\ Rearranged(given, arr)
        /\ IF fn = "select_sort_vector" THEN Descends(arr) ELSE Ascends(arr)
=============================================================================
