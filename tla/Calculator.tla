----------------------------- MODULE Calculator -----------------------------
(***************************************************************************)
(* calculate_input of cpp/test2.cpp, a calculator with a stack of numbers  *)
(* and one of operators, and the loop of 数据结构/binary_search.cpp.  A    *)
(* character is a string of length one.                                    *)
(***************************************************************************)
EXTENDS Integers, SequencesExt

Numerals == <<"0", "1", "2", "3", "4", "5", "6", "7", "8", "9">>
isdigit(ch) == Contains(Numerals, ch)
ToNumber(ch) == SelectInSeq(Numerals, LAMBDA d : d = ch) - 1

\* int division truncates.
Quotient(a, b) ==
    LET Size(n) == IF n < 0 THEN -n ELSE n
        q == Size(a) \div Size(b)
    IN  IF (a < 0) = (b < 0) THEN q ELSE -q

Apply(op, a, b) ==
    CASE op = "*" -> a * b
      [] op = "/" -> Quotient(a, b)
      [] op = "+" -> a + b
      [] op = "-" -> a - b

Operators == {"*", "/", "+", "-"}
comp_(op) == IF op \in {"*", "/"} THEN 1 ELSE 2

\* Mutant: operators of one priority are applied from the right.
OpPriorityRight(first, second) == comp_(first) <= comp_(second)

op_priority(first, second) == comp_(first) < comp_(second)

\* A missing first number counts as 0.
op_on_stack(num_stack, op) ==
    IF num_stack = <<>> THEN <<>>
    ELSE LET rest == Front(num_stack)
         IN  IF rest = <<>> THEN <<Apply(op, 0, Last(num_stack))>>
             ELSE Append(Front(rest), Apply(op, Last(rest), Last(num_stack)))

\* The operators on the stack are applied from the top, as long as they are
\* among binding.
RECURSIVE Reduced(_, _, _)
Reduced(num_stack, op_stack, binding) ==
    IF op_stack = <<>> \/ Last(op_stack) \notin binding THEN [nums |-> num_stack, ops |-> op_stack]
    ELSE Reduced(op_on_stack(num_stack, Last(op_stack)), Front(op_stack), binding)

\* The position of the parenthesis that closes the one at pos.
Closing(s, pos) ==
    LET Depth(k) == Cardinality({j \in pos..k : s[j] = "("}) - Cardinality({j \in pos..k : s[j] = ")"})
    IN  Min({k \in pos..Len(s) : Depth(k) = 0})

\* The loop of calculate_input from a position on.  A number goes on the
\* stack when an operator follows it, or when it ends with the input.  The
\* result is <<>> if the top of an empty stack is taken, which is undefined.
RECURSIVE Scan(_, _, _, _, _)
Scan(s, pos, num, num_stack, op_stack) ==
    LET Operand(n, last) ==
            Scan(s, last + 1, n, IF last = Len(s) THEN Append(num_stack, n) ELSE num_stack, op_stack)
    IN  CASE pos > Len(s) ->
               LET all == Reduced(num_stack, op_stack, Operators).nums
               IN  IF all = <<>> THEN <<>> ELSE <<Last(all)>>
          [] pos <= Len(s) /\ s[pos] = " " -> Scan(s, pos + 1, num, num_stack, op_stack)
          [] pos <= Len(s) /\ isdigit(s[pos]) -> Operand(10 * num + ToNumber(s[pos]), pos)
          [] pos <= Len(s) /\ s[pos] = "(" ->
               LET sub == Scan(SubSeq(s, pos + 1, Closing(s, pos) - 1), 1, 0, <<>>, <<>>)
               IN  IF sub = <<>> THEN <<>> ELSE Operand(sub[1], Closing(s, pos))
          [] OTHER ->
               LET done == Reduced(Append(num_stack, num), op_stack,
                                   {op \in Operators : ~op_priority(s[pos], op)})
               IN  Scan(s, pos + 1, 0, done.nums, Append(done.ops, s[pos]))

calculate_input(input) == Scan(input, 1, 0, <<>>, <<>>)

-----------------------------------------------------------------------------
\* The loop of binary_search between two positions.  It compares positions
\* with the target and reads no element.
RECURSIVE Halve(_, _, _)
Halve(head, tail, target) ==
    LET mid == Quotient(head + tail, 2)
    IN  CASE head > tail -> <<>>
          [] head <= tail /\ mid > target -> Halve(head, mid - 1, target)
          [] head <= tail /\ mid < target -> Halve(mid + 1, tail, target)
          [] OTHER -> <<mid>>

binary_search(length, target) == Halve(0, length, target)
=============================================================================
