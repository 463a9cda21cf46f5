----------------------------- MODULE Algorithms -----------------------------
(***************************************************************************)
(* Calls of the function of 数据结构/binary_search.cpp, of the programs of  *)
(* 算法/ and of the calculator of cpp/test2.cpp, and what they return.     *)
(* The Fibonacci functions keep a vector from call to call and may be      *)
(* called again; the others keep nothing, so one call of each on every     *)
(* input shows all they do.                                                *)
(***************************************************************************)
EXTENDS DynamicProgramming, Backtracking, Calculator

CONSTANTS MaxCount,   \* arrays have at most this many elements
          MaxText,    \* texts that are searched have at most this many characters
          MaxAmount,  \* the largest amount that is charged
          MaxNumber,  \* the largest Fibonacci number asked for, by its index
          MaxSize,    \* the largest chessboard
          MaxOperators  \* operators in an expression that is calculated

BoundsAssumption ==
    /\ {MaxCount, MaxText, MaxAmount, MaxNumber, MaxOperators} \subseteq Nat
    /\ MaxSize \in Nat \ {0}

Arrs == BoundedSeq({-1, 0, 1, 2}, MaxCount)
Texts == BoundedSeq({1, 2, 3}, MaxText)
Targets == {<<1>>, <<1, 1>>, <<1, 2>>, <<2, 1, 2>>, <<1, 2, 3>>}

VARIABLES call,    \* the function that returned last, "none" at first
          args,    \* its arguments
          ret,     \* what it returned, or left in the array it was given
          static   \* the static vector of the Fibonacci function that runs

vars == <<call, args, ret, static>>

Init ==
    /\ call = "none"
    /\ args = <<>>
    /\ ret = <<>>
    /\ static = <<>>

Returns(name, arguments, result) ==
    /\ call' = name
    /\ args' = arguments
    /\ ret' = result
    /\ UNCHANGED static

ArrayCalls ==
    \E a \in Arrs :
        \/ Returns("max_increase_sequence", a, max_increase_sequence(a))
        \/ Returns("max_incr_substr", a, max_incr_substr(a))
        \/ Returns("max_sum_sequence", a, max_sum_sequence(a))
        \/ a # <<>> /\ Returns("max_sum_subvec", a, max_sum_subvec(a))
        \/ Returns("permutation", a, permutation(a, [tmp_saver |-> <<>>, results |-> <<>>]))

\* W, the number of things, and their weights and values.
PackCalls ==
    \E W \in 0..4, N \in 0..3 :
        \/ Returns("package", <<W, N, weight_vec, value_vec>>, package(N, W))
        \/ \E wt, val \in [1..3 -> {1, 3}] :
              Returns("knapsack", <<W, N, wt, val>>, knapsack(W, N, wt, val))

ChargeCalls ==
    \E amount \in -1..MaxAmount :
        \/ Returns("charge_once", amount, charge_once(amount, <<>>))
        \/ Returns("charge_from_min", amount, charge_from_min(amount, <<>>))
        \/ Returns("col", amount, col(amount, coins))

TextCalls ==
    \E s \in Texts :
        /\ s # <<>>
        /\ \/ Returns("max_insert_parlin", s, max_insert_parlin(s))
           \/ Returns("max_parlin_seq", s, max_parlin_seq(s))

TargetCalls ==
    \E s \in Texts, t \in Targets : Returns("max_comm_sequence", <<s, t>>, max_comm_sequence(s, t))

NoQueen == [board |-> {}, results |-> <<>>]

QueenCalls ==
    \E size \in 1..MaxSize :
        \/ Returns("back_trace", size, back_trace(0, size, NoQueen))
        \/ Returns("backtrace", size, backtrace(0, size, NoQueen))

\* What binary_search is given of its elements is their number.
SearchCalls ==
    \E length \in 0..MaxCount, target \in -1..MaxCount + 1 :
        Returns("binary_search", <<length, target>>, binary_search(length, target))

-----------------------------------------------------------------------------
\* Expressions by the usual grammar, each with its text, its value, and the
\* operators whose right operand ends the text, unless in parentheses, each
\* with the value before it.
Literal(text, value) == [text |-> text, value |-> value, pending |-> <<>>]
Numbers == {Literal(<<"7">>, 7), Literal(<<"1", " ", "2">>, 12)}

\* What stands before a leading sign.
Nothing == Literal(<<>>, 0)

Operation(l, op, r) ==
    [text |-> l.text \o <<op>> \o r.text,
     value |-> Apply(op, l.value, r.value),
     pending |-> <<[op |-> op, value |-> l.value]>> \o r.pending]

Operations(Ls, ops, Rs) ==
    {Operation(t[1], t[2], t[3]) : t \in {u \in Ls \X ops \X Rs : u[2] = "/" => u[3].value # 0}}

\* g[i] has the expressions with i - 1 operators; those with one more.
Deeper(g, n) ==
    LET Binary(l, ops, r) == UNION {Operations(g[i][l], ops, g[n + 1 - i][r]) : i \in 1..n}
        products == Binary("term", {"*", "/"}, "factor")
        sums == Binary("expression", {"+", "-"}, "term") \cup Operations({Nothing}, {"+", "-"}, g[n].term)
        factors == {Literal(<<"(">> \o e.text \o <<")">>, e.value) : e \in products \cup sums}
    IN  Append(g, [factor |-> factors, term |-> factors \cup products,
                   expression |-> factors \cup products \cup sums])

Grammar == FoldLeft(Deeper, <<[factor |-> Numbers, term |-> Numbers, expression |-> Numbers]>>, Up(1, MaxOperators))

Expressions == UNION {g.expression : g \in Entries(Grammar)}

\* Each pending operator applied to the values on its left.
Shifted(p) ==
    LET before == IF Len(p) = 1 THEN 0 ELSE p[1].value
        inner == Apply(Last(p).op, before, Last(p).value)
    IN  IF Len(p) = 1 THEN inner ELSE Apply(p[1].op, 0, inner)

\* An expression, as it is or with a space behind it.  No divisor is 0.
CalculatorCalls ==
    \E e \in Expressions :
        \/ Returns("calculate_input", e, calculate_input(e.text))
        \/ /\ e.pending # <<>> /\ Last(e.pending).op = "/" => Last(e.pending).value # 0
           /\ Returns("calculate_input_space", e, calculate_input(e.text \o <<" ">>))

\* A call of a function with a static vector, the first or a later one.
Keeps(name, count, Function(_, _)) ==
    /\ call \in {"none", name}
    /\ count <= 2 \/ static = <<>> \/ count \in DOMAIN static
    /\ call' = name
    /\ args' = count
    /\ ret' = Function(static, count).ret
    /\ static' = Function(static, count).vec

FibonacciCalls ==
    \E count \in 0..MaxNumber :
        \/ Keeps("fibonacci_recursion", count, fibonacci_recursion)
        \/ Keeps("fibonacci_cycle", count, fibonacci_cycle)
        \/ call = "none" /\ Returns("fb", count, fb(count))

FirstCall ==
    /\ call = "none"
    /\ \/ ArrayCalls \/ PackCalls \/ ChargeCalls \/ TextCalls \/ TargetCalls
       \/ QueenCalls \/ SearchCalls \/ CalculatorCalls

Next == FirstCall \/ FibonacciCalls

Spec == Init /\ [][Next]_vars

\* Calls of max_comm_sequence alone.
MaxCommSpec == Init /\ [][call = "none" /\ TargetCalls]_vars

-----------------------------------------------------------------------------
Functions ==
    {"none", "max_increase_sequence",
     "max_incr_substr", "max_sum_sequence", "max_sum_subvec", "permutation", "package",
     "knapsack", "charge_once", "charge_from_min", "col",
     "max_insert_parlin", "max_parlin_seq", "max_comm_sequence", "back_trace",
     "backtrace", "fibonacci_recursion", "fibonacci_cycle", "fb",
     "binary_search", "calculate_input", "calculate_input_space"}

\* A static vector has entries up to some index that was asked for.
TypeOK ==
    /\ call \in Functions
    /\ static = <<>> \/ \E n \in 0..MaxNumber : DOMAIN static = 0..n /\ \A i \in 0..n : static[i] \in Nat

-----------------------------------------------------------------------------
\* The table of package and knapsack holds what the best choice of things is
\* worth, each thing packed once at most.
KnapsackBest ==
    call \in {"package", "knapsack"} =>
        LET weight(S) == MapThenSumSet(LAMBDA i : args[3][i], S)
            value(S) == MapThenSumSet(LAMBDA i : args[4][i], S)
        IN  ret = Max({value(S) : S \in {T \in SUBSET (1..args[2]) : weight(T) <= args[1]}})

\* How many of each coin make up an amount.
Purses(amount) ==
    {n \in [DOMAIN coins -> 0..amount \div Min(Entries(coins))] :
        MapThenSumSet(LAMBDA i : n[i] * coins[i], DOMAIN coins) = amount}

\* charge_once finds coins for every amount that has some, taking back coins
\* that lead nowhere, and what it pushed makes up the amount.
ChargeOnceExact ==
    call = "charge_once" =>
        /\ ret.ret = IF Purses(args) = {} THEN -1 ELSE 0
        /\ ret.ret = 0 => FoldLeft(LAMBDA a, b : a + b, 0, ret.results) = args

\* Both programs that count coins find the smallest number.
FewestCoins ==
    LET fewest == IF Purses(args) = {} THEN -1
                  ELSE Min({MapThenSumSet(LAMBDA i : n[i], DOMAIN coins) : n \in Purses(args)})
    IN  /\ call = "col" => ret = fewest
        /\ call = "charge_from_min" => ret.ret = fewest

\* Whatever the vector has kept from earlier calls, a Fibonacci function
\* returns the number that was asked for.
FibonacciExact ==
    LET F[n \in 0..MaxNumber] == IF n < 2 THEN n ELSE F[n - 1] + F[n - 2]
    IN  call \in {"fibonacci_recursion", "fibonacci_cycle", "fb"} => ret = F[args]

\* What the tables and the recursions over amounts find is the best there is,
\* whatever was pushed, popped or stored on the way.
TablesExact == KnapsackBest /\ ChargeOnceExact /\ FewestCoins /\ FibonacciExact

-----------------------------------------------------------------------------
Chosen(a, S) == LET places == SetToSortSeq(S, <) IN [k \in 1..Cardinality(S) |-> a[places[k]]]
Subsequences(a) == {Chosen(a, S) : S \in SUBSET DOMAIN a}
Runs(a) == {SubSeq(a, i, j) : <<i, j>> \in {p \in (DOMAIN a) \X (DOMAIN a) : p[1] <= p[2]}}
Longest(S) == Max({Len(s) : s \in S})

\* Both programs find the length of the longest increasing subsequence.
LongestIncreasing ==
    call \in {"max_increase_sequence", "max_incr_substr"} /\ args # <<>> =>
        ret = Longest({s \in Subsequences(args) : \A i \in 1..Len(s) - 1 : s[i] < s[i + 1]})

\* max_sum_sequence finds the largest sum of consecutive elements.
\* max_sum_subvec, written for the same, only finds the largest element.
BestSum ==
    /\ call = "max_sum_sequence" /\ args # <<>> =>
          ret = Max({FoldLeft(LAMBDA x, y : x + y, 0, s) : s \in Runs(args)})
    /\ call = "max_sum_subvec" => ret = Max({args[i] : i \in DOMAIN args})

\* The characters to insert are those outside a longest palindrome.
Palindromes ==
    LET longest == Longest({s \in Subsequences(args) : s = Reverse(s)})
    IN  /\ call = "max_parlin_seq" => ret = longest
        /\ call = "max_insert_parlin" => ret = Len(args) - longest

\* The functions on subsequences find the longest or the largest one; where
\* an index is off by one, max_sum_subvec finds what the code makes of it.
SubsequencesExact == LongestIncreasing /\ BestSum /\ Palindromes

\* Each table and each recursion finds the optimum it is written for, or what
\* its indices make of it, whatever an earlier call has left in it.
OptimaExact == TypeOK /\ TablesExact /\ SubsequencesExact

\* The table in the comment on max_comm_sequence: an entry is the length of the
\* longest common subsequence of the characters before its row and column.
LongestCommon ==
    call = "max_comm_sequence" =>
        ret = Longest(Subsequences(args[1]) \cap Subsequences(args[2]))

-----------------------------------------------------------------------------
Distinct(t) == \A i, j \in DOMAIN t : t[i] = t[j] => i = j

\* Every ordering of the elements is listed, and none twice; there is none to
\* be found when an element is repeated.  The path is empty again at the end.
OrderingsOnce ==
    call = "permutation" =>
        /\ ret.tmp_saver = <<>>
        /\ IF Distinct(args)
             THEN /\ Distinct(ret.results)
                  /\ Entries(ret.results) =
                       {[i \in DOMAIN args |-> args[p[i]]] : p \in Permutations(DOMAIN args)}
             ELSE ret.results = <<>>

\* Both programs list every board on which no queen attacks another, once, and
\* leave no queen on the board they were given.
QueensOnce ==
    LET rows == 0..args - 1
        peaceful == {q \in [rows -> rows] : \A r, s \in rows :
                       r < s => q[r] # q[s] /\ q[r] - q[s] \notin {r - s, s - r}}
    IN  call \in {"back_trace", "backtrace"} =>
          /\ ret.board = {}
          /\ Distinct(ret.results)
          /\ Entries(ret.results) = {{<<r, q[r]>> : r \in rows} : q \in peaceful}

\* binary_search ends, and finds every number from 0 to the length, itself.
PositionFound ==
    call = "binary_search" =>
        ret = IF args[2] \in 0..args[1] THEN <<args[2]>> ELSE <<>>

\* The searches miss no solution, list none twice, and end when there is none,
\* although all ways share one path or board.
SearchesExact == OrderingsOnce /\ QueensOnce /\ PositionFound

-----------------------------------------------------------------------------
\* calculate_input finds the value the grammar gives an expression, with
\* whatever signs, parentheses and spaces before its last character.
ValueExact == call = "calculate_input" => ret = <<args.value>>

\* A number before a space at the end never goes on the stack: the operators
\* are applied to what is left of them, the first of them to 0.  A number
\* alone, or an expression in parentheses, leaves nothing to return.
LastNumberLost ==
    call = "calculate_input_space" =>
        ret = IF args.pending = <<>> THEN <<>> ELSE <<Shifted(args.pending)>>

\* Whatever is on the two stacks, operators are applied in the right order to
\* the right numbers, unless a space at the end hides the last one.
CalculatorExact == ValueExact /\ LastNumberLost
=============================================================================
