------------------------- MODULE DynamicProgramming -------------------------
(***************************************************************************)
(* The functions of 算法/ that fill a table or recurse over amounts:       *)
(* knapsacks, coins, Fibonacci numbers and subsequences.  A table filled   *)
(* by loops is a recursive function, a function that changes a global      *)
(* returns its new value with the result.  A character is a number from 1. *)
(***************************************************************************)
EXTENDS Arrays, FiniteSetsExt

MaxInt == 2147483647
MinInt == -MaxInt - 1

-----------------------------------------------------------------------------
\* Mutant: the row being filled is read, so a thing is packed repeatedly.
NextRowAgain(row, weight, value) ==
    LET new[w \in DOMAIN row] ==
          IF w = 0 \/ w < weight THEN row[w] ELSE Larger(row[w], value + new[w - weight])
    IN  new

\* One row of the table from the one above, with one more thing to pack.
NextRow(row, weight, value) ==
    [w \in DOMAIN row |->
        IF w = 0 \/ w < weight THEN row[w]
        ELSE Larger(row[w], value + row[w - weight])]

knapsack(W, N, wt, val) ==
    LET Row(row, i) == NextRow(row, At(wt, i - 1), At(val, i - 1))
    IN  Loop(Row, [w \in 0..W |-> 0], Up(1, N))[W]

weight_vec == <<2, 1, 3>>
value_vec == <<4, 2, 3>>
package(wight_index, package_index) ==
    knapsack(package_index, wight_index, weight_vec, value_vec)

-----------------------------------------------------------------------------
coins == <<3, 5, 9, 11, 13>>

\* Coins are tried from the largest, until a call finds the rest; results is
\* whatever the calls before and below have made of it.
RECURSIVE charge_once(_, _)
charge_once(amount, results) ==
    LET Try(s, coin) ==
          LET left == charge_once(amount - coin, s.results)
          IN  CASE s.ret = 0 -> s
                [] left.ret = 0 -> [ret |-> 0, results |-> Append(left.results, coin)]
                [] OTHER -> left
    IN  CASE amount < 0 -> [ret |-> -1, results |-> results]
          [] amount = 0 -> [ret |-> 0, results |-> results]
          [] OTHER -> Loop(Try, [ret |-> -1, results |-> results], Reverse(coins))

\* A better coin replaces whatever was pushed last, by this call or a deeper
\* one, so results need not be the coins that were counted.
RECURSIVE charge_from_min(_, _)
charge_from_min(amount, results) ==
    LET Try(best, coin) ==
          LET r == charge_from_min(amount - coin, best.results)
              kept == IF r.results # <<>> /\ best.count # MaxInt THEN Front(r.results) ELSE r.results
          IN  IF best.count <= r.ret \/ r.ret = -1
                THEN [best EXCEPT !.results = r.results]
                ELSE [count |-> r.ret + 1, results |-> Append(kept, coin)]
        best == Loop(Try, [count |-> MaxInt, results |-> results], coins)
    IN  CASE amount < 0 -> [ret |-> -1, results |-> results]
          [] amount = 0 -> [ret |-> 0, results |-> results]
          [] OTHER -> [ret |-> IF best.count = MaxInt THEN -1 ELSE best.count,
                       results |-> best.results]

RECURSIVE col(_, _)
col(amount, vec) ==
    LET counts == {col(amount - vec[i], vec) : i \in DOMAIN vec} \ {-1}
    IN  CASE amount < 0 -> -1
          [] amount = 0 -> 0
          [] OTHER -> IF counts = {} THEN -1 ELSE Min(counts) + 1

-----------------------------------------------------------------------------
\* A static vector gets its size in the first call that reaches it, <<>> before,
\* and keeps its entries; a later, larger count is undefined.
Static(vec, count) == IF vec = <<>> THEN [i \in 0..count |-> 0] ELSE vec

RECURSIVE fibonacci_recursion(_, _)
fibonacci_recursion(static, count) ==
    LET vec == Static(static, count)
    IN  CASE count = 0 -> [ret |-> 0, vec |-> vec]
          [] count \in {1, 2} -> [ret |-> 1, vec |-> vec]
          [] count > 2 /\ vec[count] # 0 -> [ret |-> vec[count], vec |-> vec]
          [] OTHER ->
               LET one == fibonacci_recursion(vec, count - 1)
                   two == fibonacci_recursion(one.vec, count - 2)
                   num == one.ret + two.ret
               IN  [ret |-> num, vec |-> [two.vec EXCEPT ![count] = num]]

\* The loop of fibonacci_cycle and of fb.
Sums(vec, count) ==
    LET Sum3(v, i) == [v EXCEPT ![i] = v[i - 1] + v[i - 2]]
    IN  Loop(Sum3, vec, Up(3, count))

fibonacci_cycle(static, count) ==
    LET filled == Sums([Static(static, count) EXCEPT ![1] = 1, ![2] = 1], count)
    IN  CASE count = 0 -> [ret |-> 0, vec |-> static]
          [] count \in {1, 2} -> [ret |-> 1, vec |-> static]
          [] OTHER -> [ret |-> filled[count], vec |-> filled]

fb(pos) ==
    CASE pos = 0 -> 0
      [] pos \in {1, 2} -> 1
      [] OTHER -> Sums([i \in 0..pos |-> 1], pos)[pos]

-----------------------------------------------------------------------------

\* Entry i is the length of the longest increasing subsequence that ends
\* with element i.
Increase(a) ==
    LET results[i \in 0..Len(a) - 1] ==
          Max({1} \cup {results[j] + 1 : j \in {k \in 0..i - 1 : At(a, k) < At(a, i)}})
    IN  results

Entries(table) == {table[i] : i \in DOMAIN table}

max_increase_sequence(input_vec) == Max({MinInt} \cup Entries(Increase(input_vec)))
max_incr_substr(source) == Max({1} \cup Entries(Increase(source)))

max_sum_sequence(input_vec) ==
    LET results[i \in 0..Len(input_vec) - 1] ==
          IF i = 0 THEN At(input_vec, i)
          ELSE Larger(results[i - 1] + At(input_vec, i), At(input_vec, i))
    IN  Max({MinInt} \cup Entries(results))

\* The entry that is read is the one to be written, still 0.
max_sum_subvec(source) ==
    LET maxsum_vec[i \in 0..Len(source) - 1] ==
          IF i = 0 THEN At(source, i) ELSE Larger(At(source, i), 0 + At(source, i))
    IN  Max(Entries(maxsum_vec))

\* A string's character after the last is 0.
Char(s, i) == IF i = Len(s) THEN 0 ELSE At(s, i)

max_comm_sequence(first, second) ==
    LET dp[i \in 0..Len(first), j \in 0..Len(second)] ==
          CASE i = 0 \/ j = 0 -> 0
            [] Char(first, i) = Char(second, j) -> dp[i - 1, j - 1] + 1
            [] OTHER -> Larger(dp[i - 1, j], dp[i, j - 1])
    IN  dp[Len(first), Len(second)]

\* Entry i, j: what to insert into the part from i to j.
max_insert_parlin(source) ==
    LET vec[i, j \in 0..Len(source) - 1] ==
          CASE i >= j -> 0
            [] i < j /\ At(source, i) = At(source, j) -> vec[i + 1, j - 1]
            [] OTHER -> Smaller(vec[i + 1, j], vec[i, j - 1]) + 1
    IN  vec[0, Len(source) - 1]

max_parlin_seq(source) ==
    LET vec[i, j \in 0..Len(source) - 1] ==
          CASE i > j -> 0
            [] i = j -> 1
            [] i < j /\ At(source, i) = At(source, j) -> vec[i + 1, j - 1] + 2
            [] OTHER -> Larger(vec[i + 1, j], vec[i, j - 1])
    IN  vec[0, Len(source) - 1]
=============================================================================
