---------------------------- MODULE Backtracking ----------------------------
(***************************************************************************)
(* The backtracking functions of 算法/: permutations, and the two programs *)
(* that list the ways to put queens on a board.  The path or board is one  *)
(* object, changed before and after each recursive call, and results grows *)
(* on the way: a function is given both in a record and returns them as it *)
(* leaves them.  A board is the set of its cells with a queen.             *)
(***************************************************************************)
EXTENDS Arrays

RECURSIVE permutation(_, _)
permutation(arr, saved) ==
    LET Try(s, elem) ==
          IF \E k \in DOMAIN s.tmp_saver : s.tmp_saver[k] = elem THEN s
          ELSE LET below == permutation(arr, [s EXCEPT !.tmp_saver = Append(@, elem)])
               IN  [below EXCEPT !.tmp_saver = Front(@)]
    IN  IF Len(saved.tmp_saver) = Len(arr)
          THEN [saved EXCEPT !.results = Append(@, saved.tmp_saver)]
          ELSE FoldLeft(Try, saved, arr)

-----------------------------------------------------------------------------
\* Mutant: the queen stays on the board for the next column.
LeftStanding(board, row, col) == board

TakenAway(board, row, col) == board \ {<<row, col>>}

\* Queen.cc: only the rows above are looked at.  The cell after the last
\* column, read in the third loop, is the string's '\0'.
is_valid(row, col, chessboard) ==
    \A queen \in chessboard :
        queen[1] < row => queen[2] \notin {col, col - (row - queen[1]), col + (row - queen[1])}

RECURSIVE back_trace(_, _, _)
back_trace(row, size, found) ==
    LET Try(s, col) ==
          IF ~is_valid(row, col, s.board) THEN s
          ELSE LET below == back_trace(row + 1, size, [s EXCEPT !.board = @ \cup {<<row, col>>}])
               IN  [below EXCEPT !.board = TakenAway(@, row, col)]
    IN  IF row = size THEN [found EXCEPT !.results = Append(@, found.board)]
        ELSE Loop(Try, found, Up(0, size - 1))

\* queen.cc: the row and the column, and both diagonals from the cell itself
\* upwards.
is_pos_valid(board, row, col) ==
    \A queen \in board :
        /\ queen[1] # row
        /\ ~ (queen[1] < row /\ queen[2] = col)
        /\ \A k \in 0..row : queen # <<row - k, col - k>> /\ queen # <<row - k, col + k>>

RECURSIVE backtrace(_, _, _)
backtrace(row, size, found) ==
    LET Try(s, index) ==
          IF ~is_pos_valid(s.board, row, index) THEN s
          ELSE LET below == backtrace(row + 1, size, [s EXCEPT !.board = @ \cup {<<row, index>>}])
               IN  [below EXCEPT !.board = TakenAway(@, row, index)]
    IN  IF row = size THEN [found EXCEPT !.results = Append(@, found.board)]
        ELSE Loop(Try, found, Up(0, size - 1))
=============================================================================
