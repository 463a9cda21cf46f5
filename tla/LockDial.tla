------------------------------ MODULE LockDial ------------------------------
(***************************************************************************)
(* 算法/openlock.cc and 算法/Dial.cc: the fewest turns of a lock's wheels  *)
(* from all zeros to a target without passing a dead combination.  Both    *)
(* search breadth first with a queue, a round for each number of turns.    *)
(* A behaviour is one search; a step is the start of a round, or takes a   *)
(* combination out of the queue, or turns one of its wheels one way.       *)
(***************************************************************************)
EXTENDS Integers, Sequences, FiniteSets

CONSTANTS Wheels,   \* wheels of the lock, 4 in the code
          Digits    \* digits on a wheel, 10 in the code

ASSUME DialAssumption == Wheels \in Nat \ {0} /\ Digits \in Nat \ {0}

VARIABLES search,       \* the function that runs
          step,         \* where it is
          dead, target, \* its arguments
          offer,        \* the queue
          seen,         \* the combinations that were put into it
          rest,         \* how many at its front are of this round
          front, wheel, \* the combination that was taken out, and the wheel to turn
          dial_count, answer

chosen == <<front, wheel>>
dialVars == <<search, step, dead, target, offer, seen, rest, chosen, dial_count, answer>>

Combinations == [1..Wheels -> 0..Digits - 1]
Zeros == [w \in 1..Wheels |-> 0]

plus_one(cur, w) == [cur EXCEPT ![w] = IF cur[w] = Digits - 1 THEN 0 ELSE cur[w] + 1]
minus_one(cur, w) == [cur EXCEPT ![w] = IF cur[w] = 0 THEN Digits - 1 ELSE cur[w] - 1]

\* Only openlock marks the start as seen and looks at the target before it
\* searches.
DialInit ==
    /\ search \in {"openlock", "openLock"}
    /\ dead \in SUBSET Combinations /\ target \in Combinations
    /\ offer = <<Zeros>>
    /\ seen = IF search = "openlock" THEN {Zeros} ELSE {}
    /\ step = IF search = "openlock" /\ target = Zeros THEN "returned" ELSE "round"
    /\ rest = 0 /\ front = Zeros /\ wheel = 1 /\ dial_count = 0 /\ answer = 0

-----------------------------------------------------------------------------
Round ==
    /\ step = "round"
    /\ \/ /\ offer = <<>>
          /\ step' = "returned" /\ answer' = -1
          /\ UNCHANGED rest
       \/ /\ offer # <<>>
          /\ step' = "take" /\ rest' = Len(offer)
          /\ UNCHANGED answer
    /\ UNCHANGED <<offer, seen, chosen, dial_count>>

RoundEnds ==
    /\ step = "take" /\ rest = 0
    /\ step' = "round" /\ dial_count' = dial_count + 1
    /\ UNCHANGED <<offer, seen, rest, chosen, answer>>

\* In its first round openLock lets a dead combination pass.
Skips(c) == c \in dead /\ (search = "openlock" \/ dial_count > 0)

\* Mutant: the target is recognised before it is found dead.
TakeTargetFirst ==
    /\ step = "take" /\ rest > 0
    /\ offer' = Tail(offer) /\ rest' = rest - 1
    /\ front' = Head(offer) /\ wheel' = 1
    /\ \/ /\ Skips(front') /\ front' # target
          /\ UNCHANGED <<step, answer>>
       \/ /\ front' = target
          /\ step' = "returned" /\ answer' = dial_count
       \/ /\ ~Skips(front') /\ front' # target
          /\ step' = "plus"
          /\ UNCHANGED answer
    /\ UNCHANGED <<seen, dial_count>>

Take ==
    /\ step = "take" /\ rest > 0
    /\ offer' = Tail(offer) /\ rest' = rest - 1
    /\ front' = Head(offer) /\ wheel' = 1
    /\ \/ /\ Skips(front')
          /\ UNCHANGED <<step, answer>>
       \/ /\ ~Skips(front') /\ front' = target
          /\ step' = "returned" /\ answer' = dial_count
       \/ /\ ~Skips(front') /\ front' # target
          /\ step' = "plus"
          /\ UNCHANGED answer
    /\ UNCHANGED <<seen, dial_count>>

Push(c) ==
    /\ offer' = IF c \in seen THEN offer ELSE Append(offer, c)
    /\ seen' = seen \cup {c}

PlusOne ==
    /\ step = "plus" /\ step' = "minus"
    /\ Push(plus_one(front, wheel))
    /\ UNCHANGED <<rest, chosen, dial_count, answer>>

MinusOne ==
    /\ step = "minus"
    /\ Push(minus_one(front, wheel))
    /\ \/ wheel < Wheels /\ step' = "plus" /\ wheel' = wheel + 1
       \/ wheel = Wheels /\ step' = "take" /\ UNCHANGED wheel
    /\ UNCHANGED <<rest, front, dial_count, answer>>

DialNext ==
    /\ Round \/ RoundEnds \/ Take \/ PlusOne \/ MinusOne
    /\ UNCHANGED <<search, dead, target>>

DialSpec == DialInit /\ [][DialNext]_dialVars

-----------------------------------------------------------------------------
Turned(S) == {plus_one(b, w) : b \in S, w \in 1..Wheels} \cup {minus_one(b, w) : b \in S, w \in 1..Wheels}

\* The combinations that may not be passed: for openLock a dead start may.
Barred == IF search = "openLock" THEN dead \ {Zeros} ELSE dead

\* The combinations n turns lead to, past none of some.
ArrivedPast(barred) ==
    LET arrived[n \in Nat] == IF n = 0 THEN {Zeros} ELSE Turned(arrived[n - 1] \ barred)
    IN  arrived

Arrived == ArrivedPast(Barred)

LeadsTo(n, c) == c \in Arrived[n] \ Barred

\* The searches return the fewest turns that lead to the target, and -1 when no
\* number of turns does, although a combination is dead only when it is taken
\* out of the queue and the queue never says of which round its elements are.
\* No way past different combinations has more turns than there are any.
FewestTurns ==
    step = "returned" =>
        /\ target = Zeros => answer = 0
        /\ target # Zeros /\ answer = -1 => \A n \in 0..Digits^Wheels : ~LeadsTo(n, target)
        /\ target # Zeros /\ answer # -1 =>
              LeadsTo(answer, target) /\ \A n \in 0..answer - 1 : ~LeadsTo(n, target)
=============================================================================
