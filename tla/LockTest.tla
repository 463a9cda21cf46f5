------------------------------ MODULE LockTest ------------------------------
(***************************************************************************)
(* cpp/lock_test.c: thread 1 runs func1 and thread 2 runs func2 in a loop. *)
(* The two functions are mirror images: func1 locks mutex1, increments     *)
(* sequence1, and then, still holding mutex1, does the same with mutex2    *)
(* and sequence2.  Thread t is given its own sequence back, read after     *)
(* both mutexes are unlocked, and exits when it equals Limit (100000).     *)
(* The main thread creates four threads, exits the process when it can     *)
(* not, and joins them in order; the third and the fourth never end, so    *)
(* main blocks there and never destroys a mutex.                           *)
(***************************************************************************)
EXTENDS Integers

CONSTANTS Limit,    \* the value at which a thread exits, 100000 in the code
          Bound     \* no round is started once the own sequence is Bound

ASSUME LimitAssumption == Limit \in Nat /\ Bound \in Nat /\ Limit < Bound

Threads == 1..2
None == 0

VARIABLES owner,     \* the thread that holds mutex m, or None
          sequence,  \* the counters sequence1 and sequence2
          pc,        \* what a thread does next
          tmp,       \* the register in which a thread increments a counter
          incs,      \* history: how many ++ were started and finished
          main,      \* what the main thread is doing
          tid        \* the thread it creates or joins next

threadVars == <<owner, sequence, pc, tmp, incs>>
vars == <<owner, sequence, pc, tmp, incs, main, tid>>

First(t) == t
Second(t) == 3 - t

Init ==
    /\ owner = [m \in Threads |-> None]
    /\ sequence = [m \in Threads |-> 0]
    /\ pc = [t \in Threads |-> "new"]
    /\ tmp = [t \in Threads |-> 0]
    /\ incs = [m \in Threads |-> 0]
    /\ main = "create"
    /\ tid = 1

-----------------------------------------------------------------------------
\* Thread t is at label from and goes to label to; the process still exists.
Go(t, from, to) ==
    /\ main # "killed"
    /\ pc[t] = from
    /\ pc' = [pc EXCEPT ![t] = to]
    /\ UNCHANGED <<main, tid>>

Acquire(t, m) ==
    /\ owner[m] = None
    /\ owner' = [owner EXCEPT ![m] = t]
    /\ UNCHANGED <<sequence, tmp, incs>>

Release(m) ==
    /\ owner' = [owner EXCEPT ![m] = None]
    /\ UNCHANGED <<sequence, tmp, incs>>

Load(t, m) ==
    /\ tmp' = [tmp EXCEPT ![t] = sequence[m]]
    /\ UNCHANGED <<owner, sequence, incs>>

\* Mutant: the counter is decremented.
StoreDecrement(t, m) ==
    /\ sequence' = [sequence EXCEPT ![m] = tmp[t] - 1]
    /\ incs' = [incs EXCEPT ![m] = @ + 1]
    /\ UNCHANGED <<owner, tmp>>

Store(t, m) ==
    /\ sequence' = [sequence EXCEPT ![m] = tmp[t] + 1]
    /\ incs' = [incs EXCEPT ![m] = @ + 1]
    /\ UNCHANGED <<owner, tmp>>

\* ++ is not atomic: it reads the counter and later writes it back.
Lock1(t) == sequence[First(t)] < Bound /\ Acquire(t, First(t)) /\ Go(t, "lock1", "load1")
Load1(t) == Load(t, First(t)) /\ Go(t, "load1", "store1")
Store1(t) == Store(t, First(t)) /\ Go(t, "store1", "lock2")
\* Mutants: the second mutex is not locked; a timed lock gives up.
NoLock2(t) == UNCHANGED <<owner, sequence, tmp, incs>> /\ Go(t, "lock2", "load2")
TimedLock2(t) ==
    \/ Acquire(t, Second(t)) /\ Go(t, "lock2", "load2")
    \/ Release(First(t)) /\ Go(t, "lock2", "lock1")

Lock2(t) == Acquire(t, Second(t)) /\ Go(t, "lock2", "load2")
Load2(t) == Load(t, Second(t)) /\ Go(t, "load2", "store2")
Store2(t) == Store(t, Second(t)) /\ Go(t, "store2", "unlock2")

\* Mutant: the second mutex stays locked.
SkipUnlock2(t) == UNCHANGED <<owner, sequence, tmp, incs>> /\ Go(t, "unlock2", "unlock1")

Unlock2(t) == Release(Second(t)) /\ Go(t, "unlock2", "unlock1")

\* Mutant: a thread that is going to exit keeps its first mutex.
KeepUnlock1(t) ==
    /\ IF sequence[First(t)] = Limit
         THEN UNCHANGED <<owner, sequence, tmp, incs>>
         ELSE Release(First(t))
    /\ Go(t, "unlock1", "return")

Unlock1(t) == Release(First(t)) /\ Go(t, "unlock1", "return")

\* No mutex is held: the other thread may have moved the sequence on.
Return(t) ==
    /\ Go(t, "return", IF sequence[First(t)] = Limit THEN "exit" ELSE "lock1")
    /\ UNCHANGED <<owner, sequence, tmp, incs>>

\* main: pthread_create of the four threads, in order; 3 and 4 only sleep.
Create ==
    /\ main = "create"
    /\ pc' = [t \in Threads |-> IF t = tid THEN "lock1" ELSE pc[t]]
    /\ main' = IF tid = 4 THEN "join" ELSE "create"
    /\ tid' = IF tid = 4 THEN 1 ELSE tid + 1
    /\ UNCHANGED <<owner, sequence, tmp, incs>>

\* main: _exit(1), which ends the process whatever the threads are doing.
CreateFails ==
    /\ main = "create"
    /\ main' = "killed"
    /\ UNCHANGED <<threadVars, tid>>

\* main: pthread_join returns for a thread that has exited.
Join ==
    /\ main = "join"
    /\ tid \in Threads
    /\ pc[tid] = "exit"
    /\ tid' = tid + 1
    /\ UNCHANGED <<threadVars, main>>

Step(t) ==
    \/ Lock1(t) \/ Load1(t) \/ Store1(t)
    \/ Lock2(t) \/ Load2(t) \/ Store2(t)
    \/ Unlock2(t) \/ Unlock1(t) \/ Return(t)

Next == Create \/ CreateFails \/ Join \/ \E t \in Threads : Step(t)

Spec == Init /\ [][Next]_vars

\* The kernel runs every thread that can run; a mutex is not handed over
\* fairly, so a thread may lose the race for one for ever.
FairSpec ==
    /\ Spec
    /\ WF_vars(Create \/ CreateFails \/ Join)
    /\ \A t \in Threads : WF_vars(Step(t))

-----------------------------------------------------------------------------
Labels == {"new", "lock1", "load1", "store1", "lock2", "load2", "store2",
           "unlock2", "unlock1", "return", "exit"}

TypeOK ==
    /\ owner \in [Threads -> Threads \cup {None}]
    /\ sequence \in [Threads -> Nat]
    /\ pc \in [Threads -> Labels]
    /\ tmp \in [Threads -> Nat]
    /\ incs \in [Threads -> Nat]
    /\ main \in {"create", "join", "killed"}
    /\ tid \in 1..4

HoldsFirst(t) == pc[t] \in {"load1", "store1", "lock2", "load2", "store2", "unlock2", "unlock1"}
HoldsSecond(t) == pc[t] \in {"load2", "store2", "unlock2"}

\* Thread t has done the first ++ of its round and not the second.
Halfway(t) == IF pc[t] \in {"lock2", "load2", "store2"} THEN 1 ELSE 0

\* Each thread holds its first mutex and waits for the other's.
Deadlocked == \A t \in Threads : pc[t] = "lock2"

Blocked(t) ==
    \/ pc[t] \in {"new", "exit"}
    \/ pc[t] = "lock1" /\ owner[First(t)] # None
    \/ pc[t] = "lock2" /\ owner[Second(t)] # None

\* Both counters are incremented by both threads, each under its own mutex
\* whichever thread does it: no increment is lost.
NoLostIncrement == \A m \in Threads : sequence[m] = incs[m]

\* A round increments both counters, so they differ by the unfinished rounds.
CountersTogether == sequence[1] - sequence[2] \in {-1, 0, 1}

\* The crossed lock order is the only way to get stuck: while a thread is in
\* its loop, one of the two can always take a step unless they wait for each
\* other, as an exited thread has left both mutexes free.
StuckOnlyCrossed ==
    /\ \A t \in Threads : Blocked(t)
    /\ \E t \in Threads : pc[t] \notin {"new", "exit"}
    => Deadlocked

\* Nothing in the program breaks the deadlock once all threads are created:
\* main is blocked in pthread_join and the pthread_cancel is commented out.
NothingBreaksDeadlock ==
    [][Deadlocked /\ main = "join" => Deadlocked' /\ main' = "join" /\ tid' = tid]_vars

\* A thread exits only after its sequence has reached the limit, although the
\* value it compares is read without the mutex.
ExitsAtLimit == \A t \in Threads : pc[t] = "exit" => sequence[First(t)] >= Limit

\* What the two mutexes are there for, and what the thread that leaves its
\* loop may rely on.
CountersExact == NoLostIncrement /\ CountersTogether /\ ExitsAtLimit

\* The loop has exactly these ends: the process is gone, the threads wait for
\* each other, both exited, or the equality was missed and a counter ran past
\* the limit.
EndsSomehow ==
    <>(\/ main = "killed"
       \/ Deadlocked
       \/ \A t \in Threads : pc[t] = "exit"
       \/ \E t \in Threads : sequence[t] > Limit)

\* When one thread has exited the other is never blocked again: it exits too,
\* or has stepped over the limit and runs on, here until the model's bound.
SurvivorRunsOn ==
    \A t \in Threads :
        (main = "join" /\ pc[t] = "exit") ~>
            (pc[Second(t)] = "exit" \/ sequence[Second(t)] >= Bound)

\* The strengthening under which the safety properties are inductive.
LockInv ==
    /\ TypeOK
    /\ \A t \in Threads :
         /\ owner[First(t)] = t <=> HoldsFirst(t)
         /\ owner[Second(t)] = t <=> HoldsSecond(t)
         /\ pc[t] = "store1" => tmp[t] = sequence[First(t)]
         /\ pc[t] = "store2" => tmp[t] = sequence[Second(t)]
         /\ pc[t] = "exit" => sequence[First(t)] >= Limit
    /\ \A m \in Threads : sequence[m] = incs[m]
    /\ main = "create" => \A t \in Threads : t >= tid => pc[t] = "new"
    /\ sequence[1] - sequence[2] = Halfway(1) - Halfway(2)
=============================================================================
