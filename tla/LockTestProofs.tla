--------------------------- MODULE LockTestProofs ---------------------------
(***************************************************************************)
(* Proofs about LockTest for every Limit and Bound.                        *)
(***************************************************************************)
EXTENDS LockTest, TLAPS

(* The process starts with both mutexes free and no thread created. *)
LEMMA LockInvInit == Init => LockInv
<1> SUFFICES ASSUME Init PROVE LockInv
  OBVIOUS
<1>1. TypeOK
  BY DEF Init, TypeOK, Labels, Threads, None
<1> QED
  BY <1>1 DEF Init, LockInv, HoldsFirst, HoldsSecond, Halfway, Threads, None, First, Second

(* Every step of a thread, and every step of main, keeps LockInv. *)
LEMMA LockInvNext == LockInv /\ [Next]_vars => LockInv'
<1> SUFFICES ASSUME LockInv, [Next]_vars PROVE LockInv'
  OBVIOUS
<1> USE DEF LockInv, TypeOK, Labels, Threads, None, First, Second,
            HoldsFirst, HoldsSecond, Halfway
<1>1. ASSUME NEW t \in Threads, Lock1(t) PROVE LockInv'
  BY <1>1 DEF Lock1, Go, Acquire
<1>2. ASSUME NEW t \in Threads, Load1(t) PROVE LockInv'
  BY <1>2 DEF Load1, Go, Load
<1>3. ASSUME NEW t \in Threads, Store1(t) PROVE LockInv'
  BY <1>3 DEF Store1, Go, Store
<1>4. ASSUME NEW t \in Threads, Lock2(t) PROVE LockInv'
  BY <1>4 DEF Lock2, Go, Acquire
<1>5. ASSUME NEW t \in Threads, Load2(t) PROVE LockInv'
  BY <1>5 DEF Load2, Go, Load
<1>6. ASSUME NEW t \in Threads, Store2(t) PROVE LockInv'
  <2> DEFINE m == Second(t)
  <2>1. /\ m \in Threads /\ m # t /\ First(t) = t /\ First(m) = m /\ Second(m) = t
        /\ Threads = {t, m}
    OBVIOUS
  <2>2. /\ pc[t] = "store2" /\ pc' = [pc EXCEPT ![t] = "unlock2"]
        /\ sequence' = [sequence EXCEPT ![m] = sequence[m] + 1]
        /\ incs' = [incs EXCEPT ![m] = incs[m] + 1]
        /\ UNCHANGED <<owner, tmp, main, tid>>
    BY <1>6 DEF Store2, Go, Store
  <2>3. pc[m] # "store1"
    BY <2>1, <2>2
  <2>4. TypeOK'
    BY <2>1, <2>2
  <2>5. \A i \in Threads : sequence'[i] = incs'[i]
    BY <2>1, <2>2
  <2>6. sequence'[1] - sequence'[2] = (Halfway(1) - Halfway(2))'
    BY <2>1, <2>2
  <2>7. main' = "create" => \A i \in Threads : i >= tid' => pc'[i] = "new"
    BY <2>1, <2>2
  <2>8. \A i \in Threads :
          /\ owner'[First(i)] = i <=> HoldsFirst(i)'
          /\ owner'[Second(i)] = i <=> HoldsSecond(i)'
    BY <2>1, <2>2
  <2>9. \A i \in Threads :
          /\ pc'[i] = "store1" => tmp'[i] = sequence'[First(i)]
          /\ pc'[i] = "store2" => tmp'[i] = sequence'[Second(i)]
          /\ pc'[i] = "exit" => sequence'[First(i)] >= Limit
    BY <2>1, <2>2, <2>3, LimitAssumption
  <2> QED
    BY <2>4, <2>5, <2>6, <2>7, <2>8, <2>9
<1>7. ASSUME NEW t \in Threads, Unlock2(t) PROVE LockInv'
  BY <1>7 DEF Unlock2, Go, Release
<1>8. ASSUME NEW t \in Threads, Unlock1(t) PROVE LockInv'
  BY <1>8 DEF Unlock1, Go, Release
<1>9. ASSUME NEW t \in Threads, Return(t) PROVE LockInv'
  BY <1>9, LimitAssumption DEF Return, Go
<1>10. CASE Create
  BY <1>10 DEF Create
<1>11. CASE CreateFails
  BY <1>11 DEF CreateFails, threadVars
<1>12. CASE Join
  BY <1>12 DEF Join, threadVars
<1>13. CASE UNCHANGED vars
  BY <1>13 DEF vars
<1> QED
  BY <1>1, <1>2, <1>3, <1>4, <1>5, <1>6, <1>7, <1>8, <1>9, <1>10, <1>11,
     <1>12, <1>13 DEF Next, Step

(* The inductive invariant of lock_test.c. *)
THEOREM LockInvariant == Spec => []LockInv
BY LockInvInit, LockInvNext, PTL DEF Spec

(* Every variable keeps its type. *)
THEOREM TypeCorrect == Spec => []TypeOK
<1>1. LockInv => TypeOK
  BY DEF LockInv
<1> QED
  BY <1>1, LockInvariant, PTL

(* ++sequence1 and ++sequence2 in func1 and func2 lose no increment: whoever *)
(* executes one holds the mutex of that counter.                             *)
THEOREM NoIncrementLost == Spec => []NoLostIncrement
<1>1. LockInv => NoLostIncrement
  BY DEF LockInv, NoLostIncrement
<1> QED
  BY <1>1, LockInvariant, PTL

(* sequence1 and sequence2 never differ by more than one. *)
THEOREM CountersStayTogether == Spec => []CountersTogether
<1>1. LockInv => CountersTogether
  BY DEF LockInv, CountersTogether, Halfway
<1> QED
  BY <1>1, LockInvariant, PTL

(* The AB-BA wait of func1 and func2 is the only state in which a thread in  *)
(* its loop is stuck with nobody able to move.                               *)
THEOREM OnlyCrossedWait == Spec => []StuckOnlyCrossed
<1>1. LockInv => StuckOnlyCrossed
  BY DEF LockInv, TypeOK, Labels, StuckOnlyCrossed, Blocked, Deadlocked, HoldsFirst,
         HoldsSecond, First, Second, Threads, None
<1> QED
  BY <1>1, LockInvariant, PTL

(* A thread that exits has seen its counter reach the limit. *)
THEOREM ExitMeansLimit == Spec => []ExitsAtLimit
<1>1. LockInv => ExitsAtLimit
  BY DEF LockInv, ExitsAtLimit
<1> QED
  BY <1>1, LockInvariant, PTL

(* No count is lost, the counters stay together and a thread exits at the  *)
(* limit, whatever the limit is.                                           *)
THEOREM CountersAreExact == Spec => []CountersExact
<1> QED
  BY NoIncrementLost, CountersStayTogether, ExitMeansLimit, PTL DEF CountersExact

(* Once main waits in pthread_join, a deadlock is for ever. *)
THEOREM DeadlockIsFinal == Spec => NothingBreaksDeadlock
<1>1. ASSUME LockInv, [Next]_vars, Deadlocked, main = "join"
      PROVE  Deadlocked' /\ main' = "join" /\ tid' = tid
  <2>1. \A t \in Threads : owner[First(t)] # None /\ owner[Second(t)] # None
    BY <1>1 DEF LockInv, Deadlocked, HoldsFirst, First, Second, Threads, None
  <2>2. ASSUME NEW t \in Threads, Step(t) PROVE FALSE
    BY <1>1, <2>1, <2>2 DEF Deadlocked, Step, Go, Acquire, Lock1, Load1, Store1, Lock2,
       Load2, Store2, Unlock2, Unlock1, Return
  <2>3. ~Join
    BY <1>1 DEF Join, Deadlocked
  <2> QED
    BY <1>1, <2>2, <2>3 DEF Next, Create, CreateFails, vars, Deadlocked
<1> QED
  BY <1>1, LockInvariant, PTL DEF Spec, NothingBreaksDeadlock
=============================================================================
