------------------------- MODULE ArpResponderProofs -------------------------
(***************************************************************************)
(* Proofs about ArpResponder for every pool and every size of the queues.  *)
(***************************************************************************)
EXTENDS ArpResponder, FiniteSetTheorems, TLAPS

(* The inductive invariant: types, and where every reference is. *)
ArpInv == TypeOK /\ Accounted

(* Before the first frame every buffer is in the pool or in the receive queue. *)
LEMMA ArpInvInit == Init => ArpInv
<1> SUFFICES ASSUME Init PROVE ArpInv
  OBVIOUS
<1>1. TypeOK
  BY DEF Init, PoolInit, TypeOK, PoolType, Places
<1>2. \A b \in Bufs : free[b] + posted[b] = 1
  BY DEF Init, PoolInit
<1>3. \A b \in Bufs : Held(b) = 0
  BY DEF Init, Held
<1> QED
  BY <1>1, <1>2, <1>3 DEF ArpInv, Accounted, Init, PoolInit, TypeOK, PoolType, Places

(* The port, the driver and recv_dev_buffer only move references; the one *)
(* reference Release makes up is counted in over.                         *)
LEMMA ArpInvNext == ArpInv /\ [Next]_vars => ArpInv'
<1> SUFFICES ASSUME ArpInv, [Next]_vars PROVE ArpInv'
  OBVIOUS
<1> USE DEF ArpInv, TypeOK, PoolType, Places, Accounted, Held, Put, Take
<1>1. CASE Receive
  BY <1>1 DEF Receive, Arrive
<1>2. CASE Transmit
  BY <1>2 DEF Transmit, poolVars
<1>3. CASE Poll
  BY <1>3 DEF Poll, Deliver
<1>4. CASE Foreign
  BY <1>4 DEF Foreign, Drop
<1>5. CASE NoReply
  BY <1>5 DEF NoReply, Free
<1>6. CASE Request
  <2>1. CASE Empty(free)
    BY <1>6, <2>1 DEF Request
  <2>2. CASE ~Empty(free)
    BY <1>6, <2>2 DEF Request
  <2> QED
    BY <2>1, <2>2
<1>7. CASE TxBurst
  BY <1>7 DEF TxBurst
<1>8. CASE Release
  <2>1. /\ free' = Put(Put(free, send), recv) /\ over' = Put(over, send)
        /\ pc = "release" /\ pc' = "poll"
        /\ UNCHANGED <<posted, filled, leaked, tx, sent, recv, send>>
    BY <1>8 DEF Release
  <2>2. TypeOK'
    BY <2>1
  <2>3. \A b \in Bufs :
          /\ free'[b] = free[b] + (IF b = send THEN 1 ELSE 0)
                                + (IF b = recv THEN 1 ELSE 0)
          /\ over'[b] = over[b] + (IF b = send THEN 1 ELSE 0)
          /\ Held(b)' = 0 /\ Held(b) = IF b = recv THEN 1 ELSE 0
    BY <2>1
  <2>4. \A b \in Bufs :
          /\ posted'[b] = posted[b] /\ filled'[b] = filled[b] /\ leaked'[b] = leaked[b]
          /\ tx'[b] = tx[b] /\ sent'[b] = sent[b]
    BY <2>1
  <2>5. ASSUME NEW b \in Bufs
        PROVE  free'[b] + posted'[b] + filled'[b] + tx'[b] + sent'[b] + leaked'[b]
                 + Held(b)' = 1 + over'[b]
    <3>1. free[b] + posted[b] + filled[b] + tx[b] + sent[b] + leaked[b] + Held(b)
            = 1 + over[b]
      OBVIOUS
    <3>2. /\ free[b] \in Nat /\ posted[b] \in Nat /\ filled[b] \in Nat
          /\ tx[b] \in Nat /\ sent[b] \in Nat /\ leaked[b] \in Nat /\ over[b] \in Nat
      OBVIOUS
    <3> HIDE DEF Held, ArpInv, TypeOK, Accounted
    <3> QED
      BY <2>3, <2>4, <3>1, <3>2
  <2> QED
    BY <2>2, <2>5
<1>9. CASE UNCHANGED vars
  BY <1>9 DEF vars
<1> QED
  BY <1>1, <1>2, <1>3, <1>4, <1>5, <1>6, <1>7, <1>8, <1>9 DEF Next

(* Every variable keeps its type. *)
THEOREM TypeCorrect == Spec => []TypeOK
<1>1. ArpInv => TypeOK
  BY DEF ArpInv
<1> QED
  BY <1>1, ArpInvInit, ArpInvNext, PTL DEF Spec

(* recv_dev_buffer accounts for every reference: a buffer is in exactly one  *)
(* place, and in one more for each reply that was sent from it and freed.    *)
THEOREM ReferencesAccounted == Spec => []Accounted
<1>1. ArpInv => Accounted
  BY DEF ArpInv
<1> QED
  BY <1>1, ArpInvInit, ArpInvNext, PTL DEF Spec

-----------------------------------------------------------------------------
(* How many references a place holds, counted one by one. *)
LEMMA TotalType == ASSUME NEW p \in Places
                   PROVE  IsFiniteSet(References(p)) /\ Total(p) \in Nat
<1> DEFINE f == [b \in Bufs |-> {b} \X (1..p[b])]
           T == {{b} \X (1..p[b]) : b \in Bufs}
<1>1. f \in Surjection(Bufs, T)
  BY DEF Surjection
<1>2. IsFiniteSet(T)
  BY <1>1, FS_Surjection, PoolAssumption
<1>3. ASSUME NEW b \in Bufs PROVE IsFiniteSet({b} \X (1..p[b]))
  <2>1. IsFiniteSet({b})
    BY FS_Singleton
  <2>2. p[b] \in Int /\ 1 \in Int
    BY DEF Places
  <2>3. IsFiniteSet(1..p[b])
    BY <2>2, FS_Interval
  <2> QED
    BY <2>1, <2>3, FS_Product
<1>4. \A S \in T : IsFiniteSet(S)
  BY <1>3
<1>5. IsFiniteSet(UNION T)
  <2> HIDE DEF T
  <2> QED
    BY <1>2, <1>4, FS_UNION
<1> QED
  BY <1>5, FS_CardinalityType DEF References, Total

(* A reference that is put into a place is counted there once. *)
LEMMA TotalPut == ASSUME NEW p \in Places, NEW b \in Bufs
                  PROVE  Put(p, b) \in Places /\ Total(Put(p, b)) = Total(p) + 1
<1> DEFINE q == Put(p, b)
<1>1. q \in Places /\ q[b] = p[b] + 1 /\ \A c \in Bufs : c # b => q[c] = p[c]
  BY DEF Places, Put
<1>2. p[b] \in Nat
  BY DEF Places
<1>3. 1..q[b] = 1..p[b] \cup {p[b] + 1} /\ p[b] + 1 \notin 1..p[b]
  BY <1>1, <1>2
<1> HIDE DEF q
<1>4. References(q) = References(p) \cup {<<b, p[b] + 1>>}
  <2>1. ASSUME NEW r \in References(q) PROVE r \in References(p) \/ r = <<b, p[b] + 1>>
    <3>1. PICK c \in Bufs : r \in {c} \X (1..q[c])
      BY DEF References
    <3>2. CASE c = b
      BY <1>3, <3>1, <3>2 DEF References
    <3>3. CASE c # b
      BY <1>1, <3>1, <3>3 DEF References
    <3> QED
      BY <3>2, <3>3
  <2>2. ASSUME NEW r \in References(p) PROVE r \in References(q)
    <3>1. PICK c \in Bufs : r \in {c} \X (1..p[c])
      BY DEF References
    <3>2. r \in {c} \X (1..q[c])
      BY <1>1, <1>3, <3>1
    <3> QED
      BY <3>2 DEF References
  <2>3. <<b, p[b] + 1>> \in References(q)
    BY <1>3 DEF References
  <2> QED
    BY <2>1, <2>2, <2>3
<1>5. <<b, p[b] + 1>> \notin References(p)
  BY <1>3 DEF References
<1>6. Total(q) = Total(p) + 1
  BY <1>4, <1>5, TotalType, FS_AddElement DEF Total
<1> QED
  BY <1>1, <1>6 DEF q

(* A reference that is taken from a place is counted there no more. *)
LEMMA TotalTake == ASSUME NEW p \in Places, NEW b \in Bufs, p[b] > 0
                   PROVE  Take(p, b) \in Places /\ Total(Take(p, b)) = Total(p) - 1
<1>1. Take(p, b) \in Places /\ Put(Take(p, b), b) = p
  <2>1. \A c \in Bufs : p[c] \in Nat
    BY DEF Places
  <2>2. Take(p, b) = [c \in Bufs |-> IF c = b THEN p[b] - 1 ELSE p[c]]
    BY DEF Places, Take
  <2>3. Put(Take(p, b), b) = [c \in Bufs |-> p[c]]
    BY <2>1, <2>2 DEF Put
  <2>4. p = [c \in Bufs |-> p[c]]
    BY DEF Places
  <2> QED
    BY <2>1, <2>2, <2>3, <2>4 DEF Places
<1>2. Total(p) = Total(Take(p, b)) + 1
  BY <1>1, TotalPut
<1>3. Total(Take(p, b)) \in Nat
  BY <1>1, TotalType
<1> QED
  BY <1>1, <1>2, <1>3

(* A place without references counts for nothing. *)
LEMMA TotalEmpty == ASSUME NEW p \in Places, Empty(p) PROVE Total(p) = 0
<1>1. \A b \in Bufs : 1..p[b] = {}
  BY DEF Empty
<1>2. References(p) = {}
  BY <1>1 DEF References
<1> QED
  BY <1>2, FS_EmptySet DEF Total

(* A place that holds the buffers of S once each. *)
LEMMA TotalOnce ==
    ASSUME NEW S \in SUBSET Bufs, NEW p \in Places, \A b \in Bufs : p[b] = IF b \in S THEN 1 ELSE 0
    PROVE  Total(p) = Cardinality(S)
<1>1. \A b \in Bufs : 1..p[b] = IF b \in S THEN {1} ELSE {}
  <2>1. 1..1 = {1} /\ 1..0 = {}
    OBVIOUS
  <2> QED
    BY <2>1
<1>2. References(p) = S \X {1}
  <2>1. ASSUME NEW r \in References(p) PROVE r \in S \X {1}
    <3>1. PICK c \in Bufs : r \in {c} \X (1..p[c])
      BY DEF References
    <3> QED
      BY <1>1, <3>1
  <2>2. ASSUME NEW r \in S \X {1} PROVE r \in References(p)
    BY <1>1 DEF References
  <2> QED
    BY <2>1, <2>2
<1>3. IsFiniteSet(S) /\ IsFiniteSet({1}) /\ Cardinality({1}) = 1
  BY PoolAssumption, FS_Subset, FS_Singleton
<1>4. Cardinality(S \X {1}) = Cardinality(S) * 1 /\ Cardinality(S) \in Nat
  BY <1>3, FS_Product, FS_CardinalityType
<1> QED
  BY <1>2, <1>4 DEF Total

(* What one place takes over from another is counted in both. *)
LEMMA TotalMerged ==
    ASSUME NEW p \in Places, NEW q \in Places, NEW m, m = [b \in Bufs |-> p[b] + q[b]]
    PROVE  m \in Places /\ Total(m) = Total(p) + Total(q)
<1> DEFINE New == {<<r[1], p[r[1]] + r[2]>> : r \in References(q)}
           f == [r \in References(q) |-> <<r[1], p[r[1]] + r[2]>>]
<1>1. \A b \in Bufs : p[b] \in Nat /\ q[b] \in Nat /\ m[b] = p[b] + q[b]
  BY DEF Places
<1>2. m \in Places
  BY <1>1 DEF Places
<1>3. \A r \in References(p) : r \in Bufs \X Nat /\ r[2] \in 1..p[r[1]] /\ r = <<r[1], r[2]>>
  BY <1>1 DEF References
<1>4. \A r \in References(q) : r \in Bufs \X Nat /\ r[2] \in 1..q[r[1]] /\ r = <<r[1], r[2]>>
  BY <1>1 DEF References
<1>5. f \in Bijection(References(q), New)
  <2>1. f \in Surjection(References(q), New)
    BY DEF Surjection
  <2>2. ASSUME NEW r \in References(q), NEW s \in References(q), f[r] = f[s] PROVE r = s
    <3>1. r[1] = s[1] /\ p[r[1]] + r[2] = p[s[1]] + s[2]
      BY <2>2
    <3>2. r[2] \in Nat /\ s[2] \in Nat /\ p[r[1]] \in Nat
      BY <1>1, <1>4
    <3>3. r[2] = s[2]
      BY <3>1, <3>2
    <3> QED
      BY <1>4, <3>1, <3>3
  <2>3. f \in Injection(References(q), New)
    <3> HIDE DEF f, New
    <3> QED
      BY <2>1, <2>2 DEF Injection, IsInjective, Surjection
  <2> QED
    BY <2>1, <2>3 DEF Bijection
<1>6. ExistsBijection(References(q), New)
  BY <1>5 DEF ExistsBijection
<1>7. IsFiniteSet(New) /\ Cardinality(New) = Total(q)
  <2> HIDE DEF New
  <2> QED
    BY <1>6, TotalType, FS_Bijection DEF Total
<1>8. References(m) = References(p) \cup New
  <2>1. ASSUME NEW r \in References(m) PROVE r \in References(p) \cup New
    <3>1. PICK b \in Bufs : r \in {b} \X (1..m[b])
      BY DEF References
    <3>2. r[1] = b /\ r = <<b, r[2]>> /\ r[2] \in 1..p[b] + q[b]
      BY <1>1, <3>1
    <3>3. CASE r[2] <= p[b]
      <4>1. r \in {b} \X (1..p[b])
        BY <1>1, <3>2, <3>3
      <4> QED
        BY <4>1 DEF References
    <3>4. CASE r[2] > p[b]
      <4>1. r[2] - p[b] \in 1..q[b] /\ p[b] + (r[2] - p[b]) = r[2]
        BY <1>1, <3>2, <3>4
      <4>2. <<b, r[2] - p[b]>> \in References(q)
        BY <4>1 DEF References
      <4>3. r = <<<<b, r[2] - p[b]>>[1], p[<<b, r[2] - p[b]>>[1]] + <<b, r[2] - p[b]>>[2]>>
        BY <3>2, <4>1
      <4> QED
        BY <4>2, <4>3
    <3> QED
      BY <1>1, <3>2, <3>3, <3>4
  <2>2. ASSUME NEW r \in References(p) PROVE r \in References(m)
    <3>1. r[1] \in Bufs /\ r = <<r[1], r[2]>> /\ r[2] \in 1..p[r[1]]
      BY <1>3
    <3>2. r[2] \in 1..m[r[1]]
      BY <1>1, <3>1
    <3> QED
      BY <3>1, <3>2 DEF References
  <2>3. ASSUME NEW r \in References(q) PROVE <<r[1], p[r[1]] + r[2]>> \in References(m)
    <3>1. r[1] \in Bufs /\ r[2] \in 1..q[r[1]]
      BY <1>4
    <3>2. p[r[1]] + r[2] \in 1..m[r[1]]
      BY <1>1, <3>1
    <3> QED
      BY <3>1, <3>2 DEF References
  <2> QED
    BY <2>1, <2>2, <2>3
<1>9. References(p) \cap New = {}
  <2> SUFFICES ASSUME NEW r \in References(q), <<r[1], p[r[1]] + r[2]>> \in References(p) PROVE FALSE
    OBVIOUS
  <2>1. r[1] \in Bufs /\ r[2] \in 1..q[r[1]]
    BY <1>4
  <2>2. p[r[1]] + r[2] \in 1..p[r[1]]
    BY <1>3
  <2> QED
    BY <1>1, <2>1, <2>2
<1>10. Cardinality(References(m)) = Total(p) + Total(q)
  <2> HIDE DEF New
  <2>1. Cardinality(References(p) \cup New)
          = Cardinality(References(p)) + Cardinality(New) - Cardinality(References(p) \cap New)
    BY <1>7, TotalType, FS_Union
  <2>2. Cardinality(References(p) \cap New) = 0
    BY <1>9, FS_EmptySet
  <2>3. Total(p) \in Nat /\ Total(q) \in Nat
    BY TotalType
  <2>4. Cardinality(References(p)) = Total(p) /\ Cardinality(New) = Total(q)
    BY <1>7 DEF Total
  <2>5. Cardinality(References(p) \cup New) = Total(p) + Total(q) - 0
    BY <2>1, <2>2, <2>4
  <2>6. Cardinality(References(m)) = Cardinality(References(p) \cup New)
    BY <1>8, Zenon
  <2> QED
    BY <2>3, <2>5, <2>6
<1> QED
  BY <1>2, <1>10 DEF Total
-----------------------------------------------------------------------------
(* The buffers recv_dev_buffer works on: the frame it received, and a reply *)
(* that the driver has not taken.                                           *)
Hands == (IF pc # "poll" THEN 1 ELSE 0) + (IF pc = "transmit" \/ pc = "exit" THEN 1 ELSE 0)

(* The receive queue stays full, the transmit queue is never overfull, and  *)
(* all references together are one for each buffer and each early free.     *)
CountInv ==
    /\ Total(posted) + Total(filled) = RxSize
    /\ Total(tx) + Total(sent) <= TxSize
    /\ Total(free) + RxSize + Total(tx) + Total(sent) + Total(leaked) + Hands
         = Cardinality(Bufs) + Total(over)

(* After the start-up the receive queue is filled from the pool. *)
LEMMA CountInvInit == Init => CountInv
<1> SUFFICES ASSUME Init PROVE CountInv
  OBVIOUS
<1>1. PICK S \in SUBSET Bufs :
         /\ Cardinality(S) = RxSize
         /\ posted = [b \in Bufs |-> IF b \in S THEN 1 ELSE 0]
         /\ free = [b \in Bufs |-> IF b \in S THEN 0 ELSE 1]
  BY DEF Init, PoolInit
<1>2. posted \in Places /\ free \in Places
  BY <1>1 DEF Places
<1>3. Total(posted) = RxSize
  BY <1>1, <1>2, TotalOnce
<1>4. Total(free) = Cardinality(Bufs \ S)
  <2>1. \A b \in Bufs : free[b] = IF b \in Bufs \ S THEN 1 ELSE 0
    BY <1>1
  <2>2. Bufs \ S \in SUBSET Bufs
    OBVIOUS
  <2> QED
    BY <1>2, <2>1, <2>2, TotalOnce
<1>5. Cardinality(Bufs \ S) = Cardinality(Bufs) - RxSize
  <2>1. Bufs \cap S = S
    OBVIOUS
  <2>2. Cardinality(Bufs \ S) = Cardinality(Bufs) - Cardinality(Bufs \cap S)
    BY PoolAssumption, FS_Difference
  <2> QED
    BY <1>1, <2>1, <2>2
<1>6. \A p : p = [b \in Bufs |-> 0] => p \in Places /\ Empty(p)
  BY DEF Places, Empty
<1>7. Total(filled) = 0 /\ Total(leaked) = 0 /\ Total(tx) = 0 /\ Total(sent) = 0 /\ Total(over) = 0
  BY <1>6, TotalEmpty DEF Init, PoolInit
<1>8. Hands = 0
  BY DEF Init, Hands
<1>9. Cardinality(Bufs) \in Nat /\ RxSize \in Nat /\ TxSize \in Nat
  BY PoolAssumption, TxAssumption, FS_CardinalityType
<1> QED
  BY <1>3, <1>4, <1>5, <1>7, <1>8, <1>9 DEF CountInv

(* A step takes a reference from one place and puts it into another.  What *)
(* leaves recv_dev_buffer's hands unfreed is counted in leaked, and what   *)
(* it frees although the driver holds it in over.                          *)
LEMMA CountInvNext == TypeOK /\ CountInv /\ [Next]_vars => CountInv'
<1> SUFFICES ASSUME TypeOK, CountInv, [Next]_vars PROVE CountInv'
  OBVIOUS
<1>1. /\ free \in Places /\ posted \in Places /\ filled \in Places /\ leaked \in Places
      /\ tx \in Places /\ sent \in Places /\ over \in Places /\ recv \in Bufs /\ send \in Bufs
  BY DEF TypeOK, PoolType
<1>2. \A p \in Places : Total(p) \in Nat
  BY TotalType
<1>3. Cardinality(Bufs) \in Nat /\ RxSize \in Nat /\ TxSize \in Nat
  BY PoolAssumption, TxAssumption, FS_CardinalityType
<1>4. CASE Receive
  <2>1. PICK b \in Bufs : posted[b] > 0 /\ posted' = Take(posted, b) /\ filled' = Put(filled, b)
    BY <1>4 DEF Receive, Arrive
  <2>2. Total(posted') = Total(posted) - 1 /\ Total(filled') = Total(filled) + 1
    BY <1>1, <2>1, TotalTake, TotalPut
  <2>3. UNCHANGED <<free, leaked, tx, sent, pc, recv, send, over>>
    BY <1>4 DEF Receive, Arrive
  <2> QED
    BY <1>1, <1>2, <2>2, <2>3 DEF CountInv, Hands
<1>5. CASE Transmit
  <2>1. PICK b \in Bufs : tx[b] > 0 /\ tx' = Take(tx, b) /\ sent' = Put(sent, b)
    BY <1>5 DEF Transmit
  <2>2. Total(tx') = Total(tx) - 1 /\ Total(sent') = Total(sent) + 1
    BY <1>1, <2>1, TotalTake, TotalPut
  <2>3. UNCHANGED <<free, posted, filled, leaked, pc, recv, send, over>>
    BY <1>5 DEF Transmit, poolVars
  <2> QED
    BY <1>1, <1>2, <2>2, <2>3 DEF CountInv, Hands
<1>6. CASE Poll
  <2>1. PICK b \in Bufs, new \in Bufs :
          /\ filled[b] > 0 /\ filled' = Take(filled, b)
          /\ free[new] > 0 /\ free' = Take(free, new) /\ posted' = Put(posted, new)
    BY <1>6 DEF Poll, Deliver
  <2>2. /\ Total(filled') = Total(filled) - 1
        /\ Total(free') = Total(free) - 1 /\ Total(posted') = Total(posted) + 1
    BY <1>1, <2>1, TotalTake, TotalPut
  <2>3. UNCHANGED <<leaked, tx, sent, over>> /\ pc = "poll" /\ pc' = "parse"
    BY <1>6 DEF Poll, Deliver
  <2> QED
    BY <1>1, <1>2, <1>3, <2>2, <2>3 DEF CountInv, Hands
<1>7. CASE Foreign
  <2>1. Total(leaked') = Total(leaked) + 1
    BY <1>1, <1>7, TotalPut DEF Foreign, Drop
  <2>2. UNCHANGED <<free, posted, filled, tx, sent, over>> /\ pc = "parse" /\ pc' = "poll"
    BY <1>7 DEF Foreign, Drop
  <2> QED
    BY <1>1, <1>2, <1>3, <2>1, <2>2 DEF CountInv, Hands
<1>8. CASE NoReply
  <2>1. Total(free') = Total(free) + 1
    BY <1>1, <1>8, TotalPut DEF NoReply, Free
  <2>2. UNCHANGED <<posted, filled, leaked, tx, sent, over>> /\ pc = "parse" /\ pc' = "poll"
    BY <1>8 DEF NoReply, Free
  <2> QED
    BY <1>1, <1>2, <1>3, <2>1, <2>2 DEF CountInv, Hands
<1>9. CASE Request
  <2>1. UNCHANGED <<posted, filled, leaked, tx, sent, over>> /\ pc = "parse"
    BY <1>9 DEF Request
  <2>2. CASE Empty(free)
    <3>1. pc' = "crashed" /\ free' = free
      BY <1>9, <2>2 DEF Request
    <3> QED
      BY <2>1, <3>1 DEF CountInv, Hands
  <2>3. CASE ~Empty(free)
    <3>1. PICK b \in Bufs : free[b] > 0 /\ free' = Take(free, b) /\ pc' = "transmit"
      BY <1>9, <2>3 DEF Request
    <3>2. Total(free') = Total(free) - 1
      BY <1>1, <3>1, TotalTake
    <3> QED
      BY <1>1, <1>2, <1>3, <2>1, <3>1, <3>2 DEF CountInv, Hands
  <2> QED
    BY <2>2, <2>3
<1>10. CASE TxBurst
  <2>1. UNCHANGED <<posted, filled, leaked, over>> /\ pc = "transmit"
    BY <1>10 DEF TxBurst
  <2>2. free' \in Places /\ sent' \in Places /\ Total(free') + Total(sent') = Total(free) + Total(sent)
    <3>1. CASE free' = [b \in Bufs |-> free[b] + sent[b]] /\ sent' = [b \in Bufs |-> 0]
      <4>1. free' \in Places /\ Total(free') = Total(free) + Total(sent)
        BY <1>1, <3>1, TotalMerged
      <4>2. sent' \in Places /\ Empty(sent')
        BY <3>1 DEF Places, Empty
      <4>3. Total(sent') = 0
        BY <4>2, TotalEmpty
      <4> QED
        BY <1>1, <1>2, <4>1, <4>2, <4>3
    <3>2. CASE UNCHANGED <<free, sent>>
      BY <1>1, <3>2
    <3> QED
      BY <1>10, <3>1, <3>2 DEF TxBurst
  <2>3. Total(sent') <= Total(sent)
    <3>1. CASE sent' = [b \in Bufs |-> 0]
      <4>1. Empty(sent')
        BY <3>1 DEF Empty
      <4> QED
        BY <1>1, <1>2, <2>2, <4>1, TotalEmpty
    <3>2. CASE sent' = sent
      BY <1>1, <1>2, <3>2
    <3> QED
      BY <1>10, <3>1, <3>2 DEF TxBurst
  <2>4. CASE Total(tx) + Total(sent') < TxSize
    <3>1. tx' = Put(tx, send) /\ pc' = "release"
      BY <1>10, <2>4 DEF TxBurst
    <3>2. Total(tx') = Total(tx) + 1
      BY <1>1, <3>1, TotalPut
    <3>3. Total(free') \in Nat /\ Total(sent') \in Nat /\ Total(tx) \in Nat
      BY <1>1, <1>2, <2>2
    <3>4. Hands = 2 /\ Hands' = 1
      BY <2>1, <3>1 DEF Hands
    <3>5. Total(tx') + Total(sent') <= TxSize
      BY <1>3, <2>4, <3>2, <3>3
    <3> QED
      BY <1>1, <1>2, <1>3, <2>1, <2>2, <3>2, <3>3, <3>4, <3>5 DEF CountInv
  <2>5. CASE ~(Total(tx) + Total(sent') < TxSize)
    <3>1. tx' = tx /\ pc' = "exit"
      BY <1>10, <2>5 DEF TxBurst
    <3> QED
      BY <1>1, <1>2, <1>3, <2>1, <2>2, <2>3, <3>1 DEF CountInv, Hands
  <2> QED
    BY <2>4, <2>5
<1>11. CASE Release
  <2>1. UNCHANGED <<posted, filled, leaked, tx, sent>> /\ pc = "release" /\ pc' = "poll"
    BY <1>11 DEF Release
  <2>2. free' = Put(Put(free, send), recv) /\ over' = Put(over, send)
    BY <1>11 DEF Release
  <2>3. Put(free, send) \in Places /\ Total(Put(free, send)) = Total(free) + 1
    BY <1>1, TotalPut
  <2>4. Total(free') = Total(Put(free, send)) + 1 /\ Total(over') = Total(over) + 1
    BY <1>1, <2>2, <2>3, TotalPut
  <2> QED
    BY <1>1, <1>2, <1>3, <2>1, <2>3, <2>4 DEF CountInv, Hands
<1>12. CASE UNCHANGED vars
  BY <1>12 DEF vars, CountInv, Hands
<1> QED
  BY <1>4, <1>5, <1>6, <1>7, <1>8, <1>9, <1>10, <1>11, <1>12 DEF Next

(* The pool of recv_dev_buffer runs dry only after frames for other         *)
(* stations were dropped: all buffers but those in the two queues and two   *)
(* in the program's hands, and one more for every reply.                    *)
THEOREM PoolRunsDryByDrops == Spec => []DryOnlyByDrops
<1>1. ASSUME TypeOK, CountInv, Empty(free)
      PROVE  Total(leaked) + RxSize + TxSize + 2 >= Cardinality(Bufs) + Total(over)
  <2>1. Total(free) = 0
    BY <1>1, TotalEmpty DEF TypeOK, PoolType
  <2>2. /\ Total(leaked) \in Nat /\ Total(tx) \in Nat /\ Total(sent) \in Nat /\ Total(over) \in Nat
        /\ Cardinality(Bufs) \in Nat /\ RxSize \in Nat /\ TxSize \in Nat
    BY <1>1, TotalType, PoolAssumption, TxAssumption, FS_CardinalityType DEF TypeOK, PoolType
  <2>3. Hands \in 0..2
    BY DEF Hands
  <2> QED
    BY <1>1, <2>1, <2>2, <2>3 DEF CountInv
<1>2. TypeOK /\ CountInv => DryOnlyByDrops
  BY <1>1 DEF DryOnlyByDrops
<1> QED
  BY <1>2, TypeCorrect, CountInvInit, CountInvNext, PTL DEF Spec
=============================================================================
