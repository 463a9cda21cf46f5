-------------------------- MODULE FlowFilterProofs --------------------------
(***************************************************************************)
(* Proofs about FlowFilter for every pool, receive queue and burst.        *)
(***************************************************************************)
EXTENDS FlowFilter, FiniteSetTheorems, TLAPS

(* A reference more in a place. *)
LEMMA Putting ==
    ASSUME NEW place \in Places, NEW b \in Bufs
    PROVE  /\ Put(place, b) \in Places
           /\ \A c \in Bufs : Put(place, b)[c] = place[c] + (IF c = b THEN 1 ELSE 0)
BY DEF Places, Put

(* A reference less in a place. *)
LEMMA Taking ==
    ASSUME NEW place \in Places, NEW b \in Bufs, place[b] > 0
    PROVE  /\ Take(place, b) \in Places
           /\ \A c \in Bufs : Take(place, b)[c] = place[c] - (IF c = b THEN 1 ELSE 0)
<1>1. \A c \in Bufs : place[c] \in Nat
  BY DEF Places
<1>2. Take(place, b) = [c \in Bufs |-> IF c = b THEN place[c] - 1 ELSE place[c]]
  BY DEF Places, Take
<1>3. place[b] - 1 \in Nat
  BY <1>1
<1> QED
  BY <1>1, <1>2, <1>3 DEF Places

(* The positions InHand counts, and the buffers of the receive queue. *)
Entries(b) == {k \in DOMAIN bufs : bufs[k] = b}
Queued == {b \in Bufs : posted[b] + filled[b] > 0}

(* The inductive invariant: main_loop is at a frame only when there is one. *)
FlowInv == Accounted /\ (pc = "frames" => bufs # <<>>)

(* What the invariant says of one buffer. *)
LEMMA OnePlace ==
    ASSUME FlowInv, NEW b \in Bufs
    PROVE  /\ free[b] \in Nat /\ posted[b] \in Nat /\ filled[b] \in Nat /\ leaked[b] \in Nat
           /\ IsFiniteSet(Entries(b)) /\ InHand(b) = Cardinality(Entries(b)) /\ InHand(b) \in Nat
           /\ free[b] + posted[b] + filled[b] + leaked[b] + InHand(b) = 1
<1>1. TypeOK
  BY DEF FlowInv, Accounted
<1>2. free[b] \in Nat /\ posted[b] \in Nat /\ filled[b] \in Nat /\ leaked[b] \in Nat
  BY <1>1 DEF TypeOK, PoolType, Places
<1>3. Len(bufs) \in Nat /\ DOMAIN bufs = 1..Len(bufs)
  BY <1>1 DEF TypeOK
<1>4. IsFiniteSet(1..Len(bufs))
  BY <1>3, FS_Interval
<1>5. Entries(b) \in SUBSET (1..Len(bufs))
  BY <1>3 DEF Entries
<1>6. IsFiniteSet(Entries(b))
  BY <1>4, <1>5, FS_Subset
<1>7. InHand(b) = Cardinality(Entries(b))
  BY DEF InHand, Entries
<1> QED
  BY <1>2, <1>6, <1>7, FS_CardinalityType DEF FlowInv, Accounted

(* Before the first frame the pool and the receive queue hold every buffer. *)
LEMMA FlowInvInit == Init => FlowInv
<1> SUFFICES ASSUME Init PROVE FlowInv
  OBVIOUS
<1>1. PICK S \in SUBSET Bufs :
        /\ Cardinality(S) = RxSize
        /\ posted = [b \in Bufs |-> IF b \in S THEN 1 ELSE 0]
        /\ free = [b \in Bufs |-> IF b \in S THEN 0 ELSE 1]
  BY DEF Init, PoolInit
<1>2. filled = [b \in Bufs |-> 0] /\ leaked = [b \in Bufs |-> 0]
  BY DEF Init, PoolInit
<1>3. TypeOK
  <2>1. free \in Places /\ posted \in Places
    BY <1>1 DEF Places
  <2>2. filled \in Places /\ leaked \in Places
    BY <1>2 DEF Places
  <2>3. bufs \in Seq(Bufs)
    BY DEF Init
  <2>4. rule = FALSE /\ pc = "validate"
    BY DEF Init
  <2> QED
    BY <2>1, <2>2, <2>3, <2>4 DEF TypeOK, PoolType
<1>4. Queued = S
  BY <1>1, <1>2 DEF Queued
<1>5. ASSUME NEW b \in Bufs
      PROVE  free[b] + posted[b] + filled[b] + leaked[b] + InHand(b) = 1
  <2>1. Entries(b) = {}
    BY DEF Init, Entries
  <2>2. InHand(b) = 0
    BY <2>1, FS_EmptySet DEF InHand, Entries
  <2> QED
    BY <1>1, <1>2, <2>2
<1> QED
  BY <1>1, <1>3, <1>4, <1>5 DEF FlowInv, Accounted, Queued, Init

(* main_loop goes on from the frame it is at. *)
LEMMA HandedOn ==
    ASSUME FlowInv, NextFrame
    PROVE  /\ Head(bufs) \in Bufs /\ bufs' \in Seq(Bufs) /\ pc' \in {"burst", "frames"}
           /\ pc' = "frames" => bufs' # <<>>
           /\ \A b \in Bufs : InHand(b)' = InHand(b) - (IF b = Head(bufs) THEN 1 ELSE 0)
<1>1. /\ bufs \in Seq(Bufs) /\ bufs # <<>> /\ bufs' = Tail(bufs)
      /\ pc' = IF Tail(bufs) = <<>> THEN "burst" ELSE "frames"
  BY DEF FlowInv, Accounted, TypeOK, NextFrame
<1>2. /\ Len(bufs) \in Nat \ {0} /\ DOMAIN bufs = 1..Len(bufs)
      /\ Head(bufs) = bufs[1] /\ Head(bufs) \in Bufs
      /\ Tail(bufs) \in Seq(Bufs) /\ Len(Tail(bufs)) = Len(bufs) - 1
  BY <1>1
<1>3. \A k \in 1..Len(bufs) - 1 : Tail(bufs)[k] = bufs[k + 1]
  BY <1>1, <1>2
<1>4. DOMAIN bufs' = 1..Len(bufs) - 1
  BY <1>1, <1>2
<1>5. ASSUME NEW b \in Bufs
      PROVE  InHand(b)' = InHand(b) - (IF b = Head(bufs) THEN 1 ELSE 0)
  <2>1. Entries(b)' = {k \in 1..Len(bufs) - 1 : bufs[k + 1] = b}
    BY <1>1, <1>3, <1>4 DEF Entries
  <2>2. Entries(b) = {k \in 1..Len(bufs) : bufs[k] = b}
    BY <1>2 DEF Entries
  <2>3. InHand(b)' = Cardinality(Entries(b)')
    BY DEF InHand, Entries
  <2>4. /\ IsFiniteSet(Entries(b)) /\ InHand(b) = Cardinality(Entries(b))
        /\ InHand(b) \in Nat /\ InHand(b) <= 1
    <3>1. /\ free[b] \in Nat /\ posted[b] \in Nat /\ filled[b] \in Nat /\ leaked[b] \in Nat
          /\ InHand(b) \in Nat /\ free[b] + posted[b] + filled[b] + leaked[b] + InHand(b) = 1
      BY OnePlace
    <3> QED
      BY <3>1, OnePlace
  <2>5. b = Head(bufs) <=> 1 \in Entries(b)
    BY <1>2, <2>2
  <2>6. CASE InHand(b) = 0
    <3>1. Entries(b) = {}
      BY <2>4, <2>6, FS_EmptySet
    <3>2. Entries(b)' = {}
      BY <1>2, <2>1, <2>2, <3>1
    <3> QED
      BY <2>3, <2>5, <2>6, <3>1, <3>2, FS_EmptySet
  <2>7. CASE InHand(b) = 1
    <3>1. PICK x : Entries(b) = {x}
      BY <2>4, <2>7, FS_Singleton
    <3>2. x \in 1..Len(bufs) /\ bufs[x] = b
      BY <2>2, <3>1
    <3>3. \A k \in 1..Len(bufs) : bufs[k] = b => k = x
      BY <2>2, <3>1
    <3>4. CASE x = 1
      <4>1. ASSUME NEW k \in 1..Len(bufs) - 1 PROVE bufs[k + 1] # b
        <5>1. k + 1 \in 1..Len(bufs) /\ k + 1 # 1
          BY <1>2
        <5> QED
          BY <3>3, <3>4, <5>1
      <4>2. Entries(b)' = {}
        BY <2>1, <4>1
      <4> QED
        BY <2>3, <2>5, <2>7, <3>1, <3>4, <4>2, FS_EmptySet
    <3>5. CASE x # 1
      <4>1. x - 1 \in 1..Len(bufs) - 1 /\ x - 1 + 1 = x
        BY <1>2, <3>2, <3>5
      <4>2. \A k \in 1..Len(bufs) - 1 : bufs[k + 1] = b => k = x - 1
        <5>1. ASSUME NEW k \in 1..Len(bufs) - 1, bufs[k + 1] = b PROVE k = x - 1
          <6>1. k + 1 \in 1..Len(bufs)
            BY <1>2
          <6>2. k + 1 = x
            BY <3>3, <5>1, <6>1
          <6> QED
            BY <6>2
        <5> QED
          BY <5>1
      <4>3. Entries(b)' = {x - 1}
        BY <2>1, <3>2, <4>1, <4>2
      <4>4. b # Head(bufs)
        BY <2>5, <3>1, <3>5
      <4>5. Cardinality({x - 1}) = 1
        BY FS_Singleton
      <4> QED
        BY <2>3, <2>7, <4>3, <4>4, <4>5
    <3> QED
      BY <3>4, <3>5
  <2> QED
    BY <2>4, <2>6, <2>7
<1> QED
  BY <1>1, <1>2, <1>5

(* rte_eth_rx_burst moves one buffer out of the receive queue and one in. *)
LEMMA FetchKeeps == ASSUME FlowInv, Fetch PROVE FlowInv'
<1>1. PICK f \in Bufs : Deliver(f) /\ bufs' = Append(bufs, f)
  BY DEF Fetch
<1>2. PICK new \in Bufs : free[new] > 0 /\ free' = Take(free, new) /\ posted' = Put(posted, new)
  BY <1>1 DEF Deliver
<1>3. /\ free \in Places /\ posted \in Places /\ filled \in Places /\ leaked \in Places
      /\ bufs \in Seq(Bufs) /\ TypeOK
  BY DEF FlowInv, Accounted, TypeOK, PoolType
<1>4. pc = "burst" /\ pc' = "burst" /\ rule' = rule
  BY DEF Fetch
<1>5. filled[f] > 0 /\ filled' = Take(filled, f) /\ leaked' = leaked
  BY <1>1 DEF Deliver
<1>6. free' \in Places /\ \A b \in Bufs : free'[b] = free[b] - (IF b = new THEN 1 ELSE 0)
  BY <1>2, <1>3, Taking
<1>7. posted' \in Places /\ \A b \in Bufs : posted'[b] = posted[b] + (IF b = new THEN 1 ELSE 0)
  BY <1>2, <1>3, Putting
<1>8. filled' \in Places /\ \A b \in Bufs : filled'[b] = filled[b] - (IF b = f THEN 1 ELSE 0)
  BY <1>3, <1>5, Taking
<1>9. TypeOK'
  <2>1. bufs' \in Seq(Bufs)
    BY <1>1, <1>3
  <2> QED
    BY <1>3, <1>4, <1>5, <1>6, <1>7, <1>8, <2>1 DEF TypeOK, PoolType
<1>10. ASSUME NEW b \in Bufs
       PROVE  InHand(b)' = InHand(b) + (IF b = f THEN 1 ELSE 0)
  <2>1. /\ Len(bufs) \in Nat /\ DOMAIN bufs = 1..Len(bufs) /\ DOMAIN bufs' = 1..Len(bufs) + 1
        /\ bufs'[Len(bufs) + 1] = f /\ \A k \in 1..Len(bufs) : bufs'[k] = bufs[k]
    BY <1>1, <1>3
  <2>2. 1..Len(bufs) + 1 = (1..Len(bufs)) \cup {Len(bufs) + 1} /\ Len(bufs) + 1 \notin 1..Len(bufs)
    BY <2>1
  <2>3. Entries(b)' = {k \in 1..Len(bufs) + 1 : bufs'[k] = b} /\ Entries(b) = {k \in 1..Len(bufs) : bufs[k] = b}
    BY <2>1 DEF Entries
  <2>4. Entries(b)' = IF b = f THEN Entries(b) \cup {Len(bufs) + 1} ELSE Entries(b)
    BY <2>1, <2>2, <2>3
  <2>5. Len(bufs) + 1 \notin Entries(b)
    BY <2>2, <2>3
  <2>6. IsFiniteSet(Entries(b)) /\ InHand(b) = Cardinality(Entries(b)) /\ InHand(b) \in Nat
    BY OnePlace
  <2>7. InHand(b)' = Cardinality(Entries(b)')
    BY DEF InHand, Entries
  <2> HIDE DEF Entries, InHand
  <2>8. Cardinality(Entries(b) \cup {Len(bufs) + 1}) = Cardinality(Entries(b)) + 1
    BY <2>5, <2>6, FS_AddElement
  <2> QED
    BY <2>4, <2>6, <2>7, <2>8
<1>11. ASSUME NEW b \in Bufs
       PROVE  (free[b] + posted[b] + filled[b] + leaked[b] + InHand(b))' = 1
  <2>1. /\ free'[b] = free[b] - (IF b = new THEN 1 ELSE 0)
        /\ posted'[b] = posted[b] + (IF b = new THEN 1 ELSE 0)
        /\ filled'[b] = filled[b] - (IF b = f THEN 1 ELSE 0)
        /\ leaked'[b] = leaked[b] /\ InHand(b)' = InHand(b) + (IF b = f THEN 1 ELSE 0)
    BY <1>5, <1>6, <1>7, <1>8, <1>10
  <2>2. /\ free[b] \in Nat /\ posted[b] \in Nat /\ filled[b] \in Nat /\ leaked[b] \in Nat
        /\ InHand(b) \in Nat
    BY OnePlace
  <2>3. free[b] + posted[b] + filled[b] + leaked[b] + InHand(b) = 1
    BY OnePlace
  <2> QED
    BY <2>1, <2>2, <2>3
<1>12. ASSUME NEW b \in Bufs
       PROVE  posted'[b] + filled'[b] > 0 <=> b = new \/ (b # f /\ posted[b] + filled[b] > 0)
  <2>1. posted'[b] = posted[b] + (IF b = new THEN 1 ELSE 0) /\ filled'[b] = filled[b] - (IF b = f THEN 1 ELSE 0)
    BY <1>7, <1>8
  <2>2. /\ free[b] \in Nat /\ posted[b] \in Nat /\ filled[b] \in Nat /\ leaked[b] \in Nat
        /\ InHand(b) \in Nat
    BY OnePlace
  <2>3. free[b] + posted[b] + filled[b] + leaked[b] + InHand(b) = 1
    BY OnePlace
  <2>4. b = new => free[b] > 0
    BY <1>2
  <2>5. b = f => filled[b] > 0
    BY <1>5
  <2> QED
    BY <2>1, <2>2, <2>3, <2>4, <2>5
<1>13. Queued' = (Queued \ {f}) \cup {new}
  BY <1>12 DEF Queued
<1>14. f \in Queued /\ new \notin Queued
  <2>1. /\ filled[f] \in Nat /\ posted[f] \in Nat
        /\ free[new] \in Nat /\ posted[new] \in Nat /\ filled[new] \in Nat /\ leaked[new] \in Nat
        /\ InHand(new) \in Nat
    BY OnePlace
  <2>2. free[new] + posted[new] + filled[new] + leaked[new] + InHand(new) = 1
    BY OnePlace
  <2>3. posted[f] + filled[f] > 0 /\ posted[new] + filled[new] = 0
    BY <1>2, <1>5, <2>1, <2>2
  <2> QED
    BY <2>3 DEF Queued
<1>15. Cardinality(Queued') = RxSize
  <2>1. Queued \in SUBSET Bufs /\ Cardinality(Queued) = RxSize
    BY DEF Queued, FlowInv, Accounted
  <2>2. IsFiniteSet(Queued)
    BY <2>1, PoolAssumption, FS_Subset
  <2> HIDE DEF Queued
  <2>3. IsFiniteSet(Queued \ {f}) /\ Cardinality(Queued \ {f}) = RxSize - 1
    BY <1>14, <2>1, <2>2, FS_RemoveElement
  <2>4. new \notin Queued \ {f}
    BY <1>14
  <2>5. Cardinality((Queued \ {f}) \cup {new}) = (RxSize - 1) + 1
    BY <2>3, <2>4, FS_AddElement
  <2> QED
    BY <1>13, <2>5, PoolAssumption
<1> QED
  BY <1>4, <1>9, <1>11, <1>15 DEF FlowInv, Accounted, Queued

(* A frame the loop has come to is freed, or lost. *)
LEMMA FrameKeeps == ASSUME FlowInv, PassOver \/ Handle PROVE FlowInv'
<1>1. NextFrame /\ rule' = rule /\ posted' = posted /\ filled' = filled
  BY DEF PassOver, Handle, NextFrame, Drop, Free
<1>2. \/ free' = free /\ leaked' = Put(leaked, Head(bufs))
      \/ free' = Put(free, Head(bufs)) /\ leaked' = leaked
  BY DEF PassOver, Handle, Drop, Free
<1>3. /\ free \in Places /\ posted \in Places /\ filled \in Places /\ leaked \in Places
      /\ TypeOK
  BY DEF FlowInv, Accounted, TypeOK, PoolType
<1>4. Head(bufs) \in Bufs /\ bufs' \in Seq(Bufs) /\ pc' \in {"burst", "frames"} /\ (pc' = "frames" => bufs' # <<>>)
  BY <1>1, HandedOn
<1>5. free' \in Places /\ leaked' \in Places
  BY <1>2, <1>3, <1>4, Putting
<1>6. TypeOK'
  BY <1>1, <1>3, <1>4, <1>5 DEF TypeOK, PoolType
<1>7. ASSUME NEW b \in Bufs
      PROVE  (free[b] + posted[b] + filled[b] + leaked[b] + InHand(b))' = 1
  <2>1. free'[b] + leaked'[b] = free[b] + leaked[b] + (IF b = Head(bufs) THEN 1 ELSE 0)
    <3>1. free[b] \in Nat /\ leaked[b] \in Nat
      BY OnePlace
    <3>2. \/ free'[b] = free[b] /\ leaked'[b] = leaked[b] + (IF b = Head(bufs) THEN 1 ELSE 0)
          \/ free'[b] = free[b] + (IF b = Head(bufs) THEN 1 ELSE 0) /\ leaked'[b] = leaked[b]
      <4>1. CASE free' = free /\ leaked' = Put(leaked, Head(bufs))
        BY <1>3, <1>4, <4>1, Putting
      <4>2. CASE free' = Put(free, Head(bufs)) /\ leaked' = leaked
        BY <1>3, <1>4, <4>2, Putting
      <4> QED
        BY <1>2, <4>1, <4>2
    <3> QED
      BY <3>1, <3>2
  <2>2. /\ free[b] \in Nat /\ posted[b] \in Nat /\ filled[b] \in Nat /\ leaked[b] \in Nat
        /\ InHand(b) \in Nat /\ free'[b] \in Nat /\ leaked'[b] \in Nat
    BY <1>5, OnePlace DEF Places
  <2>3. free[b] + posted[b] + filled[b] + leaked[b] + InHand(b) = 1
    BY OnePlace
  <2>4. InHand(b)' = InHand(b) - (IF b = Head(bufs) THEN 1 ELSE 0)
    BY <1>1, HandedOn
  <2>5. posted'[b] = posted[b] /\ filled'[b] = filled[b]
    BY <1>1
  <2> QED
    BY <2>1, <2>2, <2>3, <2>4, <2>5
<1> QED
  BY <1>1, <1>4, <1>6, <1>7 DEF FlowInv, Accounted

(* The other steps leave each buffer where it is, or move it within the queue. *)
LEMMA FlowInvNext == FlowInv /\ [Next]_vars => FlowInv'
<1> SUFFICES ASSUME FlowInv, [Next]_vars PROVE FlowInv'
  OBVIOUS
<1>0. TypeOK
  BY DEF FlowInv, Accounted
<1>1. CASE Validate \/ Create
  <2>1. /\ pc' \in {"exit", "create", "burst"} /\ rule' \in BOOLEAN
        /\ UNCHANGED <<free, posted, filled, leaked, bufs>>
    BY <1>0, <1>1 DEF Validate, Create, poolVars, TypeOK
  <2>2. TypeOK'
    BY <1>0, <2>1 DEF TypeOK, PoolType
  <2> QED
    BY <2>1, <2>2 DEF FlowInv, Accounted, InHand
<1>2. CASE Receive
  <2>1. PICK b \in Bufs : posted[b] > 0 /\ posted' = Take(posted, b) /\ filled' = Put(filled, b)
    BY <1>2 DEF Receive, Arrive
  <2>2. free' = free /\ leaked' = leaked /\ bufs' = bufs /\ rule' = rule /\ pc' = pc
    BY <1>2 DEF Receive, Arrive
  <2>3. posted \in Places /\ filled \in Places
    BY <1>0 DEF TypeOK, PoolType
  <2>4. posted' \in Places /\ \A c \in Bufs : posted'[c] = posted[c] - (IF c = b THEN 1 ELSE 0)
    BY <2>1, <2>3, Taking
  <2>5. filled' \in Places /\ \A c \in Bufs : filled'[c] = filled[c] + (IF c = b THEN 1 ELSE 0)
    BY <2>1, <2>3, Putting
  <2>6. TypeOK'
    BY <1>0, <2>2, <2>4, <2>5 DEF TypeOK, PoolType
  <2>7. ASSUME NEW c \in Bufs
        PROVE  /\ posted'[c] + filled'[c] = posted[c] + filled[c]
               /\ (free[c] + posted[c] + filled[c] + leaked[c] + InHand(c))' = 1
    <3>1. /\ free[c] \in Nat /\ posted[c] \in Nat /\ filled[c] \in Nat /\ leaked[c] \in Nat
          /\ InHand(c) \in Nat
      BY OnePlace
    <3>2. free[c] + posted[c] + filled[c] + leaked[c] + InHand(c) = 1
      BY OnePlace
    <3>3. InHand(c)' = InHand(c)
      BY <2>2 DEF InHand
    <3>4. /\ posted'[c] = posted[c] - (IF c = b THEN 1 ELSE 0)
          /\ filled'[c] = filled[c] + (IF c = b THEN 1 ELSE 0)
          /\ free'[c] = free[c] /\ leaked'[c] = leaked[c]
      BY <2>2, <2>4, <2>5
    <3> QED
      BY <3>1, <3>2, <3>3, <3>4
  <2>8. Queued' = Queued
    BY <2>7 DEF Queued
  <2> QED
    BY <2>2, <2>6, <2>7, <2>8 DEF FlowInv, Accounted, Queued
<1>3. CASE Fetch
  BY <1>3, FetchKeeps
<1>4. CASE BurstEnds
  <2>1. bufs # <<>> /\ pc' = "frames" /\ UNCHANGED <<free, posted, filled, leaked, rule, bufs>>
    BY <1>4 DEF BurstEnds, poolVars
  <2>2. TypeOK'
    BY <1>0, <2>1 DEF TypeOK, PoolType
  <2> QED
    BY <2>1, <2>2 DEF FlowInv, Accounted, InHand
<1>5. CASE PassOver \/ Handle
  BY <1>5, FrameKeeps
<1>6. CASE UNCHANGED vars
  BY <1>6 DEF vars, FlowInv, Accounted, TypeOK, PoolType, InHand
<1> QED
  BY <1>1, <1>2, <1>3, <1>4, <1>5, <1>6 DEF Next

(* main_loop accounts for every buffer, and the receive queue never shrinks: *)
(* what the loop passes over is lost to the pool beside it.                  *)
THEOREM BuffersAccounted == Spec => []Accounted
<1>1. FlowInv => Accounted
  BY DEF FlowInv
<1> QED
  BY <1>1, FlowInvInit, FlowInvNext, PTL DEF Spec
=============================================================================
