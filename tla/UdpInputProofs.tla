--------------------------- MODULE UdpInputProofs ---------------------------
(***************************************************************************)
(* Proofs about UdpInput for every pool, receive queue and burst.          *)
(***************************************************************************)
EXTENDS UdpInput, FiniteSetTheorems, TLAPS

(* A reference more in a place. *)
LEMMA Putting ==
    ASSUME NEW place \in Places, NEW b \in Bufs
    PROVE  /\ Put(place, b) \in Places
           /\ \A c \in Bufs : Put(place, b)[c] = place[c] + (IF c = b THEN 1 ELSE 0)
BY DEF Places, Put

(* A reference less in a place. *)
LEMMA Taking ==
    ASSUME NEW place \in Places, NEW b \in Bufs, place[b] > 0
    PROVE  /\ Take(place, b) \in Places
           /\ \A c \in Bufs : Take(place, b)[c] = place[c] - (IF c = b THEN 1 ELSE 0)
<1>1. \A c \in Bufs : place[c] \in Nat
  BY DEF Places
<1>2. Take(place, b) = [c \in Bufs |-> IF c = b THEN place[c] - 1 ELSE place[c]]
  BY DEF Places, Take
<1>3. place[b] - 1 \in Nat
  BY <1>1
<1> QED
  BY <1>1, <1>2, <1>3 DEF Places

(* The entries of bufs that InHand counts. *)
Entries(b) == {k \in 0..nb_rx - 1 : bufs[k] = b /\ (pc = "burst" \/ k >= i)}

(* Neither the pool nor the port refers to the buffer. *)
Taken(b) == free[b] = 0 /\ posted[b] = 0 /\ filled[b] = 0

(* The inductive invariant: beside Accounted, where the loop is in the burst *)
(* and that everything bufs or shown refers to was taken from the port.      *)
UdpInv ==
    /\ Accounted
    /\ pc = "print" => i < nb_rx
    /\ \A k \in 0..nb_rx - 1 : bufs[k] # Garbage
    /\ \A k \in 0..Burst - 1 : bufs[k] # Garbage => Taken(bufs[k])
    /\ shown[2] # Garbage => Taken(shown[2])

(* InHand counts a finite set. *)
LEMMA EntriesFinite ==
    ASSUME TypeOK, NEW b
    PROVE  IsFiniteSet(Entries(b)) /\ InHand(b) = Cardinality(Entries(b)) /\ InHand(b) \in Nat
<1>1. nb_rx - 1 \in Int
  BY DEF TypeOK
<1>2. IsFiniteSet(0..nb_rx - 1)
  BY <1>1, FS_Interval
<1>3. Entries(b) \in SUBSET (0..nb_rx - 1)
  BY DEF Entries
<1>4. IsFiniteSet(Entries(b))
  BY <1>2, <1>3, FS_Subset
<1>5. InHand(b) = Cardinality(Entries(b))
  BY DEF InHand, Entries
<1> QED
  BY <1>4, <1>5, FS_CardinalityType

(* Before the first burst the pool and the receive queue hold every buffer. *)
LEMMA UdpInvInit == Init => UdpInv
<1> SUFFICES ASSUME Init PROVE UdpInv
  OBVIOUS
<1>1. TypeOK
  BY BurstAssumption DEF Init, PoolInit, TypeOK, PoolType, Places
<1>2. ASSUME NEW b \in Bufs PROVE InHand(b) = 0
  <2>1. nb_rx = 0 /\ 0..0 - 1 = {}
    BY DEF Init
  <2>2. Entries(b) = {}
    BY <2>1 DEF Entries
  <2> QED
    BY <1>1, <2>2, EntriesFinite, FS_EmptySet
<1>3. \A b \in Bufs : free[b] + posted[b] = 1 /\ filled[b] = 0 /\ leaked[b] = 0
  BY DEF Init, PoolInit
<1>4. \A b \in Bufs : free[b] \in Nat /\ posted[b] \in Nat
  BY <1>1 DEF TypeOK, PoolType, Places
<1>5. Accounted
  BY <1>1, <1>2, <1>3, <1>4 DEF Accounted
<1> QED
  BY <1>5 DEF UdpInv, Init

(* A frame the loop passes over leaves its hand and is not freed. *)
LEMMA HandedOn ==
    ASSUME UdpInv, pc = "print", NextFrame
    PROVE  /\ bufs[i] \in Bufs
           /\ \A b \in Bufs : InHand(b)' = InHand(b) - (IF b = bufs[i] THEN 1 ELSE 0)
           /\ TypeOK /\ i \in 0..Burst - 1 /\ bufs[i] \in Bufs
<1>1. TypeOK /\ i \in 0..nb_rx - 1 /\ i \in 0..Burst - 1
  BY BurstAssumption DEF UdpInv, Accounted, TypeOK
<1>2. bufs[i] \in Bufs
  BY <1>1 DEF UdpInv, TypeOK
<1>3. ASSUME NEW b \in Bufs
      PROVE  InHand(b)' = InHand(b) - (IF b = bufs[i] THEN 1 ELSE 0)
  <2>1. Entries(b)' = Entries(b) \ {i}
    <3>1. CASE i + 1 < nb_rx
      BY <1>1, <3>1 DEF NextFrame, Entries, TypeOK
    <3>2. CASE ~(i + 1 < nb_rx)
      BY <1>1, <3>2 DEF NextFrame, Entries, TypeOK
    <3> QED
      BY <3>1, <3>2
  <2>2. i \in Entries(b) <=> b = bufs[i]
    BY <1>1 DEF Entries, TypeOK
  <2>3. IsFiniteSet(Entries(b)) /\ InHand(b) = Cardinality(Entries(b)) /\ InHand(b) \in Nat
    BY <1>1, EntriesFinite
  <2>4. InHand(b)' = Cardinality(Entries(b)')
    BY DEF InHand, Entries
  <2> HIDE DEF Entries, InHand
  <2>5. Cardinality(Entries(b) \ {i}) = IF i \in Entries(b) THEN Cardinality(Entries(b)) - 1
                                        ELSE Cardinality(Entries(b))
    BY <2>3, FS_RemoveElement
  <2> QED
    BY <2>1, <2>2, <2>3, <2>4, <2>5
<1> QED
  BY <1>1, <1>2, <1>3

(* The driver moves a frame from the receive queue into bufs. *)
LEMMA FetchKeeps == ASSUME UdpInv, Fetch PROVE UdpInv'
<1>1. PICK f \in Bufs : Deliver(f) /\ bufs' = [bufs EXCEPT ![nb_rx] = f]
  BY DEF Fetch
<1>2. PICK new \in Bufs : free[new] > 0 /\ free' = Take(free, new) /\ posted' = Put(posted, new)
  BY <1>1 DEF Deliver
<1>3. TypeOK
  BY DEF UdpInv, Accounted
<1>4. /\ free \in Places /\ posted \in Places /\ filled \in Places /\ leaked \in Places
      /\ bufs \in [0..Burst - 1 -> Bufs \cup {Garbage}]
      /\ nb_rx \in Nat /\ Burst \in Nat
  BY <1>3, BurstAssumption DEF TypeOK, PoolType
<1>5. /\ pc = "burst" /\ pc' = "burst" /\ i' = i /\ shown' = shown
      /\ nb_rx < Burst /\ nb_rx' = nb_rx + 1
  BY DEF Fetch
<1>6. filled[f] > 0 /\ filled' = Take(filled, f) /\ leaked' = leaked
  BY <1>1 DEF Deliver
<1>7. ASSUME NEW b \in Bufs
      PROVE  /\ free[b] \in Nat /\ posted[b] \in Nat /\ filled[b] \in Nat /\ leaked[b] \in Nat
             /\ InHand(b) \in Nat
             /\ free[b] + posted[b] + filled[b] + leaked[b] + InHand(b) = 1
  BY <1>3, <1>4, EntriesFinite DEF UdpInv, Accounted, Places
<1>8. f # new
  BY <1>2, <1>6, <1>7
<1>9. /\ free' \in Places /\ posted' \in Places /\ filled' \in Places
      /\ \A b \in Bufs : /\ free'[b] = free[b] - (IF b = new THEN 1 ELSE 0)
                         /\ posted'[b] = posted[b] + (IF b = new THEN 1 ELSE 0)
                         /\ filled'[b] = filled[b] - (IF b = f THEN 1 ELSE 0)
  <2>1. free' \in Places /\ \A b \in Bufs : free'[b] = free[b] - (IF b = new THEN 1 ELSE 0)
    BY <1>2, <1>4, Taking
  <2>2. posted' \in Places /\ \A b \in Bufs : posted'[b] = posted[b] + (IF b = new THEN 1 ELSE 0)
    BY <1>2, <1>4, Putting
  <2>3. filled' \in Places /\ \A b \in Bufs : filled'[b] = filled[b] - (IF b = f THEN 1 ELSE 0)
    BY <1>4, <1>6, Taking
  <2> QED
    BY <2>1, <2>2, <2>3
<1>10. /\ nb_rx \in 0..Burst - 1 /\ nb_rx' \in 0..Burst
       /\ 0..nb_rx' - 1 = (0..nb_rx - 1) \cup {nb_rx} /\ nb_rx \notin 0..nb_rx - 1
  BY <1>4, <1>5
<1>11. /\ bufs' \in [0..Burst - 1 -> Bufs \cup {Garbage}]
       /\ bufs'[nb_rx] = f /\ \A k \in 0..Burst - 1 : k # nb_rx => bufs'[k] = bufs[k]
  BY <1>1, <1>4, <1>10
<1>12. TypeOK'
  BY <1>3, <1>4, <1>5, <1>6, <1>9, <1>10, <1>11 DEF TypeOK, PoolType
<1>13. \A k \in 0..nb_rx - 1 : bufs'[k] = bufs[k]
  BY <1>4, <1>5, <1>11
<1>14. ASSUME NEW b \in Bufs
       PROVE  InHand(b)' = InHand(b) + (IF b = f THEN 1 ELSE 0)
  <2>1. Entries(b)' = {k \in 0..nb_rx' - 1 : bufs'[k] = b} /\ Entries(b) = {k \in 0..nb_rx - 1 : bufs[k] = b}
    BY <1>5 DEF Entries
  <2>2. Entries(b)' = IF b = f THEN Entries(b) \cup {nb_rx} ELSE Entries(b)
    BY <1>10, <1>11, <1>13, <2>1
  <2>3. nb_rx \notin Entries(b)
    BY <1>10, <2>1
  <2>4. IsFiniteSet(Entries(b)) /\ InHand(b) = Cardinality(Entries(b)) /\ InHand(b) \in Nat
    BY <1>3, EntriesFinite
  <2>5. InHand(b)' = Cardinality(Entries(b)')
    BY DEF InHand, Entries
  <2> HIDE DEF Entries, InHand
  <2>6. Cardinality(Entries(b) \cup {nb_rx}) = Cardinality(Entries(b)) + 1
    BY <2>3, <2>4, FS_AddElement
  <2> QED
    BY <2>2, <2>4, <2>5, <2>6
<1>15. ASSUME NEW b \in Bufs
       PROVE  (free[b] + posted[b] + filled[b] + leaked[b] + InHand(b))' = 1
  <2>1. /\ free'[b] = free[b] - (IF b = new THEN 1 ELSE 0)
        /\ posted'[b] = posted[b] + (IF b = new THEN 1 ELSE 0)
        /\ filled'[b] = filled[b] - (IF b = f THEN 1 ELSE 0)
        /\ leaked'[b] = leaked[b] /\ InHand(b)' = InHand(b) + (IF b = f THEN 1 ELSE 0)
    BY <1>6, <1>9, <1>14
  <2> QED
    BY <1>7, <2>1
<1>16. Accounted'
  BY <1>12, <1>15 DEF Accounted
<1>17. ASSUME NEW b \in Bufs, Taken(b) \/ b = f PROVE Taken(b)'
  <2>1. b # new
    BY <1>2, <1>8, <1>17 DEF Taken
  <2>2. free'[b] = free[b] /\ posted'[b] = posted[b]
    BY <1>7, <1>9, <2>1
  <2>3. CASE b = f
    <3>0. filled[b] > 0
      BY <1>6, <2>3
    <3>1. free[b] = 0 /\ posted[b] = 0 /\ filled[b] = 1
      <4>1. /\ free[b] \in Nat /\ posted[b] \in Nat /\ filled[b] \in Nat /\ leaked[b] \in Nat
            /\ InHand(b) \in Nat
        BY <1>7
      <4>2. free[b] + posted[b] + filled[b] + leaked[b] + InHand(b) = 1
        BY <1>7
      <4> QED
        BY <3>0, <4>1, <4>2
    <3>2. filled'[b] = filled[b] - 1
      BY <1>9, <2>3
    <3>3. filled'[b] = 0
      BY <3>1, <3>2
    <3> QED
      BY <2>2, <3>1, <3>3 DEF Taken
  <2>4. CASE b # f
    <3>1. filled'[b] = filled[b]
      BY <1>7, <1>9, <2>4
    <3> QED
      BY <1>17, <2>2, <2>4, <3>1 DEF Taken
  <2> QED
    BY <2>3, <2>4
<1>18. ASSUME NEW k \in 0..Burst - 1, bufs'[k] # Garbage PROVE Taken(bufs[k])'
  <2>1. bufs'[k] \in Bufs
    BY <1>11, <1>18
  <2>2. CASE k = nb_rx
    BY <1>11, <1>17, <2>1, <2>2 DEF Taken
  <2>3. CASE k # nb_rx
    BY <1>11, <1>17, <1>18, <2>1, <2>3 DEF UdpInv, Taken
  <2> QED
    BY <2>2, <2>3
<1>19. \A k \in 0..nb_rx' - 1 : bufs'[k] # Garbage
  <2>1. f # Garbage
    BY BurstAssumption
  <2> QED
    BY <1>10, <1>11, <1>13, <2>1 DEF UdpInv
<1>20. shown'[2] # Garbage => Taken(shown[2])'
  <2>1. shown[2] \in Bufs \cup {Garbage}
    BY <1>3 DEF TypeOK
  <2> QED
    BY <1>5, <1>17, <2>1 DEF UdpInv, Taken
<1> QED
  BY <1>5, <1>16, <1>18, <1>19, <1>20 DEF UdpInv

(* A frame that is passed over is in no place any more. *)
LEMMA PassKeeps ==
    ASSUME UdpInv, pc = "print", NextFrame,
           shown' = shown \/ shown' = <<bufs[i], bufs[1]>>
    PROVE  UdpInv'
<1>1. /\ TypeOK /\ bufs[i] \in Bufs /\ i \in 0..Burst - 1 /\ i < nb_rx
      /\ leaked' = Put(leaked, bufs[i]) /\ free' = free /\ posted' = posted /\ filled' = filled
      /\ bufs' = bufs /\ i' = i + 1
  BY HandedOn DEF NextFrame, Drop, UdpInv
<1>2. \/ i + 1 < nb_rx /\ pc' = "print" /\ nb_rx' = nb_rx
      \/ pc' = "burst" /\ nb_rx' = 0
  BY DEF NextFrame
<1>3. 1 \in 0..Burst - 1 /\ bufs[1] \in Bufs \cup {Garbage}
  BY <1>1, BurstAssumption DEF TypeOK
<1>0. leaked \in Places /\ free \in Places /\ posted \in Places /\ filled \in Places
  BY <1>1 DEF TypeOK, PoolType
<1>4. TypeOK'
  <2>1. leaked' \in Places
    BY <1>0, <1>1, Putting
  <2>2. nb_rx' \in 0..Burst /\ i' \in 0..Burst /\ pc' \in {"burst", "print", "crashed"}
    BY <1>1, <1>2, BurstAssumption DEF TypeOK
  <2>3. shown \in (Bufs \cup {Garbage}) \X (Bufs \cup {Garbage})
    BY <1>1 DEF TypeOK
  <2>4. <<bufs[i], bufs[1]>> \in (Bufs \cup {Garbage}) \X (Bufs \cup {Garbage})
    BY <1>1, <1>3
  <2>5. shown' \in (Bufs \cup {Garbage}) \X (Bufs \cup {Garbage})
    BY <2>3, <2>4
  <2> QED
    BY <1>0, <1>1, <2>1, <2>2, <2>5 DEF TypeOK, PoolType
<1>5. ASSUME NEW b \in Bufs
      PROVE  (free[b] + posted[b] + filled[b] + leaked[b] + InHand(b))' = 1
  <2>1. /\ free[b] \in Nat /\ posted[b] \in Nat /\ filled[b] \in Nat /\ leaked[b] \in Nat
        /\ InHand(b) \in Nat
        /\ free[b] + posted[b] + filled[b] + leaked[b] + InHand(b) = 1
    BY <1>0, <1>1, EntriesFinite DEF UdpInv, Accounted, Places
  <2>2. leaked'[b] = leaked[b] + (IF b = bufs[i] THEN 1 ELSE 0)
    BY <1>0, <1>1, Putting
  <2>3. InHand(b)' = InHand(b) - (IF b = bufs[i] THEN 1 ELSE 0)
    BY HandedOn
  <2>4. free'[b] = free[b] /\ posted'[b] = posted[b] /\ filled'[b] = filled[b]
    BY <1>1
  <2> QED
    BY <2>1, <2>2, <2>3, <2>4
<1>6. Accounted'
  BY <1>4, <1>5 DEF Accounted
<1>7. \A k \in 0..nb_rx' - 1 : bufs'[k] # Garbage
  BY <1>1, <1>2 DEF UdpInv
<1>8. \A k \in 0..Burst - 1 : bufs'[k] # Garbage => Taken(bufs[k])'
  BY <1>1 DEF UdpInv, Taken
<1>9. shown'[2] # Garbage => Taken(shown[2])'
  BY <1>1, <1>3, <1>8 DEF UdpInv, Taken
<1> QED
  BY <1>1, <1>2, <1>6, <1>7, <1>8, <1>9 DEF UdpInv

(* The other steps: a frame arrives, the burst ends, the header of an entry *)
(* that was never written is read.                                          *)
LEMMA UdpInvNext == UdpInv /\ [Next]_vars => UdpInv'
<1> SUFFICES ASSUME UdpInv, [Next]_vars PROVE UdpInv'
  OBVIOUS
<1>1. CASE Receive
  <2>1. PICK b \in Bufs : posted[b] > 0 /\ posted' = Take(posted, b) /\ filled' = Put(filled, b)
    BY <1>1 DEF Receive, Arrive
  <2>2. /\ free' = free /\ leaked' = leaked /\ bufs' = bufs /\ nb_rx' = nb_rx /\ i' = i
        /\ pc' = pc /\ shown' = shown
    BY <1>1 DEF Receive, Arrive
  <2>3. TypeOK /\ free \in Places /\ posted \in Places /\ filled \in Places /\ leaked \in Places
    BY DEF UdpInv, Accounted, TypeOK, PoolType
  <2>4. /\ posted' \in Places /\ filled' \in Places
        /\ \A c \in Bufs : /\ posted'[c] = posted[c] - (IF c = b THEN 1 ELSE 0)
                           /\ filled'[c] = filled[c] + (IF c = b THEN 1 ELSE 0)
    BY <2>1, <2>3, Putting, Taking
  <2>5. TypeOK'
    BY <2>2, <2>3, <2>4 DEF TypeOK, PoolType
  <2>6. ASSUME NEW c \in Bufs
        PROVE  /\ free[c] \in Nat /\ posted[c] \in Nat /\ filled[c] \in Nat /\ leaked[c] \in Nat
               /\ InHand(c) \in Nat
               /\ free[c] + posted[c] + filled[c] + leaked[c] + InHand(c) = 1
    BY <2>3, EntriesFinite DEF UdpInv, Accounted, Places
  <2>7. ASSUME NEW c \in Bufs PROVE InHand(c)' = InHand(c)
    BY <2>2 DEF InHand
  <2>8. ASSUME NEW c \in Bufs
        PROVE  (free[c] + posted[c] + filled[c] + leaked[c] + InHand(c))' = 1
    BY <2>2, <2>4, <2>6, <2>7
  <2>9. Accounted'
    BY <2>5, <2>8 DEF Accounted
  <2>10. ASSUME NEW c \in Bufs, Taken(c) PROVE Taken(c)'
    <3>1. c # b
      BY <2>1, <2>10 DEF Taken
    <3>2. posted'[c] = posted[c] /\ filled'[c] = filled[c]
      BY <2>4, <2>6, <3>1
    <3> QED
      BY <2>2, <2>10, <3>2 DEF Taken
  <2>11. /\ \A k \in 0..Burst - 1 : bufs[k] \in Bufs \cup {Garbage}
         /\ shown[2] \in Bufs \cup {Garbage}
    BY <2>3 DEF TypeOK
  <2> QED
    BY <2>2, <2>9, <2>10, <2>11 DEF UdpInv, Taken
<1>2. CASE Fetch
  BY <1>2, FetchKeeps
<1>3. CASE BurstEnds
  <2>1. /\ pc = "burst" /\ nb_rx > 0 /\ pc' = "print" /\ i' = 0
        /\ UNCHANGED <<free, posted, filled, leaked, bufs, nb_rx, shown>>
    BY <1>3 DEF BurstEnds, poolVars
  <2>2. TypeOK
    BY DEF UdpInv, Accounted
  <2>3. 0 \in 0..Burst /\ 0 < nb_rx /\ \A k \in 0..nb_rx - 1 : k >= 0
    BY <2>1, <2>2, BurstAssumption DEF TypeOK
  <2>4. TypeOK'
    BY <2>1, <2>2, <2>3 DEF TypeOK, PoolType
  <2>5. ASSUME NEW b \in Bufs PROVE InHand(b)' = InHand(b)
    <3>1. Entries(b)' = Entries(b)
      BY <2>1, <2>3 DEF Entries
    <3> QED
      BY <3>1 DEF InHand, Entries
  <2>6. Accounted'
    BY <2>1, <2>4, <2>5 DEF UdpInv, Accounted
  <2> QED
    BY <2>1, <2>3, <2>6 DEF UdpInv, Taken
<1>4. CASE Skip
  BY <1>4, PassKeeps DEF Skip
<1>5. CASE ShowProtocol /\ NextFrame
  BY <1>5, PassKeeps DEF ShowProtocol
<1>6. CASE ShowProtocol /\ ~NextFrame
  <2>1. /\ pc = "print" /\ pc' = "crashed" /\ bufs[1] = Garbage /\ shown' = <<bufs[i], bufs[1]>>
        /\ UNCHANGED <<poolVars, bufs, nb_rx, i>>
    BY <1>6 DEF ShowProtocol
  <2>2. TypeOK /\ i \in 0..Burst - 1
    BY <2>1, BurstAssumption DEF UdpInv, Accounted, TypeOK
  <2>3. bufs[i] \in Bufs \cup {Garbage}
    BY <2>2 DEF TypeOK
  <2>4. TypeOK'
    BY <2>1, <2>2, <2>3 DEF TypeOK, PoolType, poolVars
  <2>5. \A b \in Bufs : InHand(b)' = InHand(b)
    BY <2>1 DEF InHand
  <2> QED
    BY <2>1, <2>4, <2>5 DEF UdpInv, Accounted, Taken, poolVars
<1>7. CASE UNCHANGED vars
  BY <1>7 DEF vars, UdpInv, Accounted, TypeOK, PoolType, InHand, Taken
<1> QED
  BY <1>1, <1>2, <1>3, <1>4, <1>5, <1>6, <1>7 DEF Next

(* The loop of main accounts for every buffer: each is in the pool, in the  *)
(* receive queue, in the burst, or lost to the program for ever.            *)
THEOREM BuffersAccounted == Spec => []Accounted
<1>1. UdpInv => Accounted
  BY DEF UdpInv
<1> QED
  BY <1>1, UdpInvInit, UdpInvNext, PTL DEF Spec

(* The header that is printed is never read from a buffer the port may be  *)
(* writing to, old as the entry bufs[1] may be.                            *)
THEOREM PrintedBufferOwned == Spec => []ReadsOwnBuffer
<1>1. UdpInv => ReadsOwnBuffer
  BY DEF UdpInv, ReadsOwnBuffer, Taken
<1> QED
  BY <1>1, UdpInvInit, UdpInvNext, PTL DEF Spec
=============================================================================
