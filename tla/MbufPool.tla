------------------------------ MODULE MbufPool ------------------------------
(***************************************************************************)
(* The part of DPDK the programs under dpdk/ run on: the mbuf pool, and a  *)
(* port with one receive and one transmit queue.  Nothing of it is in the  *)
(* repository; it is modelled from how the programs call it.  A buffer is  *)
(* counted, not named once, in every place that holds a reference to it: a *)
(* buffer that is freed twice is in the pool twice.                        *)
(***************************************************************************)
EXTENDS Naturals, FiniteSets

CONSTANTS Bufs,    \* the buffers of the pool
          RxSize   \* descriptors of the receive queue

ASSUME PoolAssumption ==
    IsFiniteSet(Bufs) /\ RxSize \in Nat \ {0} /\ RxSize < Cardinality(Bufs)

VARIABLES free,    \* references in the pool
          posted,  \* descriptors waiting for a frame
          filled,  \* descriptors holding a received frame
          leaked   \* history: references the program dropped without freeing

poolVars == <<free, posted, filled, leaked>>

Places == [Bufs -> Nat]
Put(place, b) == [place EXCEPT ![b] = @ + 1]
Take(place, b) == [place EXCEPT ![b] = @ - 1]
References(place) == UNION {{b} \X (1..place[b]) : b \in Bufs}
Total(place) == Cardinality(References(place))
Empty(place) == \A b \in Bufs : place[b] = 0

PoolType == free \in Places /\ posted \in Places /\ filled \in Places /\ leaked \in Places

\* rte_eth_rx_queue_setup fills every descriptor from the pool.
PoolInit ==
    /\ \E S \in SUBSET Bufs :
         /\ Cardinality(S) = RxSize
         /\ posted = [b \in Bufs |-> IF b \in S THEN 1 ELSE 0]
         /\ free = [b \in Bufs |-> IF b \in S THEN 0 ELSE 1]
    /\ filled = [b \in Bufs |-> 0]
    /\ leaked = [b \in Bufs |-> 0]

\* The port writes a frame into a posted buffer.
Arrive ==
    /\ \E b \in Bufs : /\ posted[b] > 0
                       /\ posted' = Take(posted, b)
                       /\ filled' = Put(filled, b)
    /\ UNCHANGED <<free, leaked>>

\* rte_eth_rx_burst hands buffer b to the program and posts another in its
\* place; with no buffer in the pool the frame stays and 0 is returned.
Deliver(b) ==
    /\ filled[b] > 0
    /\ filled' = Take(filled, b)
    /\ \E new \in Bufs : /\ free[new] > 0
                         /\ free' = Take(free, new)
                         /\ posted' = Put(posted, new)
    /\ UNCHANGED leaked

\* rte_pktmbuf_free: nothing checks that the caller owns the buffer.
Free(b) == free' = Put(free, b) /\ UNCHANGED <<posted, filled, leaked>>

\* The program goes on to the next frame without freeing b.
Drop(b) == leaked' = Put(leaked, b) /\ UNCHANGED <<free, posted, filled>>
=============================================================================
