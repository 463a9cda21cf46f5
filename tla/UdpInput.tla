------------------------------ MODULE UdpInput ------------------------------
(***************************************************************************)
(* dpdk/skeleton/udp_input.c: the main loop fetches a burst of frames and  *)
(* prints the protocol of each IPv4 frame.  It never frees a frame, and it *)
(* reads the header of bufs[1] whatever frame it is printing.  One port is *)
(* modelled; its initialization calls succeed or the program exits.        *)
(***************************************************************************)
EXTENDS MbufPool

CONSTANTS Burst,     \* RX_RING_SIZE entries of the array bufs
          Garbage    \* content of an entry that was never written

ASSUME BurstAssumption == Burst \in Nat \ {0, 1} /\ Garbage \notin Bufs

VARIABLES bufs,    \* array filled by rte_eth_rx_burst; same stack slot each round
          nb_rx, i, pc,
          shown    \* history: the frame printed last and the buffer read for it

vars == <<free, posted, filled, leaked, bufs, nb_rx, i, pc, shown>>

Init ==
    /\ PoolInit
    /\ bufs = [k \in 0..Burst - 1 |-> Garbage]
    /\ nb_rx = 0 /\ i = 0 /\ pc = "burst"
    /\ shown = <<Garbage, Garbage>>

Receive == pc # "crashed" /\ Arrive /\ UNCHANGED <<bufs, nb_rx, i, pc, shown>>

\* Mutant: always the first entry of bufs.
FetchFirst ==
    /\ pc = "burst" /\ nb_rx < Burst
    /\ \E b \in Bufs : Deliver(b) /\ bufs' = [bufs EXCEPT ![0] = b]
    /\ nb_rx' = nb_rx + 1
    /\ UNCHANGED <<i, pc, shown>>

\* rte_eth_rx_burst stores the next frame.
Fetch ==
    /\ pc = "burst" /\ nb_rx < Burst
    /\ \E b \in Bufs : Deliver(b) /\ bufs' = [bufs EXCEPT ![nb_rx] = b]
    /\ nb_rx' = nb_rx + 1
    /\ UNCHANGED <<i, pc, shown>>

\* It returns; with no frame the loop polls again.
BurstEnds ==
    /\ pc = "burst" /\ nb_rx > 0
    /\ pc' = "print" /\ i' = 0
    /\ UNCHANGED <<poolVars, bufs, nb_rx, shown>>

\* Mutant: the frame is freed.
NextFrameFrees ==
    /\ Free(bufs[i])
    /\ i' = i + 1
    /\ IF i + 1 < nb_rx THEN UNCHANGED <<pc, nb_rx>> ELSE pc' = "burst" /\ nb_rx' = 0
    /\ UNCHANGED bufs

NextFrame ==
    /\ Drop(bufs[i])
    /\ i' = i + 1
    /\ IF i + 1 < nb_rx THEN UNCHANGED <<pc, nb_rx>> ELSE pc' = "burst" /\ nb_rx' = 0
    /\ UNCHANGED bufs

\* Any other EtherType.
Skip == pc = "print" /\ NextFrame /\ UNCHANGED shown

\* ipv4_hdr is taken from bufs[1].
ShowProtocol ==
    /\ pc = "print"
    /\ shown' = <<bufs[i], bufs[1]>>
    /\ \/ NextFrame
       \/ /\ bufs[1] = Garbage
          /\ pc' = "crashed"
          /\ UNCHANGED <<poolVars, bufs, nb_rx, i>>

Next == Receive \/ Fetch \/ BurstEnds \/ Skip \/ ShowProtocol

Spec == Init /\ [][Next]_vars

\* Frames keep arriving while a descriptor is posted, and the loop runs on.
FairSpec == Spec /\ WF_vars(Receive) /\ WF_vars(Fetch) /\ WF_vars(BurstEnds) /\ WF_vars(Skip \/ ShowProtocol)

-----------------------------------------------------------------------------
TypeOK ==
    /\ PoolType
    /\ bufs \in [0..Burst - 1 -> Bufs \cup {Garbage}]
    /\ nb_rx \in 0..Burst /\ i \in 0..Burst
    /\ pc \in {"burst", "print", "crashed"}
    /\ shown \in (Bufs \cup {Garbage}) \X (Bufs \cup {Garbage})

\* The frame at index k was fetched in this round and not passed over yet.
InHand(b) ==
    Cardinality({k \in 0..nb_rx - 1 : bufs[k] = b /\ (pc = "burst" \/ k >= i)})

\* A buffer is in one place only, and a buffer passed over stays passed over.
Accounted ==
    /\ TypeOK
    /\ \A b \in Bufs : free[b] + posted[b] + filled[b] + leaked[b] + InHand(b) = 1

\* bufs[1] may be older than the frame being printed, but never refers to a
\* buffer the driver may write to: no frame is ever given back.
ReadsOwnBuffer ==
    shown[2] # Garbage => posted[shown[2]] + filled[shown[2]] + free[shown[2]] = 0

\* Each frame costs a buffer: once as many were printed as there are buffers
\* beside those in the receive queue, the program hears nothing any more.
DeafInTheEnd == <>[](pc = "crashed" \/ (pc = "burst" /\ nb_rx = 0 /\ Empty(free)))

\* "print packet information": of the frame the loop is at.
PrintsTheFrame == shown[1] = shown[2]
=============================================================================
