----------------------------- MODULE FlowFilter -----------------------------
(***************************************************************************)
(* dpdk/flow_filter/main.c: set_flow_filter asks the port to drop IPv4     *)
(* frames to one address and main_loop prints the UDP frames to port       *)
(* 12345.  set_flow_filter reads rte_flow_validate (0: the rule is valid)  *)
(* and rte_flow_create (NULL: it failed) the wrong way round.  One port is *)
(* modelled, as main insists on; port_int succeeds or the program exits.   *)
(***************************************************************************)
EXTENDS MbufPool, Sequences

CONSTANT Burst    \* DPDK_BUF_SIZE

ASSUME BurstAssumption == Burst \in Nat \ {0}

VARIABLES rule,    \* has the port accepted the drop rule
          bufs,    \* frames of this burst the loop has not come to
          pc

vars == <<free, posted, filled, leaked, rule, bufs, pc>>

Init == PoolInit /\ rule = FALSE /\ bufs = <<>> /\ pc = "validate"

-----------------------------------------------------------------------------
\* The attribute and the items are partly uninitialized: whether the port
\* takes the rule is open, at both calls.
Validate ==
    /\ pc = "validate"
    /\ \E valid \in BOOLEAN : pc' = IF valid THEN "exit" ELSE "create"
    /\ UNCHANGED <<poolVars, rule, bufs>>

Create ==
    /\ pc = "create"
    /\ rule' \in BOOLEAN
    /\ pc' = IF rule' THEN "exit" ELSE "burst"
    /\ UNCHANGED <<poolVars, bufs>>

Receive == pc # "exit" /\ Arrive /\ UNCHANGED <<rule, bufs, pc>>

Fetch ==
    /\ pc = "burst" /\ Len(bufs) < Burst
    /\ \E b \in Bufs : Deliver(b) /\ bufs' = Append(bufs, b)
    /\ UNCHANGED <<rule, pc>>

BurstEnds ==
    /\ pc = "burst" /\ bufs # <<>>
    /\ pc' = "frames"
    /\ UNCHANGED <<poolVars, rule, bufs>>

NextFrame ==
    /\ pc = "frames"
    /\ bufs' = Tail(bufs)
    /\ pc' = IF Tail(bufs) = <<>> THEN "burst" ELSE "frames"
    /\ UNCHANGED rule

\* Mutant: the frame is freed before the continue.
PassOverFrees == NextFrame /\ Free(Head(bufs))

\* Not IPv4, or UDP to another port: continue.
PassOver == NextFrame /\ Drop(Head(bufs))

\* Mutant: the branch for UDP frees the frame as well.
HandleFreesTwice ==
    /\ NextFrame
    /\ free' = Put(Put(free, Head(bufs)), Head(bufs))
    /\ UNCHANGED <<posted, filled, leaked>>

\* ICMP, UDP to port 12345, and any other IPv4 frame.  For UDP, line 62 first
\* writes '\0' eight bytes times the frame's own length field behind the UDP
\* header, outside the frame's data; the model assumes the write does no harm.
Handle == NextFrame /\ Free(Head(bufs))

Next == Validate \/ Create \/ Receive \/ Fetch \/ BurstEnds \/ PassOver \/ Handle

Spec == Init /\ [][Next]_vars

\* Frames keep arriving, and the loop runs on.
FairSpec ==
    /\ Spec
    /\ WF_vars(Validate \/ Create) /\ WF_vars(Receive) /\ WF_vars(Fetch)
    /\ WF_vars(BurstEnds) /\ WF_vars(PassOver \/ Handle)

\* Frames the loop passes over keep arriving among those it handles.
NoisySpec == FairSpec /\ SF_vars(PassOver)

-----------------------------------------------------------------------------
TypeOK ==
    /\ PoolType
    /\ rule \in BOOLEAN
    /\ bufs \in Seq(Bufs)
    /\ pc \in {"validate", "create", "burst", "frames", "exit"}

InHand(b) == Cardinality({k \in DOMAIN bufs : bufs[k] = b})

\* Every buffer is in one place.  The receive queue stays full, so the pool
\* still serves the frames the loop handles until exactly the buffers beside
\* the queue have been dropped.
Accounted ==
    /\ TypeOK
    /\ \A b \in Bufs : free[b] + posted[b] + filled[b] + leaked[b] + InHand(b) = 1
    /\ Cardinality({b \in Bufs : posted[b] + filled[b] > 0}) = RxSize

\* If frames that are passed over keep coming, the filter ends up hearing
\* nothing, whatever the other frames are.
NoiseDeafens == <>[](pc = "exit" \/ (pc = "burst" /\ bufs = <<>> /\ Empty(free)))

\* "set flow rule success": the frames are received behind the drop rule.
FilterInstalled == pc \in {"burst", "frames"} => rule
=============================================================================
