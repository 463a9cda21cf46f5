---------------------------- MODULE ArpResponder ----------------------------
(***************************************************************************)
(* dpdk/arp/main.c: recv_dev_buffer polls the port for one frame at a      *)
(* time, answers ARP requests for its own address and frees the frame.     *)
(* Frames for other stations are dropped without being freed, and a reply  *)
(* is freed although rte_eth_tx_burst has taken it: the driver frees it    *)
(* again once it is transmitted.                                           *)
(***************************************************************************)
EXTENDS MbufPool

CONSTANTS TxSize,      \* descriptors of the transmit queue
          MaxReplies   \* requests answered in one run

ASSUME TxAssumption == TxSize \in Nat \ {0} /\ MaxReplies \in Nat

VARIABLES tx,       \* replies the port still has to transmit
          sent,     \* replies transmitted and not yet freed by the driver
          pc, recv, send,   \* recv_dev_buffer and its two mbuf pointers
          over      \* history: references freed while the driver held them

vars == <<free, posted, filled, leaked, tx, sent, pc, recv, send, over>>

Init ==
    /\ PoolInit
    /\ tx = [b \in Bufs |-> 0]
    /\ sent = [b \in Bufs |-> 0]
    /\ over = [b \in Bufs |-> 0]
    /\ pc = "poll"
    /\ recv \in Bufs /\ send = recv     \* uninitialized, and not read

-----------------------------------------------------------------------------
Running == pc \notin {"exit", "crashed"}

Receive == Running /\ Arrive /\ UNCHANGED <<tx, sent, pc, recv, send, over>>

\* The port transmits a queued reply, at any time after rte_eth_tx_burst.
Transmit ==
    /\ Running
    /\ \E b \in Bufs : /\ tx[b] > 0
                       /\ tx' = Take(tx, b)
                       /\ sent' = Put(sent, b)
    /\ UNCHANGED <<poolVars, pc, recv, send, over>>

Poll ==
    /\ pc = "poll"
    /\ \E b \in Bufs : Deliver(b) /\ recv' = b
    /\ pc' = "parse"
    /\ UNCHANGED <<tx, sent, send, over>>

\* Mutant: the frame is freed before the continue.
ForeignFrees ==
    /\ pc = "parse"
    /\ Free(recv)
    /\ pc' = "poll"
    /\ UNCHANGED <<tx, sent, recv, send, over>>

\* The destination is neither the port's address nor broadcast: continue.
Foreign ==
    /\ pc = "parse"
    /\ Drop(recv)
    /\ pc' = "poll"
    /\ UNCHANGED <<tx, sent, recv, send, over>>

\* Mutant: the frame is not freed.
NoReplyForgets ==
    /\ pc = "parse"
    /\ pc' = "poll"
    /\ UNCHANGED <<poolVars, tx, sent, recv, send, over>>

\* IPv4, or ARP that does not ask for the local address, or anything else.
NoReply ==
    /\ pc = "parse"
    /\ Free(recv)
    /\ pc' = "poll"
    /\ UNCHANGED <<tx, sent, recv, send, over>>

\* Mutant: the result of rte_pktmbuf_alloc is passed on, NULL or not.
RequestPassesNull ==
    /\ pc = "parse"
    /\ Total(over) < MaxReplies
    /\ IF Empty(free)
         THEN send' = "NULL" /\ free' = free
         ELSE \E b \in Bufs : free[b] > 0 /\ free' = Take(free, b) /\ send' = b
    /\ pc' = "transmit"
    /\ UNCHANGED <<posted, filled, leaked, tx, sent, recv, over>>

\* An ARP request for the local address.  rte_pktmbuf_alloc returns NULL when
\* the pool is empty, and rte_pktmbuf_mtod dereferences the result at once.
Request ==
    /\ pc = "parse"
    /\ Total(over) < MaxReplies
    /\ IF Empty(free)
         THEN pc' = "crashed" /\ UNCHANGED <<free, send>>
         ELSE /\ \E b \in Bufs : free[b] > 0 /\ free' = Take(free, b) /\ send' = b
              /\ pc' = "transmit"
    /\ UNCHANGED <<posted, filled, leaked, tx, sent, recv, over>>

\* The driver frees what was transmitted, or leaves it for a later call, and
\* takes the reply if a descriptor is left; otherwise the program exits.
TxBurst ==
    /\ pc = "transmit"
    /\ \/ /\ free' = [b \in Bufs |-> free[b] + sent[b]]
          /\ sent' = [b \in Bufs |-> 0]
       \/ UNCHANGED <<free, sent>>
    /\ IF Total(tx) + Total(sent') < TxSize
         THEN tx' = Put(tx, send) /\ pc' = "release"
         ELSE tx' = tx /\ pc' = "exit"
    /\ UNCHANGED <<posted, filled, leaked, recv, send, over>>

\* rte_pktmbuf_free(send_mbuf), which the driver holds, and of recv_mbuf.
Release ==
    /\ pc = "release"
    /\ free' = Put(Put(free, send), recv)
    /\ over' = Put(over, send)
    /\ pc' = "poll"
    /\ UNCHANGED <<posted, filled, leaked, tx, sent, recv, send>>

Next ==
    \/ Receive \/ Transmit
    \/ Poll \/ Foreign \/ NoReply \/ Request \/ TxBurst \/ Release

Spec == Init /\ [][Next]_vars

\* Frames keep arriving and recv_dev_buffer runs on; what the driver does with
\* its replies, and when, is left open.  Among the frames there are always
\* more for other stations.
NoisySpec ==
    /\ Spec
    /\ WF_vars(Receive) /\ WF_vars(Poll) /\ WF_vars(TxBurst \/ Release)
    /\ SF_vars(Foreign)

-----------------------------------------------------------------------------
TypeOK ==
    /\ PoolType
    /\ tx \in Places /\ sent \in Places /\ over \in Places
    /\ recv \in Bufs /\ send \in Bufs
    /\ pc \in {"poll", "parse", "transmit", "release", "exit", "crashed"}

\* References in the program's own variables.
Held(b) ==
    (IF recv = b /\ pc # "poll" THEN 1 ELSE 0) +
    (IF send = b /\ (pc = "transmit" \/ pc = "exit") THEN 1 ELSE 0)

\* Every buffer is in as many places as it was freed too often, plus one:
\* a dropped frame is never seen again, and a reply leaves a second reference.
Accounted ==
    \A b \in Bufs :
        free[b] + posted[b] + filled[b] + tx[b] + sent[b] + leaked[b] + Held(b)
          = 1 + over[b]

\* The pool runs dry only after the program dropped all buffers but those in
\* the two queues and the two it works on; every reply adds one to spare.
DryOnlyByDrops ==
    Empty(free) =>
        Total(leaked) + RxSize + TxSize + 2 >= Cardinality(Bufs) + Total(over)

\* Frames for other stations end every run in which no more than MaxReplies
\* requests are answered, however replies and early frees fall between them:
\* the program polls with a dry pool for ever, has found a full transmit
\* queue, or has used a reply buffer it did not get.
ForeignFramesStarve ==
    <>[](pc \in {"exit", "crashed"} \/ (pc = "poll" /\ Empty(free)))

\* send_eth_msg and send_arp_msg say what happens when there is no buffer for
\* the reply: the program exits with "no free buffer".
ExhaustionExits == pc # "crashed"
=============================================================================
