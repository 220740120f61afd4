----------------------------- MODULE PacketQueue -----------------------------
(***************************************************************************)
(* What the buffer of mpegts/sync.c promises about the packets put into    *)
(* it: they come out in order, once, and unchanged.  Packets are lost only *)
(* from the front, up to a packet that carries a PCR (a block that cannot  *)
(* be timed), or all together (a reset).                                   *)
(***************************************************************************)
EXTENDS Sequences, SequencesExt

CONSTANTS
    HasPcr(_),   \* the packet carries a PCR
    None,
    Capacity     \* the most packets it ever holds

VARIABLES
    queue,
    sent         \* the packet delivered last, None after a reset

Init == queue = <<>> /\ sent = None

(* q, without some packets at its front that cannot be timed *)
Trimmed(q) ==
    {q} \cup {SubSeq(q, n, Len(q)) : n \in {k \in 1..Len(q) : HasPcr(q[k])}}

Push ==
    /\ IsPrefix(queue, queue')
    /\ Len(queue') <= Capacity
    /\ sent' = sent

Deliver ==
    /\ \E q \in Trimmed(queue) :
         /\ q # <<>>
         /\ sent' = Head(q)
         /\ queue' = Tail(q)

Trim ==
    /\ queue' \in Trimmed(queue)
    /\ sent' = sent

Clear ==
    /\ queue' = <<>>
    /\ sent' = None

Next == Push \/ Deliver \/ Trim \/ Clear

Spec == Init /\ [][Next]_<<queue, sent>>
=============================================================================
