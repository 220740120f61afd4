------------------------------- MODULE SyncRing -------------------------------
(***************************************************************************)
(* The ring buffer of mpegts/sync.c as a record: the slots, and the three  *)
(* positions into them.  One slot always stays free.  A slot that holds no *)
(* packet is Junk here; the code leaves whatever was there before.         *)
(***************************************************************************)
EXTENDS Integers, Sequences

CONSTANTS
    Junk,
    MinSize,    \* MIN_BUFFER_SIZE
    MaxSize     \* sx->max_size

ASSUME RingAssumption ==
    /\ MinSize \in Nat \ {0}
    /\ MaxSize \in Nat
    /\ MinSize <= MaxSize

(* a buffer of these packets: its size is between the bounds, and the      *)
(* positions are inside it                                                 *)
IsRing(r, Packets) ==
    \E s \in MinSize..MaxSize :
        r \in [buf : [0..(s - 1) -> Packets \cup {Junk}], size : {s},
              rcv : 0..(s - 1), pcr : 0..(s - 1), send : 0..(s - 1)]

EmptyRing ==
    [buf |-> [i \in 0..(MinSize - 1) |-> Junk], size |-> MinSize,
     rcv |-> 0, pcr |-> 0, send |-> 0]

-----------------------------------------------------------------------------
(* buffer_filled, buffer_lookahead, buffer_space *)

Filled(r) ==
    IF r.rcv >= r.send THEN r.rcv - r.send ELSE r.size + (r.rcv - r.send)

Lookahead(r) ==
    IF r.pcr >= r.send THEN r.pcr - r.send ELSE r.size + (r.pcr - r.send)

Space(r) ==
    IF r.send > r.rcv THEN r.send - r.rcv - 1
                      ELSE r.size + (r.send - r.rcv - 1)

(* the slot that is i places after position p *)
Slot(r, p, i) == (p + i) % r.size

(* the packets in the buffer, and those after the PCR lookahead *)
Contents(r) == [i \in 1..Filled(r) |-> r.buf[Slot(r, r.send, i - 1)]]
Ahead(r) ==
    [i \in 1..(Filled(r) - Lookahead(r)) |-> r.buf[Slot(r, r.pcr, i - 1)]]

-----------------------------------------------------------------------------
(* the resized buffer with the lookahead back at its start *)
MovedLoseLookahead(r, s) ==
    [buf |-> [i \in 0..(s - 1) |-> IF i < Filled(r)
                                   THEN r.buf[Slot(r, r.send, i)] ELSE Junk],
     size |-> s, rcv |-> Filled(r), pcr |-> 0, send |-> 0]

(* only the part before the end of the old buffer is copied *)
MovedOneChunk(r, s) ==
    [buf |-> [i \in 0..(s - 1) |-> IF i < Filled(r) /\ r.send + i < r.size
                                   THEN r.buf[Slot(r, r.send, i)] ELSE Junk],
     size |-> s, rcv |-> Filled(r), pcr |-> Lookahead(r), send |-> 0]

(* the contents at the start of a buffer of s slots *)
Moved(r, s) ==
    [buf |-> [i \in 0..(s - 1) |-> IF i < Filled(r)
                                   THEN r.buf[Slot(r, r.send, i)] ELSE Junk],
     size |-> s, rcv |-> Filled(r), pcr |-> Lookahead(r), send |-> 0]

(* buffer_resize: the requested size within its bounds (0 asks for double) *)
AtLeastMin(r, n) ==
    LET wanted == IF n = 0 THEN 2 * r.size ELSE n
    IN  IF wanted < MinSize THEN MinSize ELSE wanted

(* its result: false if it is at the limit or the contents do not fit *)
CanResize(r, n) ==
    LET s == AtLeastMin(r, n)
    IN  \/ s <= MaxSize /\ s = r.size
        \/ s <= MaxSize /\ Filled(r) <= s
        \/ s > MaxSize /\ r.size < MaxSize /\ Filled(r) <= MaxSize

Resized(r, n) ==
    LET s == AtLeastMin(r, n)
        t == IF s > MaxSize THEN MaxSize ELSE s
    IN  IF CanResize(r, n) /\ t # r.size THEN Moved(r, t) ELSE r

(* the loop at the head of ts_sync_push: grow until n packets fit, or until *)
(* the buffer cannot grow                                                   *)
WithRoom(r, n) ==
    LET grown[k \in 0..MaxSize] ==
            IF k = 0 THEN r
            ELSE LET q == grown[k - 1]
                 IN  IF Space(q) >= n THEN q ELSE Resized(q, 0)
    IN  grown[MaxSize]

-----------------------------------------------------------------------------
(* a push that does not wrap around at the end of the buffer *)
PutNoWrap(r, ps) ==
    [r EXCEPT !.rcv = IF @ + Len(ps) > r.size THEN Len(ps) ELSE @ + Len(ps),
              !.buf = [i \in 0..(r.size - 1) |->
                           IF i - r.rcv \in 0..(Len(ps) - 1)
                           THEN ps[i - r.rcv + 1] ELSE @[i]]]

(* the packets ps behind those in the buffer *)
Put(r, ps) ==
    [r EXCEPT !.rcv = Slot(r, @, Len(ps)),
              !.buf = [i \in 0..(r.size - 1) |->
                           LET k == (i - r.rcv) % r.size
                           IN  IF k < Len(ps) THEN ps[k + 1] ELSE @[i]]]

(* n packets taken off the front *)
Drop(r, n) ==
    [r EXCEPT !.send = Slot(r, @, n),
              !.buf = [i \in 0..(r.size - 1) |->
                           IF (i - r.send) % r.size < n THEN Junk ELSE @[i]]]
=============================================================================
