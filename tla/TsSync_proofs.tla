----------------------------- MODULE TsSync_proofs -----------------------------
(***************************************************************************)
(* Proofs about the ring buffer and about TsSync, for every size.          *)
(***************************************************************************)
EXTENDS TsSync, SequenceTheorems, FiniteSetTheorems, WellFoundedInduction, TLAPS

(* a ring whose lookahead is between its tail and its head, and which      *)
(* holds a packet of P in every slot between them                          *)
Ordered(r, P) ==
    /\ IsRing(r, P)
    /\ Lookahead(r) <= Filled(r)
    /\ \A i \in 1..Filled(r) : Contents(r)[i] \in P

(* q holds what r holds, and the lookahead is where it was *)
Kept(q, r, P) ==
    /\ Ordered(q, P)
    /\ Filled(q) = Filled(r)
    /\ Contents(q) = Contents(r)
    /\ Lookahead(q) = Lookahead(r)

-----------------------------------------------------------------------------
(* Slots and levels                                                        *)

(* what a ring is, field by field *)
LEMMA RingFields ==
    ASSUME NEW P, NEW r, IsRing(r, P)
    PROVE  /\ r.size \in Nat \ {0} /\ r.size \in MinSize..MaxSize
           /\ r.buf \in [0..(r.size - 1) -> P \cup {Junk}]
           /\ r.rcv \in 0..(r.size - 1)
           /\ r.pcr \in 0..(r.size - 1)
           /\ r.send \in 0..(r.size - 1)
BY RingAssumption DEF IsRing

(* a ring from its fields *)
RingOf(b, s, h, m, t) ==
    [buf |-> b, size |-> s, rcv |-> h, pcr |-> m, send |-> t]

(* a ring with other slots and another head or tail, or lookahead *)
LEMMA RingPutExcept ==
    ASSUME NEW P, NEW r, IsRing(r, P), NEW c, NEW p
    PROVE  [r EXCEPT !.rcv = p, !.buf = c]
               = RingOf(c, r.size, p, r.pcr, r.send)
<1>1. /\ [r EXCEPT !.rcv = p] = RingOf(r.buf, r.size, p, r.pcr, r.send)
      /\ [RingOf(r.buf, r.size, p, r.pcr, r.send) EXCEPT !.buf = c]
            = RingOf(c, r.size, p, r.pcr, r.send)
    BY DEF IsRing, RingOf
<1>2. QED BY <1>1

(* the same when the tail moves *)
LEMMA RingDropExcept ==
    ASSUME NEW P, NEW r, IsRing(r, P), NEW c, NEW p
    PROVE  [r EXCEPT !.send = p, !.buf = c]
               = RingOf(c, r.size, r.rcv, r.pcr, p)
<1>1. /\ [r EXCEPT !.send = p] = RingOf(r.buf, r.size, r.rcv, r.pcr, p)
      /\ [RingOf(r.buf, r.size, r.rcv, r.pcr, p) EXCEPT !.buf = c]
            = RingOf(c, r.size, r.rcv, r.pcr, p)
    BY DEF IsRing, RingOf
<1>2. QED BY <1>1

(* the same when only the lookahead moves *)
LEMMA RingPcrExcept ==
    ASSUME NEW P, NEW r, IsRing(r, P), NEW p
    PROVE  [r EXCEPT !.pcr = p] = RingOf(r.buf, r.size, r.rcv, p, r.send)
BY DEF IsRing, RingOf

(* what makes a ring *)
LEMMA RingMade ==
    ASSUME NEW P, NEW b, NEW s, NEW h, NEW m, NEW t,
           s \in MinSize..MaxSize,
           b \in [0..(s - 1) -> P \cup {Junk}],
           h \in 0..(s - 1), m \in 0..(s - 1), t \in 0..(s - 1)
    PROVE  IsRing(RingOf(b, s, h, m, t), P)
BY DEF IsRing, RingOf

(* its fields again *)
LEMMA MadeFields ==
    ASSUME NEW b, NEW s, NEW h, NEW m, NEW t, NEW r, r = RingOf(b, s, h, m, t)
    PROVE  /\ r.buf = b /\ r.size = s /\ r.rcv = h
           /\ r.pcr = m /\ r.send = t
BY DEF RingOf

(* The levels are numbers below the size, and one slot stays free.         *)
LEMMA Levels ==
    ASSUME NEW P, NEW r, IsRing(r, P)
    PROVE  /\ Filled(r) \in 0..(r.size - 1)
           /\ Lookahead(r) \in 0..(r.size - 1)
           /\ Space(r) \in 0..(r.size - 1)
           /\ Filled(r) + Space(r) = r.size - 1
<1>1. /\ r.size \in Nat \ {0}
      /\ r.rcv \in 0..(r.size - 1) /\ r.pcr \in 0..(r.size - 1)
      /\ r.send \in 0..(r.size - 1)
    BY RingFields
<1>2. QED BY <1>1 DEF Filled, Lookahead, Space

(* a remainder is the number itself when it is below the divisor, and one  *)
(* divisor more or less on either side                                     *)
LEMMA Wrap ==
    ASSUME NEW n \in Nat \ {0}, NEW k \in (-n)..(2 * n - 1)
    PROVE  k % n = IF k < 0 THEN k + n ELSE IF k < n THEN k ELSE k - n
OBVIOUS

(* the slot i places after p *)
LEMMA SlotIs ==
    ASSUME NEW P, NEW r, IsRing(r, P),
           NEW p \in 0..(r.size - 1), NEW i \in 0..r.size
    PROVE  /\ Slot(r, p, i) = IF p + i < r.size THEN p + i ELSE p + i - r.size
           /\ Slot(r, p, i) \in 0..(r.size - 1)
<1>1. r.size \in Nat \ {0}
    BY RingFields
<1>2. ASSUME NEW n \in Nat \ {0}, n = r.size
      PROVE  (p + i) % n = IF p + i < n THEN p + i ELSE p + i - n
    <2>1. p + i \in 0..(2 * n - 1)
        BY <1>2
    <2> DEFINE k == p + i
    <2> HIDE DEF k
    <2>2. k \in (-n)..(2 * n - 1) /\ ~(k < 0)
        BY <2>1 DEF k
    <2>3. k % n = IF k < n THEN k ELSE k - n
        BY <2>2
    <2>4. QED BY <2>3 DEF k
<1>3. (p + i) % r.size = IF p + i < r.size THEN p + i ELSE p + i - r.size
    BY <1>1, <1>2, Zenon
<1>4. Slot(r, p, i) = IF p + i < r.size THEN p + i ELSE p + i - r.size
    BY <1>3, Zenon DEF Slot
<1>5. QED BY <1>1, <1>4

(* a place past the end of s slots, and the distance between two slots *)
Past(s, x) == IF x < s THEN x ELSE x - s
Gap(s, a, b) == IF a >= b THEN a - b ELSE s + (a - b)

(* the slot i places after p, as a place that is wrapped around *)
LEMMA SlotPast ==
    ASSUME NEW P, NEW r, IsRing(r, P),
           NEW p \in 0..(r.size - 1), NEW i \in 0..r.size
    PROVE  /\ Slot(r, p, i) = Past(r.size, p + i)
           /\ Slot(r, p, i) \in 0..(r.size - 1)
<1>1. /\ Slot(r, p, i) = IF p + i < r.size THEN p + i ELSE p + i - r.size
      /\ Slot(r, p, i) \in 0..(r.size - 1)
    BY SlotIs
<1>2. r.size \in Nat /\ p \in Nat /\ i \in Nat
    BY RingFields
<1>3. QED BY <1>1, <1>2 DEF Past

(* the packets of the buffer, one by one *)
LEMMA ContentsAre ==
    ASSUME NEW P, NEW r, IsRing(r, P)
    PROVE  /\ Contents(r) = [i \in 1..Filled(r) |-> Contents(r)[i]]
           /\ \A i \in 1..Filled(r) :
                 /\ Slot(r, r.send, i - 1) \in 0..(r.size - 1)
                 /\ Contents(r)[i] = r.buf[Slot(r, r.send, i - 1)]
                 /\ Contents(r)[i] \in P \cup {Junk}
<1>1. /\ r.size \in Nat \ {0} /\ r.send \in 0..(r.size - 1)
      /\ Filled(r) \in 0..(r.size - 1)
      /\ r.buf \in [0..(r.size - 1) -> P \cup {Junk}]
    BY RingFields, Levels
<1>2. ASSUME NEW i \in 1..Filled(r)
      PROVE  Slot(r, r.send, i - 1) \in 0..(r.size - 1)
    <2>1. i - 1 \in 0..r.size
        BY <1>1
    <2>2. QED BY <1>1, <2>1, SlotIs
<1>3. QED BY <1>1, <1>2 DEF Contents

(* they are a sequence of packets *)
LEMMA ContentsSeq ==
    ASSUME NEW P, NEW r, Ordered(r, P)
    PROVE  Contents(r) \in Seq(P) /\ Len(Contents(r)) = Filled(r)
<1>1. IsRing(r, P) /\ Filled(r) \in Nat /\ \A i \in 1..Filled(r) : Contents(r)[i] \in P
    BY Levels DEF Ordered
<1>2. Contents(r) \in [1..Filled(r) -> P]
    BY <1>1, ContentsAre
<1>3. QED BY <1>1, <1>2

(* The packets after the lookahead are the end of the contents, and those  *)
(* before it their beginning.                                              *)
LEMMA AheadIs ==
    ASSUME NEW P, NEW r, Ordered(r, P)
    PROVE  /\ Ahead(r) = [i \in 1..(Filled(r) - Lookahead(r)) |->
                              Contents(r)[i + Lookahead(r)]]
           /\ \A i \in 1..Lookahead(r) :
                 r.buf[Slot(r, r.send, i - 1)] = Contents(r)[i]
<1>1. /\ r.size \in Nat \ {0}
      /\ r.send \in 0..(r.size - 1) /\ r.pcr \in 0..(r.size - 1)
      /\ Filled(r) \in 0..(r.size - 1) /\ Lookahead(r) \in 0..(r.size - 1)
      /\ Lookahead(r) <= Filled(r) /\ IsRing(r, P)
    BY RingFields, Levels DEF Ordered
<1>2. ASSUME NEW i \in 1..(Filled(r) - Lookahead(r))
      PROVE  Slot(r, r.pcr, i - 1) = Slot(r, r.send, i + Lookahead(r) - 1)
    <2>1. i - 1 \in 0..r.size /\ i + Lookahead(r) - 1 \in 0..r.size
        BY <1>1
    <2>2. /\ Slot(r, r.pcr, i - 1) =
                IF r.pcr + (i - 1) < r.size THEN r.pcr + (i - 1)
                                            ELSE r.pcr + (i - 1) - r.size
          /\ Slot(r, r.send, i + Lookahead(r) - 1) =
                IF r.send + (i + Lookahead(r) - 1) < r.size
                THEN r.send + (i + Lookahead(r) - 1)
                ELSE r.send + (i + Lookahead(r) - 1) - r.size
        BY <1>1, <2>1, SlotIs
    <2>3. i + Lookahead(r) - 1 < Filled(r)
        BY <1>1
    <2>4. QED BY <1>1, <2>2, <2>3 DEF Lookahead
<1>3. ASSUME NEW i \in 1..(Filled(r) - Lookahead(r))
      PROVE  /\ i + Lookahead(r) \in 1..Filled(r)
             /\ Contents(r)[i + Lookahead(r)] = r.buf[Slot(r, r.pcr, i - 1)]
    <2>1. i + Lookahead(r) \in 1..Filled(r)
        BY <1>1
    <2>2. Contents(r)[i + Lookahead(r)]
              = r.buf[Slot(r, r.send, i + Lookahead(r) - 1)]
        BY <1>1, <2>1, ContentsAre
    <2>3. QED BY <1>2, <2>1, <2>2
<1>4. Ahead(r) = [i \in 1..(Filled(r) - Lookahead(r)) |->
                              Contents(r)[i + Lookahead(r)]]
    BY <1>3 DEF Ahead
<1>5. \A i \in 1..Lookahead(r) : i \in 1..Filled(r)
    BY <1>1
<1>6. QED BY <1>1, <1>4, <1>5, ContentsAre

(* how far slot j is from slot p *)
LEMMA BackIs ==
    ASSUME NEW P, NEW r, IsRing(r, P),
           NEW p \in 0..(r.size - 1), NEW j \in 0..(r.size - 1)
    PROVE  (j - p) % r.size = IF j >= p THEN j - p ELSE j - p + r.size
<1>1. r.size \in Nat \ {0}
    BY RingFields
<1>2. ASSUME NEW n \in Nat \ {0}, n = r.size
      PROVE  (j - p) % n = IF j >= p THEN j - p ELSE j - p + n
    <2>1. j - p \in (-n)..(2 * n - 1)
        BY <1>2
    <2> DEFINE k == j - p
    <2> HIDE DEF k
    <2>2. k \in (-n)..(n - 1)
        BY <1>2 DEF k
    <2>3. k % n = IF k >= 0 THEN k ELSE k + n
        BY <2>2
    <2>4. k >= 0 <=> j >= p
        BY DEF k
    <2>5. QED BY <2>3, <2>4 DEF k
<1>3. QED BY <1>1, <1>2, Zenon

(* the slot at that distance is the one *)
LEMMA SlotBack ==
    ASSUME NEW P, NEW r, IsRing(r, P),
           NEW p \in 0..(r.size - 1), NEW i \in 0..(r.size - 1)
    PROVE  (Slot(r, p, i) - p) % r.size = i
<1>1. r.size \in Nat \ {0} /\ i \in 0..r.size
    BY RingFields
<1>2. /\ Slot(r, p, i) = IF p + i < r.size THEN p + i ELSE p + i - r.size
      /\ Slot(r, p, i) \in 0..(r.size - 1)
    BY <1>1, SlotIs
<1> DEFINE j == Slot(r, p, i)
<1> HIDE DEF j
<1>3. j \in 0..(r.size - 1)
    BY <1>2 DEF j
<1>4. (j - p) % r.size = IF j >= p THEN j - p ELSE j - p + r.size
    BY <1>3, BackIs
<1>5. (IF j >= p THEN j - p ELSE j - p + r.size) = i
    BY <1>1, <1>2, <1>3 DEF j
<1>6. QED BY <1>4, <1>5 DEF j

(* the tail, the lookahead and the head as distances from the tail *)
LEMMA Ends ==
    ASSUME NEW P, NEW r, IsRing(r, P)
    PROVE  /\ r.send = Slot(r, r.send, 0)
           /\ r.pcr = Slot(r, r.send, Lookahead(r))
           /\ r.rcv = Slot(r, r.send, Filled(r))
           /\ Lookahead(r) = 0 <=> r.pcr = r.send
<1>1. /\ r.size \in Nat \ {0}
      /\ r.rcv \in 0..(r.size - 1) /\ r.pcr \in 0..(r.size - 1)
      /\ r.send \in 0..(r.size - 1)
      /\ Filled(r) \in 0..r.size /\ Lookahead(r) \in 0..r.size /\ 0 \in 0..r.size
    BY RingFields, Levels
<1>2. /\ Slot(r, r.send, 0) = IF r.send + 0 < r.size THEN r.send + 0
                                                    ELSE r.send + 0 - r.size
      /\ Slot(r, r.send, Lookahead(r)) =
            IF r.send + Lookahead(r) < r.size THEN r.send + Lookahead(r)
                                              ELSE r.send + Lookahead(r) - r.size
      /\ Slot(r, r.send, Filled(r)) =
            IF r.send + Filled(r) < r.size THEN r.send + Filled(r)
                                           ELSE r.send + Filled(r) - r.size
    BY <1>1, SlotIs
<1>3. QED BY <1>1, <1>2 DEF Filled, Lookahead

-----------------------------------------------------------------------------
(* The operations                                                          *)

(* The lookahead is given up: everything in the buffer is ahead of it.     *)
Rewound(r) == [r EXCEPT !.pcr = r.send]

(* The packets stay where they are. *)
LEMMA RewoundKeeps ==
    ASSUME NEW P, NEW r, Ordered(r, P)
    PROVE  /\ Ordered(Rewound(r), P)
           /\ Contents(Rewound(r)) = Contents(r)
           /\ Filled(Rewound(r)) = Filled(r)
           /\ Lookahead(Rewound(r)) = 0
<1> DEFINE q == RingOf(r.buf, r.size, r.rcv, r.send, r.send)
<1>1. IsRing(r, P) /\ r.size \in Nat \ {0} /\ r.size \in MinSize..MaxSize
    BY RingFields DEF Ordered
<1>2. Rewound(r) = q
    BY <1>1, RingPcrExcept DEF Rewound
<1>3. IsRing(q, P)
    BY <1>1, RingFields, RingMade
<1>4. Filled(q) = Filled(r) /\ Lookahead(q) = 0 /\ Contents(q) = Contents(r)
    BY <1>1, RingFields DEF Filled, Lookahead, Contents, Slot, RingOf
<1>5. Filled(r) \in Nat
    BY <1>1, Levels
<1>6. QED BY <1>2, <1>3, <1>4, <1>5 DEF Ordered

(* The slot of the packet in place i is outside what is put behind f       *)
(* packets, or in the middle of it: j is the slot, k its distance from h.  *)
PutPlaces(s, h, t, f, n, i, j, k) ==
    /\ s \in Nat /\ h \in 0..(s - 1) /\ t \in 0..(s - 1)
    /\ f \in Nat /\ f = IF h >= t THEN h - t ELSE s + (h - t)
    /\ n \in Nat /\ f + n <= s - 1
    /\ i \in 1..(f + n)
    /\ j \in 0..(s - 1)
    /\ j = IF t + (i - 1) < s THEN t + (i - 1) ELSE t + (i - 1) - s
    /\ k = IF j >= h THEN j - h ELSE j - h + s

(* A packet behind what is put is where it was; one in it is new. *)
LEMMA PutSlots ==
    ASSUME NEW s, NEW h, NEW t, NEW f, NEW n, NEW i, NEW j, NEW k,
           PutPlaces(s, h, t, f, n, i, j, k)
    PROVE  /\ k \in Nat
           /\ i <= f => k >= n
           /\ i > f => k + 1 = i - f /\ k < n
<1>1. ASSUME NEW s1 \in Nat, NEW h1 \in 0..(s1 - 1), NEW t1 \in 0..(s1 - 1),
             NEW f1 \in Nat, NEW n1 \in Nat, NEW i1 \in 1..(f1 + n1),
             NEW j1 \in 0..(s1 - 1), NEW k1,
             PutPlaces(s1, h1, t1, f1, n1, i1, j1, k1)
      PROVE  /\ k1 \in Nat
             /\ i1 <= f1 => k1 >= n1
             /\ i1 > f1 => k1 + 1 = i1 - f1 /\ k1 < n1
    BY <1>1 DEF PutPlaces
<1>2. /\ s \in Nat /\ h \in 0..(s - 1) /\ t \in 0..(s - 1) /\ f \in Nat
      /\ n \in Nat /\ i \in 1..(f + n) /\ j \in 0..(s - 1)
    BY Zenon DEF PutPlaces
<1>3. QED BY <1>1, <1>2

(* A push puts its packets behind those in the buffer, in their order, and *)
(* changes nothing else, wherever the end of the buffer is.                *)
LEMMA PutAppends ==
    ASSUME NEW P, NEW r, Ordered(r, P),
           NEW ps \in Seq(P), Len(ps) <= Space(r)
    PROVE  /\ Ordered(Put(r, ps), P)
           /\ Filled(Put(r, ps)) = Filled(r) + Len(ps)
           /\ Lookahead(Put(r, ps)) = Lookahead(r)
           /\ Contents(Put(r, ps)) = Contents(r) \o ps
<1> DEFINE n == Len(ps)
           b == [i \in 0..(r.size - 1) |->
                     IF (i - r.rcv) % r.size < n
                     THEN ps[((i - r.rcv) % r.size) + 1] ELSE r.buf[i]]
           h == Slot(r, r.rcv, n)
           q == RingOf(b, r.size, h, r.pcr, r.send)
<1>1. /\ IsRing(r, P) /\ r.size \in Nat \ {0} /\ r.size \in MinSize..MaxSize
      /\ r.rcv \in 0..(r.size - 1) /\ r.pcr \in 0..(r.size - 1)
      /\ r.send \in 0..(r.size - 1)
      /\ r.buf \in [0..(r.size - 1) -> P \cup {Junk}]
    BY RingFields DEF Ordered
<1>2. /\ Filled(r) \in Nat /\ Lookahead(r) \in Nat /\ Space(r) \in Nat
      /\ Lookahead(r) <= Filled(r)
      /\ Filled(r) + Space(r) = r.size - 1
      /\ n \in Nat /\ n <= Space(r) /\ n \in 0..r.size
    BY <1>1, Levels DEF Ordered
<1>3. Put(r, ps) = q
    <2>1. Put(r, ps) = [r EXCEPT !.rcv = h, !.buf = b]
        BY Zenon DEF Put
    <2> HIDE DEF b, h
    <2>2. QED BY <1>1, <2>1, RingPutExcept
<1>4. /\ h = IF r.rcv + n < r.size THEN r.rcv + n ELSE r.rcv + n - r.size
      /\ h \in 0..(r.size - 1)
    BY <1>1, <1>2, SlotIs
<1>5. ASSUME NEW i \in 0..(r.size - 1)
      PROVE  /\ (i - r.rcv) % r.size \in Nat
             /\ b[i] \in P \cup {Junk}
    <2> DEFINE k == (i - r.rcv) % r.size
    <2> HIDE DEF k
    <2>1. k = IF i >= r.rcv THEN i - r.rcv ELSE i - r.rcv + r.size
        BY <1>1, BackIs DEF k
    <2>2. k \in Nat
        BY <1>1, <2>1
    <2>3. k < n => ps[k + 1] \in P
        BY <1>2, <2>2, ElementOfSeq
    <2>4. b[i] = IF k < n THEN ps[k + 1] ELSE r.buf[i]
        BY DEF k
    <2>5. r.buf[i] \in P \cup {Junk}
        BY <1>1
    <2>6. QED BY <2>2, <2>3, <2>4, <2>5, Zenon DEF k
<1>6. b \in [0..(r.size - 1) -> P \cup {Junk}]
    BY <1>5, Zenon
<1> HIDE DEF b, h
<1>7. IsRing(q, P)
    BY <1>1, <1>4, <1>6, RingMade, Zenon
<1> DEFINE w == q
<1>8a. /\ w.buf = b /\ w.size = r.size /\ w.rcv = h
       /\ w.pcr = r.pcr /\ w.send = r.send
    BY DEF RingOf
<1>8b. IsRing(w, P) /\ Put(r, ps) = w
    BY <1>3, <1>7
<1> HIDE DEF n, w
<1>8. Filled(w) = Filled(r) + n /\ Lookahead(w) = Lookahead(r)
    BY <1>1, <1>2, <1>4, <1>8a, SMTT(60) DEF Filled, Lookahead
<1>9. ASSUME NEW i \in 1..(Filled(r) + n)
      PROVE  Contents(w)[i] = IF i <= Filled(r) THEN Contents(r)[i]
                                                ELSE ps[i - Filled(r)]
    <2>1. i - 1 \in 0..r.size /\ i - 1 \in 0..(r.size - 1)
        BY <1>1, <1>2
    <2> DEFINE j == Slot(r, r.send, i - 1)
    <2>2. /\ j = IF r.send + (i - 1) < r.size THEN r.send + (i - 1)
                                              ELSE r.send + (i - 1) - r.size
          /\ j \in 0..(r.size - 1)
        BY <1>1, <2>1, SlotIs
    <2>3. Contents(w)[i] = b[j]
        <3>1. Contents(w)[i] = w.buf[Slot(w, w.send, i - 1)]
            BY <1>8b, <1>8, ContentsAre
        <3>2. Slot(w, w.send, i - 1) = j
            BY <1>8a DEF Slot
        <3>3. QED BY <1>8a, <3>1, <3>2
    <2>4. i <= Filled(r) => Contents(r)[i] = r.buf[j]
        BY <1>1, <1>2, ContentsAre
    <2> HIDE DEF j
    <2> DEFINE k == (j - r.rcv) % r.size
    <2> HIDE DEF k
    <2>5. k = IF j >= r.rcv THEN j - r.rcv ELSE j - r.rcv + r.size
        BY <1>1, <2>2, BackIs DEF k
    <2>6. b[j] = IF k < n THEN ps[k + 1] ELSE r.buf[j]
        BY <2>2 DEF b, k, n
    <2>6a. /\ k \in Nat
           /\ i <= Filled(r) => k >= n
           /\ i > Filled(r) => k + 1 = i - Filled(r) /\ k < n
        <3>1. /\ r.size \in Nat /\ Filled(r) + n <= r.size - 1
              /\ Filled(r) = IF r.rcv >= r.send THEN r.rcv - r.send
                                               ELSE r.size + (r.rcv - r.send)
            BY <1>1, <1>2 DEF Filled
        <3>2. PutPlaces(r.size, r.rcv, r.send, Filled(r), n, i, j, k)
            BY <1>1, <1>2, <2>2, <2>5, <3>1, Zenon DEF PutPlaces
        <3>3. QED BY <3>2, PutSlots
    <2>7. CASE i <= Filled(r)
        BY <1>2, <2>2, <2>3, <2>4, <2>6, <2>6a, <2>7
    <2>8. CASE i > Filled(r)
        BY <1>2, <2>3, <2>6, <2>6a, <2>8
    <2>9. QED BY <1>2, <2>7, <2>8
<1>10. ASSUME NEW i \in 1..(Filled(r) + n) PROVE Contents(w)[i] \in P
    <2>1. i <= Filled(r) => Contents(r)[i] \in P
        BY <1>2 DEF Ordered
    <2>2. i > Filled(r) => ps[i - Filled(r)] \in P
        BY <1>2, ElementOfSeq DEF n
    <2>3. QED BY <1>2, <1>9, <2>1, <2>2
<1>11. Ordered(w, P)
    BY <1>2, <1>8b, <1>8, <1>10 DEF Ordered
<1>12. Contents(w) = Contents(r) \o ps
    <2>1. /\ Contents(w) \in Seq(P) /\ Len(Contents(w)) = Filled(r) + n
          /\ Contents(r) \in Seq(P) /\ Len(Contents(r)) = Filled(r)
        BY <1>8, <1>11, ContentsSeq
    <2> DEFINE c == Contents(r) \o ps
    <2>2. /\ c \in Seq(P) /\ Len(c) = Filled(r) + n
          /\ \A i \in 1..(Filled(r) + n) :
                c[i] = IF i <= Filled(r) THEN Contents(r)[i] ELSE ps[i - Filled(r)]
        BY <2>1, ConcatProperties DEF n
    <2> HIDE DEF c
    <2>3. \A i \in 1..Len(c) : Contents(w)[i] = c[i]
        BY <1>9, <2>2
    <2>4. QED BY <2>1, <2>2, <2>3, SeqEqual DEF c
<1>13. QED BY <1>8b, <1>8, <1>11, <1>12 DEF n

(* n packets taken off the front, and the lookahead put at place l.        *)
Cut(r, n, l) == [Drop(r, n) EXCEPT !.pcr = Slot(r, r.send, l)]

(* the tail, the lookahead and a slot between them after a cut *)
CutPlaces(s, h, t, f, n, l) ==
    /\ s \in Nat \ {0} /\ h \in 0..(s - 1) /\ t \in 0..(s - 1)
    /\ f \in 0..(s - 1) /\ f = Gap(s, h, t) /\ l \in 0..f /\ n \in 0..l

(* Levels and slots after a cut, counted from the old tail. *)
LEMMA CutSlots ==
    ASSUME NEW s, NEW h, NEW t, NEW f, NEW n, NEW l,
           CutPlaces(s, h, t, f, n, l)
    PROVE  /\ n \in 0..s /\ l \in 0..s
           /\ Gap(s, h, Past(s, t + n)) = f - n
           /\ Gap(s, Past(s, t + l), Past(s, t + n)) = l - n
           /\ \A i \in 1..(f - n) :
                 /\ Past(s, Past(s, t + n) + (i - 1)) = Past(s, t + (n + i - 1))
                 /\ i - 1 \in 0..s /\ n + i - 1 \in 0..s
                 /\ n + i - 1 \in 0..(s - 1) /\ ~(n + i - 1 < n)
                 /\ i + n \in 1..f /\ i + n - 1 = n + i - 1
<1>1. ASSUME NEW s1 \in Nat, NEW h1 \in 0..(s1 - 1), NEW t1 \in 0..(s1 - 1),
             NEW f1 \in 0..(s1 - 1), NEW l1 \in 0..f1, NEW n1 \in 0..l1,
             CutPlaces(s1, h1, t1, f1, n1, l1)
      PROVE  /\ n1 \in 0..s1 /\ l1 \in 0..s1
             /\ Gap(s1, h1, Past(s1, t1 + n1)) = f1 - n1
             /\ Gap(s1, Past(s1, t1 + l1), Past(s1, t1 + n1)) = l1 - n1
             /\ \A i \in 1..(f1 - n1) :
                   /\ Past(s1, Past(s1, t1 + n1) + (i - 1))
                         = Past(s1, t1 + (n1 + i - 1))
                   /\ i - 1 \in 0..s1 /\ n1 + i - 1 \in 0..s1
                   /\ n1 + i - 1 \in 0..(s1 - 1) /\ ~(n1 + i - 1 < n1)
                   /\ i + n1 \in 1..f1 /\ i + n1 - 1 = n1 + i - 1
    <2>1. f1 = Gap(s1, h1, t1)
        BY <1>1 DEF CutPlaces
    <2>2. Gap(s1, h1, Past(s1, t1 + n1)) = f1 - n1
        BY <2>1 DEF Gap, Past
    <2>3. Gap(s1, Past(s1, t1 + l1), Past(s1, t1 + n1)) = l1 - n1
        BY <2>1 DEF Gap, Past
    <2>4. ASSUME NEW i \in 1..(f1 - n1)
          PROVE  Past(s1, Past(s1, t1 + n1) + (i - 1))
                     = Past(s1, t1 + (n1 + i - 1))
        BY <2>1 DEF Gap, Past
    <2>5. QED BY <2>2, <2>3, <2>4
<1>2. /\ s \in Nat /\ h \in 0..(s - 1) /\ t \in 0..(s - 1)
      /\ f \in 0..(s - 1) /\ l \in 0..f /\ n \in 0..l
    BY DEF CutPlaces
<1>3. QED BY <1>1, <1>2

(* What is left is the rest of the contents, in place.                     *)
LEMMA CutTakes ==
    ASSUME NEW P, NEW r, Ordered(r, P),
           NEW l \in 0..Filled(r), NEW n \in 0..l
    PROVE  /\ Ordered(Cut(r, n, l), P)
           /\ Filled(Cut(r, n, l)) = Filled(r) - n
           /\ Lookahead(Cut(r, n, l)) = l - n
           /\ \A i \in 1..(Filled(r) - n) :
                 Contents(Cut(r, n, l))[i] = Contents(r)[i + n]
<1> DEFINE b == [i \in 0..(r.size - 1) |->
                     IF (i - r.send) % r.size < n THEN Junk ELSE r.buf[i]]
           t == Slot(r, r.send, n)
           m == Slot(r, r.send, l)
           q == RingOf(b, r.size, r.rcv, m, t)
<1>1. /\ IsRing(r, P) /\ r.size \in Nat \ {0} /\ r.size \in MinSize..MaxSize
      /\ r.rcv \in 0..(r.size - 1) /\ r.pcr \in 0..(r.size - 1)
      /\ r.send \in 0..(r.size - 1)
      /\ r.buf \in [0..(r.size - 1) -> P \cup {Junk}]
    BY RingFields DEF Ordered
<1>2. /\ Filled(r) \in 0..(r.size - 1) /\ n \in 0..r.size /\ l \in 0..r.size
      /\ n \in Nat /\ l \in Nat /\ n <= l /\ l <= Filled(r)
    BY <1>1, Levels
<1>3. /\ t = Past(r.size, r.send + n) /\ t \in 0..(r.size - 1)
      /\ m = Past(r.size, r.send + l) /\ m \in 0..(r.size - 1)
    BY <1>1, <1>2, SlotPast
<1>4. b \in [0..(r.size - 1) -> P \cup {Junk}]
    BY <1>1
<1>5. Drop(r, n) = RingOf(b, r.size, r.rcv, r.pcr, t)
    <2>1. Drop(r, n) = [r EXCEPT !.send = t, !.buf = b]
        BY Zenon DEF Drop
    <2> HIDE DEF b, t
    <2>2. QED BY <1>1, <2>1, RingDropExcept
<1> HIDE DEF b, t, m
<1>6. Cut(r, n, l) = q
    <2>1. IsRing(RingOf(b, r.size, r.rcv, r.pcr, t), P)
        BY <1>1, <1>3, <1>4, RingMade
    <2> DEFINE d == RingOf(b, r.size, r.rcv, r.pcr, t)
    <2>2. d.buf = b /\ d.size = r.size /\ d.rcv = r.rcv /\ d.send = t
        BY MadeFields
    <2> HIDE DEF d
    <2>3. [d EXCEPT !.pcr = m] = RingOf(d.buf, d.size, d.rcv, m, d.send)
        BY <2>1, RingPcrExcept DEF d
    <2>4. QED BY <1>5, <2>2, <2>3 DEF Cut, d, m
<1>7. IsRing(q, P)
    BY <1>1, <1>3, <1>4, RingMade
<1> DEFINE w == q
<1>8. /\ w.buf = b /\ w.size = r.size /\ w.rcv = r.rcv
      /\ w.pcr = m /\ w.send = t
    BY MadeFields
<1>9. IsRing(w, P) /\ Cut(r, n, l) = w
    BY <1>6, <1>7
<1> HIDE DEF w
<1>10. /\ r.size \in Nat /\ Filled(r) \in Nat
       /\ Filled(r) = Gap(r.size, r.rcv, r.send)
    BY <1>1, <1>2 DEF Filled, Gap
<1>11. /\ Gap(r.size, r.rcv, t) = Filled(r) - n
       /\ Gap(r.size, m, t) = l - n
       /\ \A i \in 1..(Filled(r) - n) :
             /\ Past(r.size, t + (i - 1)) = Past(r.size, r.send + (n + i - 1))
             /\ i - 1 \in 0..r.size /\ n + i - 1 \in 0..r.size
             /\ n + i - 1 \in 0..(r.size - 1) /\ ~(n + i - 1 < n)
             /\ i + n \in 1..Filled(r) /\ i + n - 1 = n + i - 1
    <2>1. CutPlaces(r.size, r.rcv, r.send, Filled(r), n, l)
        BY <1>1, <1>2, <1>10, Zenon DEF CutPlaces
    <2>2. QED BY <1>3, <2>1, CutSlots
<1>12. Filled(w) = Filled(r) - n /\ Lookahead(w) = l - n
    BY <1>8, <1>11, Zenon DEF Filled, Lookahead, Gap
<1>13. ASSUME NEW i \in 1..(Filled(r) - n)
       PROVE  /\ Contents(w)[i] = Contents(r)[i + n]
              /\ Contents(w)[i] \in P
    <2>1. /\ i - 1 \in 0..r.size /\ n + i - 1 \in 0..r.size
          /\ n + i - 1 \in 0..(r.size - 1) /\ ~(n + i - 1 < n)
          /\ i + n \in 1..Filled(r) /\ i + n - 1 = n + i - 1
        BY <1>11
    <2> DEFINE j == Slot(r, r.send, n + i - 1)
    <2>2. /\ j = Past(r.size, r.send + (n + i - 1))
          /\ j \in 0..(r.size - 1)
        BY <1>1, <2>1, SlotPast
    <2>3. Slot(w, w.send, i - 1) = j
        <3>1. Slot(w, w.send, i - 1) = Slot(r, t, i - 1)
            BY <1>8 DEF Slot
        <3>2. Slot(r, t, i - 1) = Past(r.size, t + (i - 1))
            BY <1>1, <1>3, <2>1, SlotPast
        <3>3. QED BY <1>11, <2>2, <3>1, <3>2
    <2>4. Contents(w)[i] = b[j]
        <3>1. Contents(w)[i] = w.buf[Slot(w, w.send, i - 1)]
            BY <1>9, <1>12, ContentsAre
        <3>2. QED BY <1>8, <2>3, <3>1
    <2>5. (j - r.send) % r.size = n + i - 1
        BY <1>1, <2>1, SlotBack
    <2>6. Contents(r)[i + n] = r.buf[j]
        <3>1. \A k \in 1..Filled(r) : Contents(r)[k] = r.buf[Slot(r, r.send, k - 1)]
            BY <1>1, ContentsAre
        <3>2. Contents(r)[i + n] = r.buf[Slot(r, r.send, i + n - 1)]
            <4>1. i + n \in 1..Filled(r)
                BY <2>1
            <4> HIDE DEF j
            <4>2. QED BY <3>1, <4>1
        <3>3. Slot(r, r.send, i + n - 1) = Slot(r, r.send, n + i - 1)
            BY <2>1
        <3>4. QED BY <3>2, <3>3, Zenon
    <2> HIDE DEF j
    <2>7. b[j] = r.buf[j]
        BY <2>1, <2>2, <2>5 DEF b
    <2>8. Contents(r)[i + n] \in P
        BY <2>1 DEF Ordered
    <2>9. QED BY <2>4, <2>6, <2>7, <2>8
<1>14. Ordered(w, P)
    BY <1>2, <1>9, <1>12, <1>13 DEF Ordered
<1>15. QED BY <1>9, <1>12, <1>13, <1>14

(* The code takes packets off the front without moving the lookahead.      *)
LEMMA DropIsCut ==
    ASSUME NEW P, NEW r, Ordered(r, P), NEW n \in 0..Lookahead(r)
    PROVE  Drop(r, n) = Cut(r, n, Lookahead(r))
<1> DEFINE b == [i \in 0..(r.size - 1) |->
                     IF (i - r.send) % r.size < n THEN Junk ELSE r.buf[i]]
           t == Slot(r, r.send, n)
           d == RingOf(b, r.size, r.rcv, r.pcr, t)
<1>1. /\ IsRing(r, P) /\ r.size \in Nat \ {0} /\ r.size \in MinSize..MaxSize
      /\ r.rcv \in 0..(r.size - 1) /\ r.pcr \in 0..(r.size - 1)
      /\ r.send \in 0..(r.size - 1) /\ n \in 0..r.size
      /\ r.buf \in [0..(r.size - 1) -> P \cup {Junk}]
    BY RingFields, Levels DEF Ordered
<1>2. Drop(r, n) = d
    <2>1. Drop(r, n) = [r EXCEPT !.send = t, !.buf = b]
        BY Zenon DEF Drop
    <2> HIDE DEF b, t
    <2>2. QED BY <1>1, <2>1, RingDropExcept
<1>3. b \in [0..(r.size - 1) -> P \cup {Junk}] /\ t \in 0..(r.size - 1)
    BY <1>1, SlotPast
<1> HIDE DEF b, t
<1>4. IsRing(d, P)
    BY <1>1, <1>3, RingMade
<1>5. d.buf = b /\ d.size = r.size /\ d.rcv = r.rcv /\ d.pcr = r.pcr /\ d.send = t
    BY MadeFields
<1>6. d = RingOf(d.buf, d.size, d.rcv, d.pcr, d.send)
    BY <1>5
<1>7. r.pcr = Slot(r, r.send, Lookahead(r))
    BY <1>1, Ends
<1> HIDE DEF d
<1>8. [d EXCEPT !.pcr = r.pcr] = RingOf(d.buf, d.size, d.rcv, r.pcr, d.send)
    BY <1>4, RingPcrExcept
<1>9. QED BY <1>2, <1>5, <1>6, <1>7, <1>8 DEF Cut

(* Resizing moves no packet out of its place in the queue, whatever the    *)
(* wrap-around, provided that the contents leave a slot free: the contents *)
(* and the PCR lookahead are what they were (buffer_move).                 *)
THEOREM MovedKeepsPackets ==
    ASSUME NEW P, NEW r, Ordered(r, P),
           NEW s \in MinSize..MaxSize, Filled(r) < s
    PROVE  Kept(Moved(r, s), r, P)
<1> DEFINE kept == [i \in 0..(s - 1) |-> IF i < Filled(r)
                                         THEN r.buf[Slot(r, r.send, i)] ELSE Junk]
           q == RingOf(kept, s, Filled(r), Lookahead(r), 0)
<1>1. /\ IsRing(r, P) /\ r.size \in Nat \ {0} /\ r.send \in 0..(r.size - 1)
      /\ r.buf \in [0..(r.size - 1) -> P \cup {Junk}]
      /\ s \in Nat \ {0}
    BY RingAssumption, RingFields DEF Ordered
<1>2. /\ Filled(r) \in Nat /\ Lookahead(r) \in Nat /\ Lookahead(r) <= Filled(r)
      /\ Filled(r) <= r.size
    BY <1>1, Levels DEF Ordered
<1>3. kept \in [0..(s - 1) -> P \cup {Junk}]
    <2> SUFFICES ASSUME NEW i \in 0..(s - 1), i < Filled(r)
                 PROVE  r.buf[Slot(r, r.send, i)] \in P \cup {Junk}
        OBVIOUS
    <2>1. i \in 0..r.size
        BY <1>1, <1>2
    <2>2. Slot(r, r.send, i) \in 0..(r.size - 1)
        BY <1>1, <2>1, SlotPast
    <2>3. QED BY <1>1, <2>2
<1>4. Moved(r, s) = q
    BY Zenon DEF Moved, RingOf
<1> HIDE DEF kept
<1>5. /\ 0 \in 0..(s - 1) /\ Filled(r) \in 0..(s - 1) /\ Lookahead(r) \in 0..(s - 1)
    BY <1>1, <1>2
<1>6. IsRing(q, P)
    BY <1>3, <1>5, RingMade
<1> DEFINE w == q
<1>7. /\ w.buf = kept /\ w.size = s /\ w.rcv = Filled(r)
      /\ w.pcr = Lookahead(r) /\ w.send = 0
    BY MadeFields
<1>8. IsRing(w, P) /\ Moved(r, s) = w
    BY <1>4, <1>6
<1> HIDE DEF w
<1>9. Filled(w) = Filled(r) /\ Lookahead(w) = Lookahead(r)
    BY <1>1, <1>2, <1>7 DEF Filled, Lookahead
<1>10. ASSUME NEW i \in 1..Filled(r)
       PROVE  Contents(w)[i] = Contents(r)[i]
    <2>1. /\ i - 1 \in 0..s /\ i - 1 \in 0..(s - 1) /\ i - 1 < Filled(r)
          /\ 0 + (i - 1) < s /\ 0 + (i - 1) = i - 1
        BY <1>1, <1>2
    <2>2. Contents(w)[i] = w.buf[Slot(w, w.send, i - 1)]
        BY <1>8, <1>9, ContentsAre
    <2>3. Slot(w, w.send, i - 1) = i - 1
        BY <1>5, <1>7, <1>8, <2>1, SlotPast DEF Past
    <2>4. kept[i - 1] = r.buf[Slot(r, r.send, i - 1)]
        BY <2>1 DEF kept
    <2>5. Contents(r)[i] = r.buf[Slot(r, r.send, i - 1)]
        BY <1>1, ContentsAre
    <2>6. QED BY <1>7, <2>2, <2>3, <2>4, <2>5
<1>11. Contents(w) = Contents(r)
    BY <1>9, <1>10 DEF Contents
<1>12. QED BY <1>2, <1>8, <1>9, <1>11 DEF Ordered, Kept

(* So does buffer_resize, whether it moves, clamps or refuses, when the    *)
(* size it is asked for leaves a slot free.                                *)
LEMMA ResizedKeeps ==
    ASSUME NEW P, NEW r, Ordered(r, P), NEW n \in Nat,
           Filled(r) < AtLeastMin(r, n)
    PROVE  Kept(Resized(r, n), r, P)
<1> DEFINE s == AtLeastMin(r, n)
           t == IF s > MaxSize THEN MaxSize ELSE s
<1>1. /\ r.size \in MinSize..MaxSize /\ MinSize \in Nat \ {0} /\ MaxSize \in Nat
      /\ Filled(r) \in 0..(r.size - 1)
    BY RingAssumption, RingFields, Levels DEF Ordered
<1>2. s \in Nat /\ MinSize <= s
    BY <1>1 DEF AtLeastMin
<1>3. t \in MinSize..MaxSize /\ Filled(r) < t
    BY <1>1, <1>2
<1>4. CASE CanResize(r, n) /\ t # r.size
    <2>1. Resized(r, n) = Moved(r, t)
        BY <1>4 DEF Resized
    <2>2. QED BY <1>3, <2>1, MovedKeepsPackets
<1>5. CASE ~(CanResize(r, n) /\ t # r.size)
    <2>1. Resized(r, n) = r
        BY <1>5 DEF Resized
    <2>2. QED BY <2>1 DEF Kept
<1>6. QED BY <1>4, <1>5

(* buffer_resize as ts_sync_push calls it, to double the buffer, and as    *)
(* ts_sync_loop calls it, to halve a buffer that is less than a quarter    *)
(* full: no packet is lost, and the corner in which the contents would     *)
(* fill every slot of the new buffer is never met.                         *)
THEOREM ResizedKeepsPackets ==
    ASSUME NEW P, NEW r, Ordered(r, P),
           NEW n \in {0, r.size \div 2},
           n = 0 \/ Filled(r) < r.size \div 4
    PROVE  Kept(Resized(r, n), r, P)
<1>1. /\ r.size \in MinSize..MaxSize /\ MinSize \in Nat \ {0} /\ MaxSize \in Nat
      /\ Filled(r) \in 0..(r.size - 1)
    BY RingAssumption, RingFields, Levels DEF Ordered
<1>2. n \in Nat /\ Filled(r) < AtLeastMin(r, n)
    <2>1. CASE n = 0
        BY <1>1, <2>1 DEF AtLeastMin
    <2>2. CASE n # 0
        <3>1. n = r.size \div 2 /\ Filled(r) < r.size \div 4
            BY <2>2
        <3>2. n \in Nat /\ Filled(r) < n
            BY <1>1, <3>1
        <3>3. QED BY <1>1, <2>2, <3>2 DEF AtLeastMin
    <2>3. QED BY <2>1, <2>2
<1>3. QED BY <1>2, ResizedKeeps

(* the shrinking in ts_sync_loop *)
LEMMA CompactedKeeps ==
    ASSUME NEW P, NEW r, Ordered(r, P)
    PROVE  Kept(Compacted(r), r, P)
BY ResizedKeepsPackets DEF Compacted, Kept

-----------------------------------------------------------------------------
(* The loop that grows the buffer, step by step                            *)

(* A set of numbers has a least one.                                       *)
LEMMA HasLeast ==
    ASSUME NEW S \in SUBSET Nat, S # {}
    PROVE  \E x \in S : \A y \in S : x <= y
<1> DEFINE less == OpToRel(<, Nat)
<1>1. IsWellFoundedOn(less, Nat)
    BY NatLessThanWellFounded
<1>2. \A x, y \in Nat : y < x => <<y, x>> \in less
    BY Zenon DEF OpToRel
<1> HIDE DEF less
<1>3. PICK x \in S : \A y \in S : ~(<<y, x>> \in less)
    BY <1>1, WFMin, Zenon
<1>4. S \subseteq Nat /\ \A y \in S : ~(y < x)
    BY <1>2, <1>3, Zenon
<1>5. QED BY <1>4

(* g[k] is the buffer after k turns of the loop, for k up to m.            *)
Grows(g, r, n, m) ==
    g = [k \in 0..m |-> IF k = 0 THEN r
                        ELSE IF Space(g[k - 1]) >= n THEN g[k - 1]
                                                     ELSE Resized(g[k - 1], 0)]

(* Its values, one by one.                                                 *)
LEMMA GrowsValues ==
    ASSUME NEW g, NEW r, NEW n, NEW m \in Nat, Grows(g, r, n, m)
    PROVE  /\ g[0] = r
           /\ \A k \in 1..m :
                 g[k] = IF Space(g[k - 1]) >= n THEN g[k - 1]
                                                ELSE Resized(g[k - 1], 0)
<1>1. \A k \in 0..m :
         g[k] = IF k = 0 THEN r
                ELSE IF Space(g[k - 1]) >= n THEN g[k - 1]
                                             ELSE Resized(g[k - 1], 0)
    BY Zenon DEF Grows
<1>2. QED BY <1>1

(* There is such a function.                                               *)
LEMMA GrowsExists ==
    ASSUME NEW r, NEW n
    PROVE  \A m \in Nat : \E g : Grows(g, r, n, m)
<1> DEFINE bad == {m \in Nat : ~ \E g : Grows(g, r, n, m)}
<1>1. SUFFICES ASSUME bad # {} PROVE FALSE
    OBVIOUS
<1>2. PICK m \in bad : \A l \in bad : m <= l
    BY <1>1, HasLeast
<1>3. CASE m = 0
    <2>1. Grows([k \in 0..0 |-> r], r, n, 0)
        BY DEF Grows
    <2>2. QED BY <1>2, <1>3, <2>1
<1>4. CASE m # 0
    <2>1. m - 1 \in Nat /\ m - 1 \notin bad
        BY <1>2, <1>4
    <2>2. PICK g : Grows(g, r, n, m - 1)
        BY <2>1
    <2>3. DEFINE last == IF Space(g[m - 1]) >= n THEN g[m - 1]
                                                 ELSE Resized(g[m - 1], 0)
                 h == [k \in 0..m |-> IF k = m THEN last ELSE g[k]]
    <2>4. h[0] = r /\ h[m] = last /\ h[m - 1] = g[m - 1]
        BY <1>2, <1>4, <2>1, <2>2, GrowsValues
    <2>5. \A k \in 1..(m - 1) :
             h[k] = IF Space(h[k - 1]) >= n THEN h[k - 1] ELSE Resized(h[k - 1], 0)
        BY <1>2, <1>4, <2>1, <2>2, GrowsValues
    <2>6. Grows(h, r, n, m)
        <3> HIDE DEF h, last
        <3>1. h = [k \in 0..m |-> h[k]]
            BY DEF h
        <3>2. \A k \in 0..m :
                 h[k] = IF k = 0 THEN r
                        ELSE IF Space(h[k - 1]) >= n THEN h[k - 1]
                                                     ELSE Resized(h[k - 1], 0)
            BY <1>2, <1>4, <2>4, <2>5 DEF last
        <3>3. QED BY <3>1, <3>2 DEF Grows
    <2>7. QED BY <1>2, <2>6
<1>5. QED BY <1>3, <1>4

(* However often the buffer is doubled, or not, nothing in it moves.       *)
LEMMA WithRoomKeeps ==
    ASSUME NEW P, NEW r, Ordered(r, P), NEW n
    PROVE  Kept(WithRoom(r, n), r, P)
<1> DEFINE g == CHOOSE f : Grows(f, r, n, MaxSize)
           bad == {k \in 0..MaxSize : ~Kept(g[k], r, P)}
<1>1. MaxSize \in Nat
    BY RingAssumption
<1>2. Grows(g, r, n, MaxSize)
    BY <1>1, GrowsExists
<1>3. WithRoom(r, n) = g[MaxSize]
    BY Zenon DEF WithRoom, Grows
<1> HIDE DEF g
<1>4. /\ g[0] = r
      /\ \A k \in 1..MaxSize :
            g[k] = IF Space(g[k - 1]) >= n THEN g[k - 1] ELSE Resized(g[k - 1], 0)
    BY <1>1, <1>2, GrowsValues
<1>5. ASSUME NEW k \in 1..MaxSize, Kept(g[k - 1], r, P)
      PROVE  Kept(g[k], r, P)
    <2>1. Kept(Resized(g[k - 1], 0), g[k - 1], P)
        BY <1>5, ResizedKeepsPackets DEF Kept
    <2>2. QED BY <1>4, <1>5, <2>1 DEF Kept
<1>6. bad = {}
    <2>1. SUFFICES ASSUME bad # {} PROVE FALSE
        OBVIOUS
    <2>2. bad \subseteq Nat
        BY <1>1
    <2>3. PICK k \in bad : \A l \in bad : k <= l
        BY <2>1, <2>2, HasLeast
    <2>4. k # 0
        BY <1>4, <2>3 DEF Kept
    <2>5. k \in 1..MaxSize /\ k - 1 \in 0..MaxSize /\ k - 1 \notin bad
        BY <1>1, <2>3, <2>4
    <2>6. QED BY <1>5, <2>3, <2>5
<1>7. QED BY <1>1, <1>3, <1>6

-----------------------------------------------------------------------------
(* The buffer as a queue                                                   *)

Emptied(r, P) ==
    /\ Ordered(r, P)
    /\ Filled(r) = 0
    /\ Lookahead(r) = 0
    /\ Contents(r) = <<>>

(* a ring whose positions are all 0 is empty *)
LEMMA ZeroIsEmpty ==
    ASSUME NEW P, NEW r, IsRing(r, P), r.rcv = 0, r.pcr = 0, r.send = 0
    PROVE  Emptied(r, P)
<1>1. Filled(r) = 0 /\ Lookahead(r) = 0
    BY DEF Filled, Lookahead
<1>2. Contents(r) = <<>>
    <2>1. Contents(r) = [i \in 1..0 |-> r.buf[Slot(r, r.send, i - 1)]]
        BY <1>1, Zenon DEF Contents
    <2>2. QED BY <2>1
<1>3. QED BY <1>1, <1>2 DEF Emptied, Ordered

(* the buffer before anything was pushed *)
LEMMA StartsEmpty ==
    ASSUME NEW P
    PROVE  Emptied(EmptyRing, P)
<1>1. /\ MinSize \in MinSize..MaxSize /\ 0 \in 0..(MinSize - 1)
      /\ [i \in 0..(MinSize - 1) |-> Junk] \in [0..(MinSize - 1) -> P \cup {Junk}]
    BY RingAssumption
<1> DEFINE b == [i \in 0..(MinSize - 1) |-> Junk]
<1>2. EmptyRing = RingOf(b, MinSize, 0, 0, 0)
    BY Zenon DEF EmptyRing, RingOf
<1> HIDE DEF b
<1>3. IsRing(EmptyRing, P)
    BY <1>1, <1>2, RingMade DEF b
<1>4. EmptyRing.rcv = 0 /\ EmptyRing.pcr = 0 /\ EmptyRing.send = 0
    BY <1>2, MadeFields
<1>5. QED BY <1>3, <1>4, ZeroIsEmpty

(* what SYNC_RESET_ALL makes of the buffer *)
Cleared(r) ==
    Resized(Drop([r EXCEPT !.rcv = 0, !.pcr = 0, !.send = 0], r.size), MinSize)

(* Whatever was in it, the buffer is empty after it. *)
LEMMA ClearedIsEmpty ==
    ASSUME NEW P, NEW r, IsRing(r, P)
    PROVE  Emptied(Cleared(r), P)
<1> DEFINE z == [r EXCEPT !.rcv = 0, !.pcr = 0, !.send = 0]
           e == RingOf(r.buf, r.size, 0, 0, 0)
           t == Slot(e, e.send, r.size)
           b == [i \in 0..(e.size - 1) |->
                     IF (i - e.send) % e.size < r.size THEN Junk ELSE e.buf[i]]
           d == RingOf(b, e.size, e.rcv, e.pcr, t)
<1>1. /\ r.size \in Nat \ {0} /\ r.size \in MinSize..MaxSize
      /\ 0 \in 0..(r.size - 1) /\ r.size \in 0..r.size
      /\ r.buf \in [0..(r.size - 1) -> P \cup {Junk}]
    BY RingFields
<1>2. z = e
    <2>1. /\ [r EXCEPT !.rcv = 0] = RingOf(r.buf, r.size, 0, r.pcr, r.send)
          /\ [RingOf(r.buf, r.size, 0, r.pcr, r.send) EXCEPT !.pcr = 0]
                = RingOf(r.buf, r.size, 0, 0, r.send)
          /\ [RingOf(r.buf, r.size, 0, 0, r.send) EXCEPT !.send = 0]
                = RingOf(r.buf, r.size, 0, 0, 0)
        BY DEF IsRing, RingOf
    <2>2. QED BY <2>1
<1>3. IsRing(e, P)
    BY <1>1, RingMade
<1>4. /\ e.buf = r.buf /\ e.size = r.size /\ e.rcv = 0 /\ e.pcr = 0 /\ e.send = 0
    BY MadeFields
<1> HIDE DEF e
<1>5. Drop(e, r.size) = d
    <2>1. Drop(e, r.size) = [e EXCEPT !.send = t, !.buf = b]
        BY Zenon DEF Drop
    <2> HIDE DEF b, t
    <2>2. QED BY <1>3, <2>1, RingDropExcept
<1>6. t = 0
    <2>1. t = Past(e.size, e.send + r.size)
        BY <1>1, <1>3, <1>4, SlotPast
    <2>2. e.send + r.size = r.size /\ ~(r.size < r.size) /\ r.size - r.size = 0
        BY <1>1, <1>4
    <2>3. QED BY <1>4, <2>1, <2>2 DEF Past
<1>7. b \in [0..(e.size - 1) -> P \cup {Junk}]
    BY <1>1, <1>4
<1> HIDE DEF b, t
<1>8. IsRing(d, P) /\ d.rcv = 0 /\ d.pcr = 0 /\ d.send = 0
    BY <1>1, <1>4, <1>6, <1>7, RingMade, MadeFields
<1> HIDE DEF d
<1>9. Emptied(d, P)
    BY <1>8, ZeroIsEmpty
<1>10. Filled(d) < AtLeastMin(d, MinSize) /\ MinSize \in Nat
    BY <1>9, RingAssumption DEF Emptied, AtLeastMin
<1>11. Kept(Resized(d, MinSize), d, P)
    BY <1>9, <1>10, ResizedKeeps DEF Emptied
<1>12. Cleared(r) = Resized(d, MinSize)
    BY <1>2, <1>5 DEF Cleared
<1>13. QED BY <1>9, <1>11, <1>12 DEF Emptied, Kept

(* an empty buffer stays empty when the lookahead is given up *)
LEMMA RewoundEmpty ==
    ASSUME NEW P, NEW r, Emptied(r, P)
    PROVE  Emptied(Rewound(r), P)
BY RewoundKeeps DEF Emptied

(* What is left after a cut, as a sequence.                                *)
LEMMA CutLeaves ==
    ASSUME NEW P, NEW r, Ordered(r, P),
           NEW l \in 0..Filled(r), NEW n \in 0..l
    PROVE  Contents(Cut(r, n, l)) = SubSeq(Contents(r), n + 1, Filled(r))
<1> DEFINE c == Contents(r)
           d == Contents(Cut(r, n, l))
           s == SubSeq(c, n + 1, Filled(r))
<1>1. /\ c \in Seq(P) /\ Len(c) = Filled(r) /\ Filled(r) \in Nat /\ n \in Nat
      /\ n <= Filled(r)
    BY ContentsSeq, Levels DEF Ordered
<1>2. /\ d \in Seq(P) /\ Len(d) = Filled(r) - n
      /\ \A i \in 1..(Filled(r) - n) : d[i] = c[i + n]
    <2>1. /\ Ordered(Cut(r, n, l), P)
          /\ Filled(Cut(r, n, l)) = Filled(r) - n
          /\ \A i \in 1..(Filled(r) - n) : d[i] = c[i + n]
        BY CutTakes
    <2>2. QED BY <2>1, ContentsSeq
<1> HIDE DEF c, d
<1>3. /\ s \in Seq(P) /\ Len(s) = Filled(r) - n
      /\ \A i \in 1..(Filled(r) - n) : s[i] = c[i + n]
    <2>1. \A i \in (n + 1)..Filled(r) : c[i] \in P
        BY <1>1, ElementOfSeq
    <2>2. /\ s \in Seq(P)
          /\ Len(s) = IF n + 1 <= Filled(r) THEN Filled(r) - (n + 1) + 1 ELSE 0
          /\ \A i \in 1..(Filled(r) - (n + 1) + 1) : s[i] = c[n + 1 + i - 1]
        BY <1>1, <2>1, SubSeqProperties
    <2> HIDE DEF s
    <2>3. /\ Filled(r) - (n + 1) + 1 = Filled(r) - n
          /\ \A i \in 1..(Filled(r) - n) : n + 1 + i - 1 = i + n
          /\ ~(n + 1 <= Filled(r)) => Filled(r) - n = 0
        BY <1>1
    <2>4. QED BY <2>2, <2>3
<1> HIDE DEF s
<1>4. d = s
    BY <1>1, <1>2, <1>3, SeqEqual
<1>5. QED BY <1>4 DEF c, d, s

(* The packet at the tail is the first of the queue, and dropping it       *)
(* leaves the others.                                                      *)
LEMMA SendsHead ==
    ASSUME NEW P, NEW r, Ordered(r, P), Lookahead(r) >= 1
    PROVE  /\ Contents(r) # <<>>
           /\ r.buf[r.send] = Head(Contents(r))
           /\ r.buf[r.send] \in P
           /\ Contents(Drop(r, 1)) = Tail(Contents(r))
           /\ Ordered(Drop(r, 1), P)
           /\ Filled(Drop(r, 1)) = Filled(r) - 1
           /\ Lookahead(Drop(r, 1)) = Lookahead(r) - 1
           /\ \A i \in 1..(Filled(r) - 1) :
                 Contents(Drop(r, 1))[i] = Contents(r)[i + 1]
<1>1. /\ IsRing(r, P) /\ Filled(r) \in Nat /\ Lookahead(r) \in Nat
      /\ 1 \in 0..Lookahead(r) /\ Lookahead(r) \in 0..Filled(r)
      /\ 1 \in 1..Filled(r)
    BY Levels DEF Ordered
<1>2. Contents(r) \in Seq(P) /\ Len(Contents(r)) = Filled(r)
    BY ContentsSeq
<1>3. Contents(r) # <<>>
    BY <1>1, <1>2
<1>4. r.buf[r.send] = Contents(r)[1] /\ Contents(r)[1] \in P
    <2>1. Contents(r)[1] = r.buf[Slot(r, r.send, 1 - 1)]
        BY <1>1, ContentsAre
    <2>2. Slot(r, r.send, 1 - 1) = r.send
        BY <1>1, Ends
    <2>3. QED BY <1>1, <2>1, <2>2 DEF Ordered
<1>5. Drop(r, 1) = Cut(r, 1, Lookahead(r))
    BY <1>1, DropIsCut
<1>6. Contents(Drop(r, 1)) = Tail(Contents(r))
    <2>1. Contents(Drop(r, 1)) = SubSeq(Contents(r), 1 + 1, Filled(r))
        BY <1>1, <1>5, CutLeaves
    <2>2. Tail(Contents(r)) = SubSeq(Contents(r), 2, Len(Contents(r)))
        BY <1>2, <1>3, TailIsSubSeq
    <2>3. QED BY <1>2, <2>1, <2>2
<1>7. Head(Contents(r)) = Contents(r)[1]
    BY <1>2, <1>3
<1>8. QED BY <1>1, <1>3, <1>4, <1>5, <1>6, <1>7, CutTakes

-----------------------------------------------------------------------------
(* PCRs in a sequence of packets                                           *)

(* Min of a set of numbers is a least element of it. *)
LEMMA MinIs ==
    ASSUME NEW S \in SUBSET Nat, S # {}
    PROVE  Min(S) \in S /\ \A y \in S : Min(S) <= y
<1>1. \E x \in S : \A y \in S : x <= y
    BY HasLeast
<1>2. QED BY <1>1 DEF Min

(* Max of a bounded set of numbers is a greatest element of it. *)
LEMMA MaxIs ==
    ASSUME NEW n \in Nat, NEW S \in SUBSET (1..n), S # {}
    PROVE  Max(S) \in S /\ \A y \in S : Max(S) >= y
<1> DEFINE T == {k \in 0..n : n - k \in S}
<1>1. PICK x \in S : TRUE
    OBVIOUS
<1>2. n - x \in T /\ T \in SUBSET Nat
    BY <1>1
<1>3. PICK k \in T : \A l \in T : k <= l
    BY <1>2, HasLeast
<1>4. n - k \in S /\ \A y \in S : n - k >= y
    <2>1. ASSUME NEW y \in S PROVE n - k >= y
        <3>1. y \in 1..n /\ n - y \in T /\ k \in 0..n
            BY <1>3
        <3>2. k <= n - y
            BY <1>3, <3>1
        <3> HIDE DEF T
        <3>3. QED BY <3>1, <3>2
    <2>2. QED BY <1>3, <2>1
<1>5. QED BY <1>4 DEF Max

(* what the PCR of a packet is                                             *)
LEMMA PcrFields ==
    ASSUME NEW p, HasPcr(p)
    PROVE  p \in Packet /\ p.pid \in Pid /\ p.pcr \in 0..(PcrRange - 1)
BY DEF HasPcr, PcrPacket, Packet

(* They are places in the sequence, so they can be counted; no packet has  *)
(* the pid that means none.                                                *)
LEMMA PcrsAre ==
    ASSUME NEW pid, NEW s \in Seq(Packet)
    PROVE  /\ PcrsOf(pid, s) \subseteq 1..Len(s)
           /\ IsFiniteSet(PcrsOf(pid, s))
           /\ Cardinality(PcrsOf(pid, s)) \in Nat
           /\ pid \notin Pid => Cardinality(PcrsOf(pid, s)) = 0
<1>1. PcrsOf(pid, s) \subseteq 1..Len(s) /\ Len(s) \in Nat
    BY DEF PcrsOf
<1>2. IsFiniteSet(1..Len(s))
    BY <1>1, FS_Interval
<1>3. IsFiniteSet(PcrsOf(pid, s))
    BY <1>1, <1>2, FS_Subset
<1>4. pid \notin Pid => PcrsOf(pid, s) = {}
    BY PcrFields DEF PcrsOf
<1>5. QED BY <1>1, <1>3, <1>4, FS_CardinalityType, FS_EmptySet

(* Their number is the sum over two parts.                                 *)
LEMMA PcrsJoin ==
    ASSUME NEW pid, NEW s \in Seq(Packet), NEW t \in Seq(Packet)
    PROVE  Cardinality(PcrsOf(pid, s \o t)) =
               Cardinality(PcrsOf(pid, s)) + Cardinality(PcrsOf(pid, t))
<1> DEFINE n == Len(s)
           u == s \o t
           A == PcrsOf(pid, s)
           B == PcrsOf(pid, t)
           D == {i \in PcrsOf(pid, u) : i > n}
<1>1. /\ n \in Nat /\ Len(t) \in Nat
      /\ u \in Seq(Packet) /\ Len(u) = n + Len(t)
      /\ \A i \in 1..(n + Len(t)) : u[i] = IF i <= n THEN s[i] ELSE t[i - n]
    BY ConcatProperties
<1>2. /\ A \subseteq 1..n /\ IsFiniteSet(A)
      /\ B \subseteq 1..Len(t) /\ IsFiniteSet(B)
      /\ Cardinality(A) \in Nat /\ Cardinality(B) \in Nat
    BY PcrsAre
<1>3. /\ DOMAIN s = 1..n /\ DOMAIN t = 1..Len(t) /\ DOMAIN u = 1..(n + Len(t))
    BY <1>1
<1> HIDE DEF u, n
<1>4. PcrsOf(pid, u) = A \cup D
    BY <1>1, <1>3 DEF PcrsOf
<1>5. A \cap D = {}
    BY <1>1, <1>2
<1>6. ExistsBijection(B, D)
    <2> DEFINE f == [i \in B |-> i + n]
    <2>1. ASSUME NEW i \in B PROVE i + n \in D
        BY <1>1, <1>2, <1>3 DEF PcrsOf
    <2>2. ASSUME NEW k \in D PROVE \E i \in B : f[i] = k
        <3>1. k - n \in B
            BY <1>1, <1>3 DEF PcrsOf
        <3>2. f[k - n] = k
            BY <1>1, <1>3, <3>1 DEF PcrsOf
        <3>3. QED BY <3>1, <3>2
    <2>3. \A i, j \in B : f[i] = f[j] => i = j
        BY <1>1, <1>2
    <2>4. f \in Bijection(B, D)
        <3>1. f \in [B -> D]
            BY <2>1
        <3> HIDE DEF f
        <3>2. QED BY <2>2, <2>3, <3>1 DEF Bijection, Injection, Surjection, IsInjective
    <2>5. QED BY <2>4 DEF ExistsBijection
<1>7. IsFiniteSet(D) /\ Cardinality(D) = Cardinality(B)
    BY <1>2, <1>6, FS_Bijection
<1>8. Cardinality(A \cup D) =
          Cardinality(A) + Cardinality(D) - Cardinality(A \cap D)
    BY <1>2, <1>7, FS_Union
<1>9. Cardinality(A \cap D) = 0
    BY <1>5, FS_EmptySet
<1> HIDE DEF A, B, D
<1>10. Cardinality(PcrsOf(pid, u)) = Cardinality(A) + Cardinality(B)
    BY <1>2, <1>4, <1>7, <1>8, <1>9
<1>11. QED BY <1>10, Zenon DEF u, A, B

(* the pid that a push or a seek settles on *)
LEMMA LatchedIs ==
    ASSUME NEW s \in Seq(Packet), pcr_pid \in Pid \cup {NoPid}
    PROVE  /\ Latched(s) \in Pid \cup {NoPid}
           /\ pcr_pid # NoPid => Latched(s) = pcr_pid
<1>1. ASSUME NEW S, S = {i \in DOMAIN s : HasPcr(s[i])}, S # {}
      PROVE  s[Min(S)].pid \in Pid
    <2>1. S \in SUBSET Nat
        BY <1>1
    <2>2. Min(S) \in S
        BY <1>1, <2>1, MinIs
    <2>3. QED BY <1>1, <2>2, PcrFields
<1>2. PidOfFirst(s) \in Pid \cup {NoPid}
    BY <1>1 DEF PidOfFirst
<1>3. QED BY <1>2 DEF Latched

(* The packets that a push puts into the buffer are ahead.                 *)
LEMMA PutAhead ==
    ASSUME NEW P, NEW r, Ordered(r, P), NEW q, Ordered(q, P), NEW ps \in Seq(P),
           Filled(q) = Filled(r) + Len(ps), Lookahead(q) = Lookahead(r),
           Contents(q) = Contents(r) \o ps
    PROVE  /\ Ahead(r) \in Seq(P)
           /\ Ahead(q) = Ahead(r) \o ps
<1> DEFINE l == Lookahead(r)
           f == Filled(r)
           a == Ahead(r)
           b == Ahead(q)
           c == Contents(r)
<1>1. /\ l \in Nat /\ f \in Nat /\ l <= f /\ Len(ps) \in Nat
      /\ c \in Seq(P) /\ Len(c) = f
    BY Levels, ContentsSeq DEF Ordered
<1>2. \A i \in 1..(f + Len(ps)) :
         Contents(q)[i] = IF i <= f THEN c[i] ELSE ps[i - f]
    BY <1>1, ConcatProperties
<1>3. a = [i \in 1..(f - l) |-> c[i + l]]
    BY AheadIs
<1>4. b = [i \in 1..(f + Len(ps) - l) |-> Contents(q)[i + l]]
    <2>1. b = [i \in 1..(Filled(q) - Lookahead(q)) |-> Contents(q)[i + Lookahead(q)]]
        BY AheadIs
    <2>2. Filled(q) - Lookahead(q) = f + Len(ps) - l /\ Lookahead(q) = l
        BY <1>1
    <2> HIDE DEF b, f, l
    <2>3. QED BY <2>1, <2>2
<1> HIDE DEF l, f, a, b, c
<1>5. a \in Seq(P) /\ Len(a) = f - l
    <2>1. \A i \in 1..(f - l) : i + l \in 1..Len(c)
        BY <1>1
    <2>2. a \in [1..(f - l) -> P]
        BY <1>1, <1>3, <2>1, ElementOfSeq
    <2>3. f - l \in Nat
        BY <1>1
    <2>4. QED BY <2>2, <2>3
<1> DEFINE u == a \o ps
<1>6. /\ u \in Seq(P) /\ Len(u) = f - l + Len(ps)
      /\ \A i \in 1..(f - l + Len(ps)) : u[i] = IF i <= f - l THEN a[i]
                                                ELSE ps[i - (f - l)]
    BY <1>5, ConcatProperties
<1> HIDE DEF u
<1>7. ASSUME NEW i \in 1..(f - l + Len(ps))
      PROVE  b[i] = u[i]
    <2>1. /\ i \in 1..(f + Len(ps) - l) /\ i + l \in 1..(f + Len(ps))
          /\ i + l <= f <=> i <= f - l
          /\ i + l - f = i - (f - l)
          /\ i <= f - l => i \in 1..(f - l)
        BY <1>1
    <2>2. b[i] = IF i <= f - l THEN c[i + l] ELSE ps[i - (f - l)]
        <3>1. b[i] = Contents(q)[i + l]
            BY <1>4, <2>1
        <3> DEFINE k == i + l
        <3> HIDE DEF k
        <3>2. k \in 1..(f + Len(ps))
            BY <2>1 DEF k
        <3>3. Contents(q)[k] = IF k <= f THEN c[k] ELSE ps[k - f]
            BY <1>2, <3>2
        <3>4. k = i + l /\ (k <= f <=> i <= f - l) /\ k - f = i - (f - l)
            BY <1>1, <2>1 DEF k
        <3>5. QED BY <3>1, <3>3, <3>4
    <2>3. QED BY <1>3, <1>6, <2>1, <2>2
<1>8. b \in Seq(P) /\ Len(b) = f - l + Len(ps)
    <2>1. DOMAIN b = 1..(f - l + Len(ps)) /\ f - l + Len(ps) \in Nat
        BY <1>1, <1>4
    <2>2. \A i \in 1..(f - l + Len(ps)) : b[i] \in P
        BY <1>6, <1>7, ElementOfSeq
    <2>3. b \in [1..(f - l + Len(ps)) -> P]
        BY <1>4, <2>1, <2>2
    <2>4. QED BY <2>1, <2>3
<1>9. b = u
    BY <1>6, <1>7, <1>8, SeqEqual
<1>10. QED BY <1>5, <1>9 DEF a, b, u

-----------------------------------------------------------------------------
(* The invariant                                                           *)

(* n blocks are held: e, and one for each PCR of some pid that is ahead,   *)
(* which is p if p is a pid                                                *)
Held(r, p, n, e) ==
    \E pid \in Pid :
        /\ p \in {pid, NoPid}
        /\ n <= Cardinality(PcrsOf(pid, Ahead(r))) + e

(* the packets before the lookahead end with the PCR cur of pid p, and     *)
(* none but the first of the others has a PCR of that pid                  *)
OneBlock(r, p, cur) ==
    LET l == Lookahead(r)
    IN  /\ HasPcr(Contents(r)[l])
        /\ Contents(r)[l].pid = p
        /\ Contents(r)[l].pcr = cur
        /\ \A k \in 1..l :
              HasPcr(Contents(r)[k]) /\ Contents(r)[k].pid = p => k \in {1, l}

(* the block being sent, which num_blocks may still count *)
SomeIfPaced == IF paced THEN 1 ELSE 0

(* The level is what is held, or less.                                     *)
Blocks == Held(ring, pcr_pid, num_blocks, SomeIfPaced)

(* With a pace, what is before the lookahead is the rest of one block;     *)
(* without one, nothing is before it.                                      *)
Pace ==
    /\ paced /\ Lookahead(ring) > 0 => OneBlock(ring, pcr_pid, pcr_cur)
    /\ ~paced => Lookahead(ring) = 0

(* Packets are only sent from a buffer that was filled once, and no blocks *)
(* are counted before there is a pid to count.                             *)
Phase ==
    /\ paced => buffered
    /\ pc = "dequeue" => buffered
    /\ ~buffered /\ pcr_pid = NoPid => num_blocks = 0

(* the inductive invariant *)
IInv == TypeOK /\ Ordered(ring, Packet) /\ Blocks /\ Pace /\ Phase

(* what is ahead depends on nothing but the contents and the lookahead *)
LEMMA AheadSame ==
    ASSUME NEW P, NEW q, NEW r, Ordered(r, P), Ordered(q, P),
           Contents(q) = Contents(r), Filled(q) = Filled(r),
           Lookahead(q) = Lookahead(r)
    PROVE  Ahead(q) = Ahead(r)
<1>1. Ahead(r) = [i \in 1..(Filled(r) - Lookahead(r)) |->
                     Contents(r)[i + Lookahead(r)]]
    BY AheadIs
<1>2. Ahead(q) = [i \in 1..(Filled(q) - Lookahead(q)) |->
                     Contents(q)[i + Lookahead(q)]]
    BY AheadIs
<1>3. QED BY <1>1, <1>2, Zenon

(* with no lookahead, everything is ahead *)
LEMMA AheadIsAll ==
    ASSUME NEW P, NEW r, Ordered(r, P), Lookahead(r) = 0
    PROVE  Ahead(r) = Contents(r)
<1>1. /\ Ahead(r) = [i \in 1..(Filled(r) - Lookahead(r)) |->
                        Contents(r)[i + Lookahead(r)]]
      /\ Filled(r) \in Nat
    BY AheadIs, Levels DEF Ordered
<1>2. Filled(r) - Lookahead(r) = Filled(r) /\ \A i \in 1..Filled(r) : i + Lookahead(r) = i
    BY <1>1
<1>3. Ahead(r) = [i \in 1..Filled(r) |-> Contents(r)[i]]
    BY <1>1, <1>2
<1>4. Contents(r) = [i \in 1..Filled(r) |-> Contents(r)[i]]
    BY ContentsAre DEF Ordered
<1>5. QED BY <1>3, <1>4

(* What is ahead is a sequence of packets. *)
LEMMA AheadSeq ==
    ASSUME NEW P, NEW r, Ordered(r, P)
    PROVE  Ahead(r) \in Seq(P) /\ Len(Ahead(r)) = Filled(r) - Lookahead(r)
<1>1. /\ Ahead(r) = [i \in 1..(Filled(r) - Lookahead(r)) |->
                        Contents(r)[i + Lookahead(r)]]
      /\ Filled(r) \in Nat /\ Lookahead(r) \in Nat /\ Lookahead(r) <= Filled(r)
    BY AheadIs, Levels DEF Ordered
<1>2. \A i \in 1..(Filled(r) - Lookahead(r)) : i + Lookahead(r) \in 1..Filled(r)
    BY <1>1
<1>3. \A i \in 1..Filled(r) : Contents(r)[i] \in P
    BY DEF Ordered
<1>4. Ahead(r) \in [1..(Filled(r) - Lookahead(r)) -> P]
    BY <1>1, <1>2, <1>3
<1>5. Filled(r) - Lookahead(r) \in Nat
    BY <1>1
<1>6. QED BY <1>4, <1>5

(* No block is always held.                                                *)
LEMMA HeldNone ==
    ASSUME NEW r, Ordered(r, Packet), NEW e \in Nat
    PROVE  Held(r, NoPid, 0, e)
<1>1. PICK pid \in Pid : TRUE
    BY SyncAssumption
<1>2. Cardinality(PcrsOf(pid, Ahead(r))) \in Nat
    BY AheadSeq, PcrsAre
<1>3. QED BY <1>2 DEF Held

(* A push adds the PCRs of the pid that it counts, which is the PCR pid,   *)
(* or any if no block was counted before there was one.                    *)
LEMMA HeldPut ==
    ASSUME NEW r, Ordered(r, Packet), NEW q, Ordered(q, Packet),
           NEW ps \in Seq(Packet),
           Ahead(q) = Ahead(r) \o ps,
           NEW p \in Pid \cup {NoPid}, NEW n \in Nat, NEW e \in Nat,
           Held(r, p, n, e),
           NEW pid \in Pid \cup {NoPid}, pid = p \/ (p = NoPid /\ n = 0)
    PROVE  Held(q, pid, n + Cardinality(PcrsOf(pid, ps)), e)
<1>1. \A x : /\ Cardinality(PcrsOf(x, Ahead(q))) =
                  Cardinality(PcrsOf(x, Ahead(r))) + Cardinality(PcrsOf(x, ps))
             /\ Cardinality(PcrsOf(x, Ahead(r))) \in Nat
             /\ Cardinality(PcrsOf(x, ps)) \in Nat
    BY AheadSeq, PcrsJoin, PcrsAre
<1>2. NoPid \notin Pid
    BY SyncAssumption
<1>3. CASE pid \in Pid
    <2>1. pid = p => n <= Cardinality(PcrsOf(pid, Ahead(r))) + e
        BY <1>2, <1>3 DEF Held
    <2>2. n + Cardinality(PcrsOf(pid, ps)) <= Cardinality(PcrsOf(pid, Ahead(q))) + e
        BY <1>1, <2>1
    <2>3. QED BY <1>3, <2>2 DEF Held
<1>4. CASE pid \notin Pid
    <2>1. pid = NoPid /\ p = NoPid /\ Cardinality(PcrsOf(pid, ps)) = 0
        BY <1>4, PcrsAre
    <2>2. PICK x \in Pid : n <= Cardinality(PcrsOf(x, Ahead(r))) + e
        BY DEF Held
    <2>3. n + Cardinality(PcrsOf(pid, ps)) <= Cardinality(PcrsOf(x, Ahead(q))) + e
        BY <1>1, <2>1, <2>2
    <2>4. QED BY <2>1, <2>3 DEF Held
<1>5. QED BY <1>3, <1>4

(* A forgotten PCR pid takes nothing away.                                 *)
LEMMA HeldOfNone ==
    ASSUME NEW r, NEW p, NEW n, NEW e, Held(r, p, n, e)
    PROVE  Held(r, NoPid, n, e)
BY DEF Held

(* The parts of the invariant are the properties that the runs check.      *)
LEMMA IInvGives ==
    IInv => BlocksHeld /\ OneBlockPerPace
<1> SUFFICES ASSUME IInv PROVE BlocksHeld /\ OneBlockPerPace
    OBVIOUS
<1>1. Ordered(ring, Packet) /\ Blocks /\ Pace /\ paced \in BOOLEAN
    BY DEF IInv, TypeOK
<1>2. BlocksHeld
    BY <1>1 DEF Blocks, Held, SomeIfPaced, BlocksHeld, Ordered
<1>3. OneBlockPerPace
    <2> DEFINE n == Lookahead(ring)
               block == [i \in 1..n |-> ring.buf[Slot(ring, ring.send, i - 1)]]
               c == Contents(ring)
    <2>1. \A i \in 1..n : ring.buf[Slot(ring, ring.send, i - 1)] = c[i]
        BY <1>1, AheadIs
    <2>2. \A i \in 1..n : block[i] = c[i]
        BY <2>1
    <2>3. DOMAIN block = 1..n /\ n \in Nat
        BY <1>1, Levels DEF Ordered
    <2>4. paced /\ n > 0 =>
              /\ HasPcr(c[n]) /\ c[n].pid = pcr_pid /\ c[n].pcr = pcr_cur
              /\ \A k \in 1..n : HasPcr(c[k]) /\ c[k].pid = pcr_pid => k \in {1, n}
        BY <1>1, Zenon DEF Pace, OneBlock
    <2>5. ~paced => n = 0
        BY <1>1 DEF Pace
    <2> HIDE DEF n, block, c
    <2>6. paced /\ n > 0 =>
              /\ n \in PcrsOf(pcr_pid, block) /\ block[n].pcr = pcr_cur
              /\ PcrsOf(pcr_pid, block) \subseteq {1, n}
        BY <2>2, <2>3, <2>4 DEF PcrsOf
    <2>7. QED BY <2>5, <2>6, Zenon DEF OneBlockPerPace, n, block
<1>4. QED BY <1>2, <1>3

-----------------------------------------------------------------------------
(* The search for the next block                                           *)

(* What is dropped before place i: nothing, or all before a packet with a  *)
(* PCR, after which there is no PCR of the pid before i.                   *)
LEMMA Dropped ==
    ASSUME Ordered(ring, Packet), ring.send = ring.pcr,
           NEW i \in 1..(Filled(ring) + 1)
    PROVE  /\ Lookahead(ring) = 0
           /\ Ahead(ring) = Contents(ring)
           /\ Candidates \subseteq 1..Filled(ring)
           /\ DroppedBefore(i) \in 0..(i - 1)
           /\ DroppedBefore(i) # 0 =>
                 /\ DroppedBefore(i) + 1 \in 1..Filled(ring)
                 /\ DroppedBefore(i) + 1 < i
                 /\ HasPcr(Contents(ring)[DroppedBefore(i) + 1])
           /\ \A k \in Candidates : k < i => k <= DroppedBefore(i) + 1
<1> DEFINE f == Filled(ring)
           broken == {k \in Candidates : k < i}
<1>1. /\ IsRing(ring, Packet) /\ f \in Nat
      /\ Contents(ring) \in Seq(Packet) /\ Len(Contents(ring)) = f
    BY Levels, ContentsSeq DEF Ordered
<1>2. Lookahead(ring) = 0
    BY <1>1, Ends
<1>3. Ahead(ring) = Contents(ring)
    BY <1>2, AheadIsAll
<1>4. /\ Candidates \subseteq 1..f
      /\ \A k \in Candidates : HasPcr(Contents(ring)[k])
    BY <1>1, <1>3 DEF Candidates, PcrsOf
<1>5. CASE broken = {}
    <2>1. DroppedBefore(i) = 0
        BY <1>5 DEF DroppedBefore
    <2>2. \A k \in Candidates : ~(k < i)
        BY <1>5
    <2> HIDE DEF broken
    <2>3. \A k \in Candidates : k < i => k <= DroppedBefore(i) + 1
        BY <2>2
    <2>4. 0 \in 0..(i - 1)
        BY <1>1
    <2>5. QED BY <1>2, <1>3, <1>4, <2>1, <2>3, <2>4
<1>6. CASE broken # {}
    <2>1. DroppedBefore(i) = Max(broken) - 1
        BY <1>6 DEF DroppedBefore
    <2>2. broken \in SUBSET (1..f)
        BY <1>4
    <2>3. Max(broken) \in broken /\ \A y \in broken : Max(broken) >= y
        BY <1>1, <1>6, <2>2, MaxIs
    <2> DEFINE m == Max(broken)
    <2>4. /\ m \in 1..f /\ m < i /\ HasPcr(Contents(ring)[m])
          /\ \A k \in Candidates : k < i => k <= m
        BY <1>4, <2>3
    <2> HIDE DEF m, broken
    <2>5. DroppedBefore(i) = m - 1 /\ m - 1 + 1 = m /\ m - 1 \in 0..(i - 1)
        BY <1>1, <2>1, <2>4 DEF m
    <2>6. QED BY <1>2, <1>3, <1>4, <2>4, <2>5
<1>7. QED BY <1>5, <1>6

(* The packet that ends the next block.                                    *)
LEMMA FoundIs ==
    ASSUME Ordered(ring, Packet), ring.send = ring.pcr, Found # {}
    PROVE  /\ Min(Found) \in Candidates
           /\ Min(Found) \in 1..Filled(ring)
           /\ HasPcr(Contents(ring)[Min(Found)])
           /\ Contents(ring)[Min(Found)].pid = SeekPid
           /\ SeekPid \in Pid
           /\ Contents(ring)[Min(Found)].pcr \in 0..(PcrRange - 1)
<1>1. Filled(ring) \in Nat
    BY Levels DEF Ordered
<1>2. 1 \in 1..(Filled(ring) + 1)
    BY <1>1
<1>3. /\ Ahead(ring) = Contents(ring)
      /\ Candidates \subseteq 1..Filled(ring)
    BY <1>2, Dropped
<1>4. Found \in SUBSET Nat
    <2>1. Found \subseteq Candidates
        BY Zenon DEF Found
    <2>2. QED BY <1>1, <1>3, <2>1
<1>5. Min(Found) \in Found
    BY <1>4, MinIs
<1>6. Min(Found) \in Candidates
    BY <1>5 DEF Found
<1>7. /\ HasPcr(Contents(ring)[Min(Found)])
      /\ Contents(ring)[Min(Found)].pid = SeekPid
    BY <1>3, <1>6 DEF Candidates, PcrsOf
<1>8. QED BY <1>3, <1>6, <1>7, PcrFields

-----------------------------------------------------------------------------
(* What each operation does to the buffer                                  *)

(* the state after a full reset *)
Fresh ==
    /\ Emptied(ring, Packet)
    /\ last_error = FALSE /\ num_blocks = 0 /\ buffered = FALSE
    /\ pcr_cur = NoTime /\ pcr_pid = NoPid /\ paced = FALSE
    /\ sent = NoTime

(* ResetAll leaves the buffer and the block state as they start. *)
LEMMA ResetAllIs ==
    ASSUME IInv, ResetAll
    PROVE  Fresh'
<1>1. IsRing(ring, Packet)
    BY DEF IInv, Ordered
<1>2. /\ ring' = Rewound(Cleared(ring))
      /\ last_error' = FALSE /\ num_blocks' = 0 /\ buffered' = FALSE
      /\ pcr_cur' = NoTime /\ pcr_pid' = NoPid /\ paced' = FALSE
      /\ sent' = NoTime
    BY DEF ResetAll, ResetBlocks, ResetPcr, Cleared, Rewound
<1>3. Emptied(ring', Packet)
    BY <1>1, <1>2, ClearedIsEmpty, RewoundEmpty
<1>4. QED BY <1>2, <1>3 DEF Fresh

(* A push that fits: the packets are behind the others; the lookahead is   *)
(* kept, or there is none.                                                 *)
LEMMA PushIs ==
    ASSUME IInv, NEW ps \in Seq(Packet), Push(ps)
    PROVE  /\ Ordered(ring', Packet)
           /\ Contents(ring') = Contents(ring) \o ps
           /\ Ahead(Put(WithRoom(ring, Len(ps)), ps)) = Ahead(ring) \o ps
           /\ Ordered(Put(WithRoom(ring, Len(ps)), ps), Packet)
           /\ Lookahead(Put(WithRoom(ring, Len(ps)), ps)) = Lookahead(ring)
           /\ ring' \in {Put(WithRoom(ring, Len(ps)), ps),
                         Rewound(Put(WithRoom(ring, Len(ps)), ps))}
<1> DEFINE w == WithRoom(ring, Len(ps))
           q == Put(w, ps)
<1>1. Ordered(ring, Packet)
    BY DEF IInv
<1>2. Kept(w, ring, Packet)
    BY <1>1, WithRoomKeeps
<1>3. Len(ps) <= Space(w) /\ ring' \in {q, Rewound(q)}
    <2>1. Space(w) >= Len(ps)
        BY DEF Push
    <2>2. ring' \in {q, Rewound(q)}
        BY DEF Push, ResetPcr, Rewound
    <2>3. Space(w) \in Int /\ Len(ps) \in Int
        BY <1>2, Levels DEF Kept, Ordered
    <2>4. QED BY <2>1, <2>2, <2>3
<1>4. /\ Ordered(q, Packet)
      /\ Filled(q) = Filled(w) + Len(ps)
      /\ Lookahead(q) = Lookahead(w)
      /\ Contents(q) = Contents(w) \o ps
    BY <1>2, <1>3, PutAppends DEF Kept
<1>5. /\ Filled(w) = Filled(ring) /\ Lookahead(w) = Lookahead(ring)
      /\ Contents(w) = Contents(ring)
    BY <1>2 DEF Kept
<1> HIDE DEF q, w
<1>6. Ahead(q) = Ahead(ring) \o ps
    <2>1. /\ Filled(q) = Filled(ring) + Len(ps)
          /\ Lookahead(q) = Lookahead(ring)
          /\ Contents(q) = Contents(ring) \o ps
        BY <1>4, <1>5
    <2>2. QED BY <1>1, <1>4, <2>1, PutAhead
<1>7. Ordered(Rewound(q), Packet) /\ Contents(Rewound(q)) = Contents(q)
    BY <1>4, RewoundKeeps
<1>8. QED BY <1>3, <1>4, <1>5, <1>6, <1>7 DEF q, w

(* One packet of a block is sent.                                          *)
LEMMA SendNextIs ==
    ASSUME IInv, SendNext
    PROVE  /\ Lookahead(ring) >= 1
           /\ ring' = Drop(ring, 1)
           /\ sent' = Head(Contents(ring))
           /\ sent' \in Packet
           /\ paced
<1>1. Ordered(ring, Packet) /\ Pace
    BY DEF IInv
<1>2. Lookahead(ring) \in Nat /\ Lookahead(ring) # 0
    BY <1>1, Ends, Levels DEF Ordered, SendNext
<1>3. sent' = ring.buf[ring.send] /\ ring' = Drop(ring, 1)
    BY DEF SendNext, Send
<1>4. Lookahead(ring) >= 1
    BY <1>2
<1>5. paced
    BY <1>1, <1>2 DEF Pace
<1>6. ring.buf[ring.send] = Head(Contents(ring)) /\ ring.buf[ring.send] \in Packet
    BY <1>1, <1>4, SendsHead
<1>7. QED BY <1>3, <1>4, <1>5, <1>6, Zenon

(* the buffer when the next block was found, before its first packet is    *)
(* sent                                                                    *)
AtBlock == Cut(ring, DroppedBefore(Min(Found)), Min(Found))

(* The next block is found and its first packet is sent.                   *)
LEMMA SeekAndSendIs ==
    ASSUME IInv, SeekAndSend
    PROVE  /\ Ordered(AtBlock, Packet)
           /\ num_blocks' = BlockCount(AtBlock, SeekPid)
           /\ pcr_cur' = Contents(ring)[Min(Found)].pcr
           /\ \E q : /\ Kept(q, AtBlock, Packet)
                     /\ Lookahead(q) >= 1
                     /\ sent' = q.buf[q.send]
                     /\ ring' = Drop(q, 1)
<1> DEFINE i == Min(Found)
           d == DroppedBefore(i)
           r == [Drop(ring, d) EXCEPT !.pcr = Slot(ring, @, i)]
<1>1. /\ Ordered(ring, Packet) /\ ring.send = ring.pcr /\ Found # {}
      /\ IsRing(ring, Packet)
    BY DEF IInv, SeekAndSend, Ordered
<1>2. i \in 1..Filled(ring) /\ Filled(ring) \in Nat
    BY <1>1, FoundIs, Levels
<1>3. i \in 1..(Filled(ring) + 1) /\ i \in 0..Filled(ring) /\ i \in Nat
    BY <1>2
<1>4. /\ d \in 0..(i - 1) /\ Lookahead(ring) = 0
      /\ Ahead(ring) = Contents(ring)
    BY <1>1, <1>3, Dropped
<1>5. d \in 0..i /\ i - d >= 1 /\ d \in 0..ring.size
    BY <1>2, <1>3, <1>4, <1>1, Levels, RingFields
<1>6. Drop(ring, d).pcr = ring.pcr
    <2> DEFINE b == [k \in 0..(ring.size - 1) |->
                     IF (k - ring.send) % ring.size < d THEN Junk ELSE ring.buf[k]]
               t == Slot(ring, ring.send, d)
    <2>1. Drop(ring, d) = [ring EXCEPT !.send = t, !.buf = b]
        BY Zenon DEF Drop
    <2> HIDE DEF b, t
    <2>2. Drop(ring, d) = RingOf(b, ring.size, ring.rcv, ring.pcr, t)
        BY <1>1, <2>1, RingDropExcept
    <2>3. QED BY <2>2, MadeFields
<1>7. r = AtBlock
    BY <1>1, <1>6 DEF AtBlock, Cut
<1>8. Ordered(AtBlock, Packet) /\ Lookahead(AtBlock) = i - d
    BY <1>1, <1>3, <1>5, CutTakes DEF AtBlock
<1>9. /\ num_blocks' = BlockCount(r, SeekPid)
      /\ pcr_cur' = Ahead(ring)[i].pcr
      /\ \E q \in {r, Compacted(r)} : sent' = q.buf[q.send] /\ ring' = Drop(q, 1)
    BY Zenon DEF SeekAndSend, Send
<1>10. ASSUME NEW q \in {r, Compacted(r)}
       PROVE  Kept(q, AtBlock, Packet)
    <2>1. Kept(AtBlock, AtBlock, Packet) /\ Kept(Compacted(AtBlock), AtBlock, Packet)
        BY <1>8, CompactedKeeps DEF Kept
    <2>2. QED BY <1>7, <2>1
<1> HIDE DEF r, i, d
<1>11. \E q : /\ Kept(q, AtBlock, Packet)
              /\ Lookahead(q) >= 1
              /\ sent' = q.buf[q.send]
              /\ ring' = Drop(q, 1)
    <2>1. PICK q \in {r, Compacted(r)} : sent' = q.buf[q.send] /\ ring' = Drop(q, 1)
        BY <1>9
    <2>2. Kept(q, AtBlock, Packet)
        BY <1>10
    <2>3. Lookahead(q) >= 1
        BY <1>5, <1>8, <2>2 DEF Kept
    <2>4. QED BY <2>1, <2>2, <2>3
<1>12. QED BY <1>4, <1>7, <1>8, <1>9, <1>11 DEF i

(* what is dropped when there is no next block *)
Rest == DroppedBefore(Len(Ahead(ring)) + 1)

(* The packets before the last PCR are dropped, and the search will start  *)
(* again.                                                                  *)
LEMMA SeekFailsIs ==
    ASSUME IInv, SeekFails
    PROVE  /\ Rest \in 0..Filled(ring)
           /\ Rest # 0 => /\ Rest + 1 \in 1..Filled(ring)
                          /\ HasPcr(Contents(ring)[Rest + 1])
           /\ ring' = Cut(ring, Rest, Rest)
           /\ Ordered(ring', Packet)
           /\ Lookahead(ring') = 0
<1>1. /\ Ordered(ring, Packet) /\ ring.send = ring.pcr
      /\ IsRing(ring, Packet) /\ Filled(ring) \in Nat
    BY Levels DEF IInv, SeekFails, Ordered
<1>2. Filled(ring) + 1 \in 1..(Filled(ring) + 1) /\ 1 \in 1..(Filled(ring) + 1)
    BY <1>1
<1>3. Ahead(ring) = Contents(ring) /\ Len(Contents(ring)) = Filled(ring)
    BY <1>1, <1>2, Dropped, ContentsSeq
<1>4. Rest = DroppedBefore(Filled(ring) + 1)
    BY <1>3 DEF Rest
<1>5. /\ Rest \in 0..(Filled(ring) + 1 - 1)
      /\ Rest # 0 => /\ Rest + 1 \in 1..Filled(ring)
                     /\ HasPcr(Contents(ring)[Rest + 1])
    BY <1>1, <1>2, <1>4, Dropped
<1>6. Rest \in 0..Filled(ring) /\ Rest \in 0..Rest /\ Rest - Rest = 0
    BY <1>1, <1>5
<1>7. Drop(ring, Rest).send = Slot(ring, ring.send, Rest)
    <2> DEFINE b == [k \in 0..(ring.size - 1) |->
                     IF (k - ring.send) % ring.size < Rest THEN Junk ELSE ring.buf[k]]
               t == Slot(ring, ring.send, Rest)
    <2>1. Drop(ring, Rest) = [ring EXCEPT !.send = t, !.buf = b]
        BY Zenon DEF Drop
    <2> HIDE DEF b, t
    <2>2. Drop(ring, Rest) = RingOf(b, ring.size, ring.rcv, ring.pcr, t)
        BY <1>1, <2>1, RingDropExcept
    <2>3. QED BY <2>2, MadeFields DEF t
<1>8. ring' = [Drop(ring, Rest) EXCEPT !.pcr = Drop(ring, Rest).send]
    BY Zenon DEF SeekFails, ResetBlocks, ResetPcr, Rest
<1>9. ring' = Cut(ring, Rest, Rest)
    BY <1>7, <1>8 DEF Cut
<1>10. QED BY <1>1, <1>5, <1>6, <1>9, CutTakes

-----------------------------------------------------------------------------
(* The invariant is inductive                                              *)

(* the steps of ts_sync_loop that only decide *)
LEMMA DecidingKeeps ==
    ASSUME IInv,
           UNCHANGED <<ring, pcr_pid, num_blocks, pcr_cur, paced, buffered, sent>>,
           last_run' \in BOOLEAN, last_error' \in BOOLEAN, elapsed' \in BOOLEAN,
           pc' \in {"idle", "ready", "check", "dequeue"},
           pc' = "dequeue" => buffered
    PROVE  IInv'
<1>1. TypeOK'
    BY DEF IInv, TypeOK
<1>2. Ordered(ring, Packet)' /\ Blocks' /\ Pace'
    BY DEF IInv, Blocks, Pace, SomeIfPaced
<1>3. Phase'
    BY DEF IInv, Phase
<1>4. QED BY <1>1, <1>2, <1>3 DEF IInv

(* a full reset *)
LEMMA FreshIsFine ==
    ASSUME Fresh', last_run' \in BOOLEAN, elapsed' \in BOOLEAN,
           pc' \in {"idle", "ready", "check"}
    PROVE  IInv'
<1>1. Ordered(ring', Packet) /\ Lookahead(ring') = 0
    BY DEF Fresh, Emptied
<1>2. /\ last_error' = FALSE /\ num_blocks' = 0 /\ buffered' = FALSE
      /\ pcr_cur' = NoTime /\ pcr_pid' = NoPid /\ paced' = FALSE
      /\ sent' = NoTime
    BY DEF Fresh
<1>3. TypeOK'
    BY <1>1, <1>2 DEF TypeOK, Ordered
<1>4. Held(ring', NoPid, 0, 0)
    BY <1>1, HeldNone
<1>5. Blocks'
    BY <1>2, <1>4 DEF Blocks, SomeIfPaced
<1>6. Pace' /\ Phase'
    BY <1>1, <1>2 DEF Pace, Phase
<1>7. QED BY <1>1, <1>3, <1>5, <1>6 DEF IInv

(* ts_sync_reset keeps the invariant. *)
LEMMA ResetKeeps ==
    ASSUME IInv, Reset
    PROVE  IInv'
<1>1. ResetAll /\ last_run' = FALSE /\ pc' = pc /\ elapsed' = elapsed
      /\ pc \in {"idle", "ready"}
    BY DEF Reset
<1>2. Fresh'
    BY <1>1, ResetAllIs
<1>3. elapsed \in BOOLEAN
    BY DEF IInv, TypeOK
<1>4. QED BY <1>1, <1>2, <1>3, FreshIsFine

(* The start of ts_sync_loop keeps it, when time jumps back too. *)
LEMMA LoopBeginKeeps ==
    ASSUME IInv, LoopBegin
    PROVE  IInv'
<1>1. /\ last_run' = TRUE /\ pc' \in {"ready", "check"}
      /\ last_run \in BOOLEAN /\ last_error \in BOOLEAN
    BY DEF IInv, TypeOK, LoopBegin
<1>2. CASE /\ elapsed' \in {FALSE, last_run}
           /\ UNCHANGED <<ring, last_error, pcr_pid, num_blocks, pcr_cur, paced,
                          buffered, sent>>
    BY <1>1, <1>2, DecidingKeeps
<1>3. CASE ResetAll /\ elapsed' = FALSE
    <2>1. Fresh'
        BY <1>3, ResetAllIs
    <2>2. QED BY <1>1, <1>3, <2>1, FreshIsFine
<1>4. QED BY <1>2, <1>3 DEF LoopBegin

(* Waiting below low_blocks keeps it, and giving up does. *)
LEMMA UnderflowKeeps ==
    ASSUME IInv, Underflow
    PROVE  IInv'
<1>1. /\ pc' = "idle" /\ last_run' \in {last_run, FALSE} /\ elapsed' = elapsed
      /\ last_run \in BOOLEAN /\ elapsed \in BOOLEAN
    BY DEF IInv, TypeOK, Underflow
<1>2. CASE /\ last_error' = TRUE
           /\ UNCHANGED <<ring, pcr_pid, num_blocks, pcr_cur, paced, buffered, sent>>
    BY <1>1, <1>2, DecidingKeeps
<1>3. CASE ResetAll
    <2>1. Fresh'
        BY <1>3, ResetAllIs
    <2>2. QED BY <1>1, <2>1, FreshIsFine
<1>4. QED BY <1>2, <1>3 DEF Underflow

(* Steps that only decide where ts_sync_loop goes on keep it. *)
LEMMA DecisionsKeep ==
    ASSUME IInv, OnReady \/ LoopReturn \/ LevelOk \/ LoopEnd
    PROVE  IInv'
<1>1. /\ last_run \in BOOLEAN /\ last_error \in BOOLEAN /\ elapsed \in BOOLEAN
    BY DEF IInv, TypeOK
<1>2. CASE OnReady
    BY <1>1, <1>2, DecidingKeeps DEF OnReady, state
<1>3. CASE LoopReturn
    BY <1>1, <1>3, DecidingKeeps DEF LoopReturn, state
<1>4. CASE LevelOk
    BY <1>1, <1>4, DecidingKeeps DEF LevelOk
<1>5. CASE LoopEnd
    BY <1>1, <1>5, DecidingKeeps DEF LoopEnd, state
<1>6. QED BY <1>2, <1>3, <1>4, <1>5

(* A push keeps it, with the count restarted at enough_blocks or not. *)
LEMMA PushKeeps ==
    ASSUME IInv, NEW ps \in Seq(Packet), Push(ps)
    PROVE  IInv'
<1> DEFINE q == Put(WithRoom(ring, Len(ps)), ps)
           pid == IF buffered THEN pcr_pid ELSE Latched(ps)
           c == Cardinality(PcrsOf(pid, ps))
           full == ~buffered /\ num_blocks + c >= Enough
<1>1. /\ Ordered(ring', Packet) /\ Ordered(q, Packet)
      /\ Ahead(q) = Ahead(ring) \o ps
      /\ Lookahead(q) = Lookahead(ring)
      /\ Lookahead(ring) \in Nat
    <2>1. Ordered(ring, Packet)
        BY DEF IInv
    <2>2. /\ Ordered(ring', Packet) /\ Ordered(q, Packet)
          /\ Ahead(q) = Ahead(ring) \o ps
          /\ Lookahead(q) = Lookahead(ring)
        BY PushIs, Zenon
    <2> HIDE DEF q
    <2>3. Lookahead(ring) \in Nat
        BY <2>1, Levels DEF Ordered
    <2>4. QED BY <2>2, <2>3
<1>2. /\ num_blocks' = num_blocks + c
      /\ full => /\ ring' = Rewound(q) /\ pcr_cur' = NoTime
                 /\ pcr_pid' = NoPid /\ paced' = FALSE /\ buffered' = TRUE
      /\ ~full => /\ ring' = q /\ pcr_pid' = pid
                  /\ UNCHANGED <<pcr_cur, paced, buffered>>
      /\ UNCHANGED <<last_run, last_error, pc, elapsed, sent>>
      /\ pc \in {"idle", "ready"}
    BY Zenon DEF Push, ResetPcr, Rewound, MayPush
<1>3. /\ TypeOK /\ Ordered(ring, Packet) /\ Blocks /\ Pace /\ Phase
    BY DEF IInv
<1>4. /\ pid \in Pid \cup {NoPid} /\ c \in Nat
      /\ pid = pcr_pid \/ (pcr_pid = NoPid /\ num_blocks = 0)
    <2>1. pcr_pid \in Pid \cup {NoPid}
        BY <1>3 DEF TypeOK
    <2>2. /\ Latched(ps) \in Pid \cup {NoPid}
          /\ pcr_pid # NoPid => Latched(ps) = pcr_pid
        BY <2>1, LatchedIs
    <2>3. ~buffered /\ pcr_pid = NoPid => num_blocks = 0
        BY <1>3 DEF Phase
    <2>4. c \in Nat
        BY PcrsAre
    <2>4a. /\ buffered => pid = pcr_pid
           /\ ~buffered => pid = Latched(ps)
        BY Zenon
    <2> HIDE DEF c, pid
    <2>5. CASE buffered
        BY <2>1, <2>4, <2>4a, <2>5
    <2>6. CASE ~buffered
        BY <2>2, <2>3, <2>4, <2>4a, <2>6
    <2>7. QED BY <2>5, <2>6
<1>5. pid = NoPid => c = 0
    BY PcrsAre, SyncAssumption
<1> HIDE DEF q, pid, c
<1>6. SomeIfPaced \in Nat /\ num_blocks \in Nat /\ pcr_pid \in Pid \cup {NoPid}
    BY <1>3 DEF TypeOK, SomeIfPaced
<1>7. Held(q, pid, num_blocks + c, SomeIfPaced)
    BY <1>1, <1>3, <1>4, <1>6, HeldPut DEF Blocks, c
<1>8. CASE full
    <2>1. ~paced /\ SomeIfPaced = 0 /\ Lookahead(ring) = 0
        BY <1>3, <1>8 DEF Phase, Pace, SomeIfPaced
    <2>2. /\ Contents(ring') = Contents(q) /\ Filled(ring') = Filled(q)
          /\ Lookahead(ring') = 0 /\ Lookahead(q) = 0
        BY <1>1, <1>2, <1>8, <2>1, RewoundKeeps
    <2>3. Ahead(ring') = Ahead(q)
        BY <1>1, <2>2, AheadSame
    <2>4. Held(ring', NoPid, num_blocks + c, 0)
        BY <1>7, <2>1, <2>3, HeldOfNone DEF Held
    <2>5. Blocks'
        BY <1>2, <1>8, <2>4 DEF Blocks, SomeIfPaced
    <2>6. Pace' /\ Phase'
        BY <1>2, <1>8, <2>2 DEF Pace, Phase
    <2>7. TypeOK'
        <3>1. /\ pcr_cur' = NoTime /\ pcr_pid' = NoPid /\ paced' = FALSE
              /\ buffered' = TRUE /\ num_blocks' = num_blocks + c
              /\ UNCHANGED <<last_run, last_error, pc, elapsed, sent>>
            BY <1>2, <1>8
        <3>2. IsRing(ring', Packet) /\ num_blocks + c \in Nat
            BY <1>1, <1>4, <1>6 DEF Ordered
        <3>3. QED BY <1>3, <3>1, <3>2 DEF TypeOK
    <2>8. QED BY <1>1, <2>5, <2>6, <2>7 DEF IInv
<1>9. CASE ~full
    <2>1. ring' = q /\ pcr_pid' = pid /\ UNCHANGED <<pcr_cur, paced, buffered>>
        BY <1>2, <1>9
    <2>2. Blocks'
        BY <1>2, <1>7, <2>1 DEF Blocks, SomeIfPaced
    <2>3. TypeOK'
        BY <1>1, <1>2, <1>3, <1>4, <2>1 DEF TypeOK, Ordered
    <2>4. Phase'
        <3>1. ~buffered /\ pid = NoPid => num_blocks + c = 0
            BY <1>3, <1>4, <1>5, <1>6 DEF Phase
        <3>2. QED BY <1>2, <1>3, <2>1, <3>1 DEF Phase
    <2>5. Pace'
        <3>1. ~paced => Lookahead(ring') = 0
            BY <1>1, <1>3, <2>1 DEF Pace
        <3>2. ASSUME paced, Lookahead(ring') > 0
              PROVE  OneBlock(ring', pid, pcr_cur)
            <4>1. OneBlock(ring, pcr_pid, pcr_cur) /\ pid = pcr_pid
                <5>1. OneBlock(ring, pcr_pid, pcr_cur)
                    BY <1>1, <1>3, <2>1, <3>2 DEF Pace
                <5>2. buffered
                    BY <1>3, <3>2 DEF Phase
                <5>3. QED BY <5>1, <5>2 DEF pid
            <4>2. \A k \in 1..Lookahead(ring) : Contents(q)[k] = Contents(ring)[k]
                <5>1. /\ Contents(ring) \in Seq(Packet)
                      /\ Len(Contents(ring)) = Filled(ring)
                      /\ Filled(ring) \in Nat /\ Lookahead(ring) <= Filled(ring)
                    BY <1>3, ContentsSeq, Levels DEF Ordered
                <5>2. Contents(q) = Contents(ring) \o ps
                    BY <2>1, PushIs
                <5>3. QED BY <1>1, <5>1, <5>2, ConcatProperties
            <4>3. Lookahead(ring) \in 1..Lookahead(ring)
                BY <1>1, <2>1, <3>2
            <4>4. QED BY <1>1, <2>1, <4>1, <4>2, <4>3 DEF OneBlock
        <3>3. QED BY <2>1, <3>1, <3>2 DEF Pace
    <2>6. QED BY <1>1, <2>2, <2>3, <2>4, <2>5 DEF IInv
<1>10. QED BY <1>8, <1>9

(* A push that does not fit keeps it: the buffer has only grown. *)
LEMMA PushFailsKeeps ==
    ASSUME IInv, NEW n, PushFails(n)
    PROVE  IInv'
<1>1. Ordered(ring, Packet) /\ Blocks /\ Pace /\ Phase /\ TypeOK
    BY DEF IInv
<1>2. ring' = WithRoom(ring, n) /\ UNCHANGED <<state, pc, elapsed, sent>>
    BY DEF PushFails
<1>3. Kept(ring', ring, Packet)
    BY <1>1, <1>2, WithRoomKeeps
<1>4. Ahead(ring') = Ahead(ring)
    BY <1>1, <1>3, AheadSame DEF Kept
<1>5. TypeOK'
    BY <1>1, <1>2, <1>3 DEF TypeOK, Kept, Ordered, state
<1>6. Blocks'
    BY <1>1, <1>2, <1>4 DEF Blocks, Held, SomeIfPaced, state
<1>7. Pace'
    <2>1. Lookahead(ring') = Lookahead(ring) /\ Contents(ring') = Contents(ring)
        BY <1>3 DEF Kept
    <2>2. \A p, cur : OneBlock(ring', p, cur) <=> OneBlock(ring, p, cur)
        BY <2>1 DEF OneBlock
    <2>3. QED BY <1>1, <1>2, <2>1, <2>2 DEF Pace, state
<1>8. Phase'
    BY <1>1, <1>2 DEF Phase, state
<1>9. QED BY <1>3, <1>5, <1>6, <1>7, <1>8 DEF IInv, Kept

(* Sending inside a block keeps it: the level does not change. *)
LEMMA SendNextKeeps ==
    ASSUME IInv, SendNext
    PROVE  IInv'
<1> DEFINE l == Lookahead(ring)
           f == Filled(ring)
           c == Contents(ring)
<1>1. Ordered(ring, Packet) /\ Blocks /\ Pace /\ Phase /\ TypeOK
    BY DEF IInv
<1>2. UNCHANGED <<state, pc, elapsed>>
    BY DEF SendNext
<1>3. /\ l >= 1 /\ ring' = Drop(ring, 1) /\ sent' \in Packet /\ paced
    BY SendNextIs
<1>4. /\ Ordered(ring', Packet)
      /\ Filled(ring') = f - 1
      /\ Lookahead(ring') = l - 1
      /\ \A i \in 1..(f - 1) : Contents(ring')[i] = c[i + 1]
    BY <1>1, <1>3, SendsHead
<1>5. l \in Nat /\ f \in Nat /\ l <= f
    BY <1>1, Levels DEF Ordered
<1>6. /\ Ahead(ring) = [i \in 1..(f - l) |-> c[i + l]]
      /\ Ahead(ring') = [i \in 1..(Filled(ring') - Lookahead(ring')) |->
                             Contents(ring')[i + Lookahead(ring')]]
    BY <1>1, <1>4, AheadIs
<1>7. Ahead(ring') = Ahead(ring)
    <2>1. Filled(ring') - Lookahead(ring') = f - l
        BY <1>4, <1>5
    <2>2. ASSUME NEW i \in 1..(f - l)
          PROVE  Contents(ring')[i + Lookahead(ring')] = c[i + l]
        <3>1. /\ i + Lookahead(ring') \in 1..(f - 1)
              /\ i + Lookahead(ring') + 1 = i + l
            BY <1>3, <1>4, <1>5
        <3>2. QED BY <1>4, <3>1
    <2> HIDE DEF l, f, c
    <2>3. QED BY <1>6, <2>1, <2>2
<1>8. TypeOK'
    BY <1>1, <1>2, <1>3, <1>4 DEF TypeOK, Ordered, state
<1>9. Blocks'
    BY <1>1, <1>2, <1>7 DEF Blocks, Held, SomeIfPaced, state
<1>10. Phase'
    BY <1>1, <1>2 DEF Phase, state
<1>11. Pace'
    <2>1. paced' /\ pcr_pid' = pcr_pid /\ pcr_cur' = pcr_cur
        BY <1>2, <1>3 DEF state
    <2>2. ASSUME Lookahead(ring') > 0
          PROVE  OneBlock(ring', pcr_pid, pcr_cur)
        <3>1. OneBlock(ring, pcr_pid, pcr_cur)
            BY <1>1, <1>3, <1>5 DEF Pace
        <3>2. /\ HasPcr(c[l]) /\ c[l].pid = pcr_pid /\ c[l].pcr = pcr_cur
              /\ \A k \in 1..l : HasPcr(c[k]) /\ c[k].pid = pcr_pid => k \in {1, l}
            BY <3>1, Zenon DEF OneBlock
        <3>3. /\ l - 1 \in 1..(f - 1) /\ l - 1 + 1 = l
              /\ \A k \in 1..(l - 1) : k \in 1..(f - 1) /\ k + 1 \in 1..l /\ k + 1 # 1
            BY <1>3, <1>4, <1>5, <2>2
        <3> HIDE DEF c, l, f
        <3>4. Contents(ring')[l - 1] = c[l]
            BY <1>4, <3>3
        <3>5. ASSUME NEW k \in 1..(l - 1), HasPcr(Contents(ring')[k]),
                     Contents(ring')[k].pid = pcr_pid
              PROVE  k = l - 1
            <4>1. Contents(ring')[k] = c[k + 1]
                BY <1>4, <3>3
            <4>2. k + 1 \in {1, l}
                BY <3>2, <3>3, <3>5, <4>1
            <4>3. QED BY <1>5, <3>3, <4>2
        <3>6. QED BY <1>4, <3>2, <3>4, <3>5 DEF OneBlock
    <2>3. QED BY <2>1, <2>2 DEF Pace
<1>12. QED BY <1>4, <1>8, <1>9, <1>10, <1>11 DEF IInv

(* Finding the next block keeps it: the level is counted anew, up to       *)
(* enough_blocks, from what is ahead of the new lookahead.                 *)
LEMMA SeekAndSendKeeps ==
    ASSUME IInv, SeekAndSend
    PROVE  IInv'
<1> DEFINE i == Min(Found)
           d == DroppedBefore(i)
           r == AtBlock
           f == Filled(ring)
           c == Contents(ring)
<1>1. /\ Ordered(ring, Packet) /\ Phase /\ TypeOK
      /\ ring.send = ring.pcr /\ Found # {} /\ pc = "dequeue"
    BY DEF IInv, SeekAndSend
<1>2. /\ paced' = TRUE /\ pcr_pid' = SeekPid
      /\ UNCHANGED <<last_run, last_error, buffered, pc, elapsed>>
    BY DEF SeekAndSend
<1>3. /\ Ordered(r, Packet)
      /\ num_blocks' = BlockCount(r, SeekPid)
      /\ pcr_cur' = c[i].pcr
    BY SeekAndSendIs
<1>4. PICK q : /\ Kept(q, r, Packet)
               /\ Lookahead(q) >= 1
               /\ sent' = q.buf[q.send]
               /\ ring' = Drop(q, 1)
    BY SeekAndSendIs
<1>5. /\ i \in Candidates /\ i \in 1..f /\ HasPcr(c[i])
      /\ c[i].pid = SeekPid /\ SeekPid \in Pid /\ c[i].pcr \in 0..(PcrRange - 1)
    BY <1>1, FoundIs
<1>6. f \in Nat
    BY <1>1, Levels DEF Ordered
<1>7. i \in 1..(f + 1) /\ i \in 0..f
    BY <1>5, <1>6
<1>8. /\ Candidates \subseteq 1..f
      /\ Candidates = PcrsOf(SeekPid, c)
      /\ d \in 0..(i - 1)
      /\ \A k \in Candidates : k < i => k <= d + 1
    BY <1>1, <1>7, Dropped DEF Candidates
<1>9. d \in 0..i /\ d \in Nat /\ i \in Nat /\ d < i /\ i <= f
    BY <1>5, <1>6, <1>8
<1>10. /\ Filled(r) = f - d /\ Lookahead(r) = i - d
       /\ \A k \in 1..(f - d) : Contents(r)[k] = c[k + d]
    BY <1>1, <1>7, <1>9, CutTakes DEF AtBlock
<1> HIDE DEF i, d, r, f, c
<1>11. /\ Ordered(q, Packet) /\ Filled(q) = f - d /\ Lookahead(q) = i - d
       /\ \A k \in 1..(f - d) : Contents(q)[k] = c[k + d]
    BY <1>4, <1>10 DEF Kept
<1>12. /\ Ordered(ring', Packet)
       /\ Filled(ring') = f - d - 1
       /\ Lookahead(ring') = i - d - 1
       /\ \A k \in 1..(f - d - 1) : Contents(ring')[k] = Contents(q)[k + 1]
       /\ sent' \in Packet
    BY <1>4, <1>11, SendsHead
<1>13. \A k \in 1..(f - d - 1) : Contents(ring')[k] = c[k + 1 + d]
    <2>1. \A k \in 1..(f - d - 1) : k + 1 \in 1..(f - d)
        BY <1>6, <1>9
    <2>2. QED BY <1>11, <1>12, <2>1
<1>14. Ahead(ring') = Ahead(r)
    <2>1. /\ Ahead(ring') = [k \in 1..(Filled(ring') - Lookahead(ring')) |->
                                 Contents(ring')[k + Lookahead(ring')]]
          /\ Ahead(r) = [k \in 1..(Filled(r) - Lookahead(r)) |->
                             Contents(r)[k + Lookahead(r)]]
        BY <1>3, <1>12, AheadIs
    <2>2. /\ Filled(ring') - Lookahead(ring') = f - i
          /\ Filled(r) - Lookahead(r) = f - i
        BY <1>6, <1>9, <1>10, <1>12
    <2>3. ASSUME NEW k \in 1..(f - i)
          PROVE  Contents(ring')[k + Lookahead(ring')]
                     = Contents(r)[k + Lookahead(r)]
        <3>1. /\ k + Lookahead(ring') \in 1..(f - d - 1)
              /\ k + Lookahead(r) \in 1..(f - d)
              /\ k + Lookahead(ring') + 1 + d = k + Lookahead(r) + d
            BY <1>6, <1>9, <1>10, <1>12
        <3>2. Contents(ring')[k + Lookahead(ring')]
                  = c[k + Lookahead(ring') + 1 + d]
            BY <1>13, <3>1
        <3>3. Contents(r)[k + Lookahead(r)] = c[k + Lookahead(r) + d]
            BY <1>10, <3>1
        <3>4. QED BY <3>1, <3>2, <3>3
    <2>4. QED BY <2>1, <2>2, <2>3
<1>15. /\ num_blocks' \in Nat
       /\ num_blocks' <= Cardinality(PcrsOf(SeekPid, Ahead(ring'))) + 1
    <2> DEFINE n == Cardinality(PcrsOf(SeekPid, Ahead(r)))
               S == {Enough, 1 + n}
    <2>1. n \in Nat
        BY <1>3, AheadSeq, PcrsAre
    <2>2. num_blocks' = Min(S)
        BY <1>3 DEF BlockCount
    <2>3. n = Cardinality(PcrsOf(SeekPid, Ahead(ring')))
        BY <1>14
    <2> HIDE DEF n
    <2>4. S \in SUBSET Nat /\ S # {}
        BY <2>1, SyncAssumption
    <2>5. Min(S) \in S /\ \A y \in S : Min(S) <= y
        BY <2>4, MinIs
    <2>6. QED BY <2>1, <2>2, <2>3, <2>4, <2>5
<1>16. Blocks'
    BY <1>2, <1>5, <1>15 DEF Blocks, Held, SomeIfPaced
<1>17. TypeOK'
    BY <1>1, <1>2, <1>3, <1>5, <1>12, <1>15 DEF TypeOK, Ordered
<1>18. Phase'
    BY <1>1, <1>2 DEF Phase
<1>19. Pace'
    <2>1. ASSUME Lookahead(ring') > 0
          PROVE  OneBlock(ring', SeekPid, c[i].pcr)
        <3>1. /\ Lookahead(ring') \in 1..(f - d - 1)
              /\ Lookahead(ring') + 1 + d = i
            BY <1>6, <1>9, <1>12, <2>1
        <3>2. Contents(ring')[Lookahead(ring')] = c[i]
            BY <1>13, <3>1
        <3>3. ASSUME NEW k \in 1..Lookahead(ring'),
                     HasPcr(Contents(ring')[k]), Contents(ring')[k].pid = SeekPid
              PROVE  k = Lookahead(ring')
            <4>1. k \in 1..(f - d - 1) /\ k + 1 + d \in 1..f /\ k + 1 + d <= i
                BY <1>6, <1>9, <3>1
            <4>2. Contents(ring')[k] = c[k + 1 + d]
                BY <1>13, <4>1
            <4>3. k + 1 + d \in Candidates
                <5>1. DOMAIN c = 1..f
                    BY <1>1, ContentsSeq DEF c, f
                <5>2. QED BY <1>8, <3>3, <4>1, <4>2, <5>1 DEF PcrsOf
            <4>4. k + 1 + d < i => k + 1 + d <= d + 1
                BY <1>8, <4>3
            <4>5. QED BY <1>9, <3>1, <4>1, <4>4
        <3>4. QED BY <1>5, <3>2, <3>3 DEF OneBlock
    <2>2. QED BY <1>2, <1>3, <2>1 DEF Pace
<1>20. QED BY <1>12, <1>16, <1>17, <1>18, <1>19 DEF IInv

(* Finding no next block keeps it. *)
LEMMA SeekFailsKeeps ==
    ASSUME IInv, SeekFails
    PROVE  IInv'
<1>1. TypeOK
    BY DEF IInv
<1>2. Ordered(ring', Packet) /\ Lookahead(ring') = 0
    BY SeekFailsIs
<1>3. /\ last_error' = FALSE /\ num_blocks' = 0 /\ buffered' = FALSE
      /\ pcr_cur' = NoTime /\ pcr_pid' = NoPid /\ paced' = FALSE
      /\ pc' = "idle" /\ UNCHANGED <<last_run, elapsed, sent>>
    BY DEF SeekFails, ResetBlocks, ResetPcr
<1>4. TypeOK'
    BY <1>1, <1>2, <1>3 DEF TypeOK, Ordered
<1>5. Held(ring', NoPid, 0, 0)
    BY <1>2, HeldNone
<1>6. Blocks' /\ Pace' /\ Phase'
    BY <1>2, <1>3, <1>5 DEF Blocks, Pace, Phase, SomeIfPaced
<1>7. QED BY <1>2, <1>4, <1>6 DEF IInv

(* a push is a sequence of packets *)
LEMMA PushesAre ==
    Pushes \subseteq Seq(Packet)
BY SyncAssumption DEF Pushes

(* The invariant holds at the start. *)
LEMMA InitGives ==
    Init => IInv
<1> SUFFICES ASSUME Init PROVE IInv
    OBVIOUS
<1>1. Emptied(ring, Packet)
    BY StartsEmpty DEF Init
<1>2. Ordered(ring, Packet) /\ Lookahead(ring) = 0
    BY <1>1 DEF Emptied
<1>3. TypeOK
    BY <1>2 DEF Init, TypeOK, Ordered
<1>4. Held(ring, NoPid, 0, 0)
    BY <1>2, HeldNone
<1>5. Blocks /\ Pace /\ Phase
    BY <1>2, <1>4 DEF Init, Blocks, Pace, Phase, SomeIfPaced
<1>6. QED BY <1>2, <1>3, <1>5 DEF IInv

(* Every step keeps it. *)
LEMMA StepKeeps ==
    IInv /\ [Next]_vars => IInv'
<1> SUFFICES ASSUME IInv, [Next]_vars PROVE IInv'
    OBVIOUS
<1>1. CASE Reset
    BY <1>1, ResetKeeps
<1>2. ASSUME NEW ps \in Pushes, Push(ps) PROVE IInv'
    BY <1>2, PushesAre, PushKeeps
<1>3. ASSUME NEW n \in 1..MaxSize, PushFails(n) PROVE IInv'
    BY <1>3, PushFailsKeeps
<1>4. CASE LoopBegin
    BY <1>4, LoopBeginKeeps
<1>5. CASE OnReady \/ LoopReturn \/ LevelOk \/ LoopEnd
    BY <1>5, DecisionsKeep
<1>6. CASE Underflow
    BY <1>6, UnderflowKeeps
<1>7. CASE SendNext
    BY <1>7, SendNextKeeps
<1>8. CASE SeekAndSend
    BY <1>8, SeekAndSendKeeps
<1>9. CASE SeekFails
    BY <1>9, SeekFailsKeeps
<1>10. CASE UNCHANGED vars
    <2>1. UNCHANGED <<ring, pcr_pid, num_blocks, pcr_cur, paced, buffered, sent>>
          /\ UNCHANGED <<last_run, last_error, elapsed, pc>>
        BY <1>10 DEF vars, state
    <2>2. /\ last_run \in BOOLEAN /\ last_error \in BOOLEAN /\ elapsed \in BOOLEAN
          /\ pc \in {"idle", "ready", "check", "dequeue"}
          /\ pc = "dequeue" => buffered
        BY DEF IInv, TypeOK, Phase
    <2>3. QED BY <2>1, <2>2, DecidingKeeps
<1>11. QED
    BY <1>1, <1>2, <1>3, <1>4, <1>5, <1>6, <1>7, <1>8, <1>9, <1>10 DEF Next

(* IInv holds in every reachable state, whatever the sizes, the pids and   *)
(* the packets that are pushed.                                            *)
THEOREM Invariance == Spec => []IInv
BY InitGives, StepKeeps, PTL DEF Spec

(* Every position is inside the buffer, and every variable has its type,   *)
(* whatever the sizes.                                                     *)
THEOREM TypesOK == Spec => []TypeOK
<1>1. IInv => TypeOK
    BY DEF IInv
<1>2. QED BY <1>1, Invariance, PTL

(* The level that decides between sending and waiting never promises more  *)
(* blocks than the buffer holds ahead of the lookahead.                    *)
THEOREM LevelIsHeld == Spec => []BlocksHeld
BY IInvGives, Invariance, PTL

(* What is sent at one pace is one block, up to the PCR that the pace was  *)
(* computed from.                                                          *)
THEOREM BlocksAreWhole == Spec => []OneBlockPerPace
BY IInvGives, Invariance, PTL

-----------------------------------------------------------------------------
(* The buffer implements the queue                                         *)

(* what a cut leaves is the queue, without packets that cannot be timed *)
LEMMA CutTrims ==
    ASSUME NEW r, Ordered(r, Packet),
           NEW l \in 0..Filled(r), NEW d \in 0..l,
           d # 0 => /\ d + 1 \in 1..Filled(r)
                    /\ HasPcr(Contents(r)[d + 1])
    PROVE  Contents(Cut(r, d, l)) \in Queue!Trimmed(Contents(r))
<1>1. /\ Contents(r) \in Seq(Packet) /\ Len(Contents(r)) = Filled(r)
      /\ Filled(r) \in Nat /\ d \in Nat
    BY ContentsSeq, Levels DEF Ordered
<1>2. Contents(Cut(r, d, l)) = SubSeq(Contents(r), d + 1, Filled(r))
    BY CutLeaves
<1>3. CASE d = 0
    <2>1. SubSeq(Contents(r), 1, Len(Contents(r))) = Contents(r)
        BY <1>1, SubSeqFull
    <2>2. Contents(Cut(r, d, l)) = Contents(r)
        BY <1>1, <1>2, <1>3, <2>1
    <2>3. QED BY <2>2 DEF Queue!Trimmed
<1>4. CASE d # 0
    <2>1. /\ d + 1 \in {k \in 1..Len(Contents(r)) : HasPcr(Contents(r)[k])}
          /\ Contents(Cut(r, d, l))
                = SubSeq(Contents(r), d + 1, Len(Contents(r)))
        BY <1>1, <1>2, <1>4
    <2>2. QED BY <2>1, Zenon DEF Queue!Trimmed
<1>5. QED BY <1>3, <1>4

(* a full reset is a Clear *)
LEMMA FreshClears ==
    ASSUME Fresh'
    PROVE  Queue!Clear
BY DEF Fresh, Emptied, Queue!Clear

(* a push is a Push *)
LEMMA PushPushes ==
    ASSUME IInv, NEW ps \in Seq(Packet), Push(ps)
    PROVE  Queue!Push
<1>1. /\ Ordered(ring, Packet) /\ Ordered(ring', Packet)
      /\ Contents(ring') = Contents(ring) \o ps
    BY PushIs DEF IInv
<1>2. /\ Contents(ring) \in Seq(Packet)
      /\ Contents(ring') \in Seq(Packet)
      /\ Len(Contents(ring')) = Filled(ring')
    BY <1>1, ContentsSeq
<1>3. Len(Contents(ring')) <= MaxSize - 1
    <2>1. /\ Filled(ring') \in 0..(ring'.size - 1)
          /\ ring'.size \in MinSize..MaxSize /\ MinSize \in Nat /\ MaxSize \in Nat
        BY <1>1, Levels, RingFields, RingAssumption DEF Ordered
    <2>2. QED BY <1>2, <2>1
<1>4. Queue!IsPrefix(Contents(ring), Contents(ring'))
    <2> DEFINE s == Contents(ring)
               u == s \o ps
    <2>1. /\ s \in Seq(Packet) /\ Len(s) \in Nat
          /\ u \in Seq(Packet) /\ Len(u) = Len(s) + Len(ps) /\ Len(ps) \in Nat
        BY <1>2, ConcatProperties
    <2>2. SubSeq(u, 1, Len(s)) = SubSeq(s, 1, Len(s))
        <3>1. CASE Len(s) = 0
            <4>1. SubSeq(u, 1, 0) = <<>> /\ SubSeq(s, 1, 0) = <<>>
                BY SubSeqEmpty
            <4>2. QED BY <3>1, <4>1
        <3>2. CASE Len(s) # 0
            <4>1. 1 \in 1..Len(s) /\ Len(s) \in 1..Len(s)
                BY <2>1, <3>2
            <4>2. QED BY <1>2, <4>1, SubSeqOfConcat1
        <3>3. QED BY <3>1, <3>2
    <2>3. Len(s) <= Len(u)
        BY <2>1
    <2>4. QED BY <1>1, <2>2, <2>3 DEF Queue!IsPrefix
<1>5. sent' = sent
    BY DEF Push
<1>6. QED BY <1>3, <1>4, <1>5 DEF Queue!Push

(* sending from a buffer that is the queue, trimmed, is a Deliver *)
LEMMA SendDelivers ==
    ASSUME NEW q, Ordered(q, Packet), Lookahead(q) >= 1,
           Contents(q) \in Queue!Trimmed(Contents(ring)),
           sent' = q.buf[q.send], ring' = Drop(q, 1)
    PROVE  Queue!Deliver
<1>1. /\ Contents(q) # <<>>
      /\ sent' = Head(Contents(q))
      /\ Contents(ring') = Tail(Contents(q))
    BY SendsHead
<1>2. QED BY <1>1, Zenon DEF Queue!Deliver

(* Sending inside a block delivers the head of the queue. *)
LEMMA SendNextDelivers ==
    ASSUME IInv, SendNext
    PROVE  Queue!Deliver
<1>1. Ordered(ring, Packet)
    BY DEF IInv
<1>2. Lookahead(ring) >= 1 /\ ring' = Drop(ring, 1)
    BY SendNextIs
<1>3. sent' = ring.buf[ring.send]
    BY DEF SendNext, Send
<1>4. Contents(ring) \in Queue!Trimmed(Contents(ring))
    BY DEF Queue!Trimmed
<1>5. QED BY <1>1, <1>2, <1>3, <1>4, SendDelivers

(* Finding a block drops what is before it and delivers its first packet,  *)
(* whether the buffer is made smaller or not.                              *)
LEMMA SeekAndSendDelivers ==
    ASSUME IInv, SeekAndSend
    PROVE  Queue!Deliver
<1> DEFINE i == Min(Found)
           d == DroppedBefore(i)
<1>1. /\ Ordered(ring, Packet) /\ ring.send = ring.pcr /\ Found # {}
    BY DEF IInv, SeekAndSend
<1>2. i \in 1..Filled(ring) /\ Filled(ring) \in Nat
    BY <1>1, FoundIs, Levels DEF Ordered
<1>3. i \in 1..(Filled(ring) + 1) /\ i \in 0..Filled(ring) /\ i \in Nat
    BY <1>2
<1>4. /\ d \in 0..(i - 1)
      /\ d # 0 => /\ d + 1 \in 1..Filled(ring)
                  /\ HasPcr(Contents(ring)[d + 1])
    BY <1>1, <1>3, Dropped
<1>5. d \in 0..i
    BY <1>3, <1>4
<1>6. Contents(AtBlock) \in Queue!Trimmed(Contents(ring))
    BY <1>1, <1>3, <1>4, <1>5, CutTrims DEF AtBlock
<1>7. PICK q : /\ Kept(q, AtBlock, Packet)
               /\ Lookahead(q) >= 1
               /\ sent' = q.buf[q.send]
               /\ ring' = Drop(q, 1)
    BY SeekAndSendIs
<1>8. Ordered(q, Packet) /\ Contents(q) \in Queue!Trimmed(Contents(ring))
    BY <1>6, <1>7 DEF Kept
<1>9. QED BY <1>7, <1>8, SendDelivers

(* Finding none drops what cannot be timed, and delivers nothing. *)
LEMMA SeekFailsTrims ==
    ASSUME IInv, SeekFails
    PROVE  Queue!Trim
<1>1. Ordered(ring, Packet)
    BY DEF IInv
<1>2. /\ Rest \in 0..Filled(ring) /\ Rest \in 0..Rest
      /\ Rest # 0 => /\ Rest + 1 \in 1..Filled(ring)
                     /\ HasPcr(Contents(ring)[Rest + 1])
      /\ ring' = Cut(ring, Rest, Rest)
    BY SeekFailsIs
<1>3. Contents(ring') \in Queue!Trimmed(Contents(ring))
    BY <1>1, <1>2, CutTrims
<1>4. sent' = sent
    BY DEF SeekFails
<1>5. QED BY <1>3, <1>4 DEF Queue!Trim

(* Every step of the buffer is a step of the queue, or none.               *)
LEMMA StepMaps ==
    IInv /\ [Next]_vars => [Queue!Next]_<<Contents(ring), sent>>
<1> SUFFICES ASSUME IInv, [Next]_vars
             PROVE  Queue!Next \/ UNCHANGED <<Contents(ring), sent>>
    OBVIOUS
<1>1. CASE Reset
    <2>1. Fresh'
        BY <1>1, ResetAllIs DEF Reset
    <2>2. QED BY <2>1, FreshClears DEF Queue!Next
<1>2. ASSUME NEW ps \in Pushes, Push(ps) PROVE Queue!Next
    BY <1>2, PushesAre, PushPushes DEF Queue!Next
<1>3. ASSUME NEW n \in 1..MaxSize, PushFails(n)
      PROVE  UNCHANGED <<Contents(ring), sent>>
    <2>1. ring' = WithRoom(ring, n) /\ sent' = sent
        BY <1>3 DEF PushFails
    <2>2. Contents(ring') = Contents(ring)
        BY <2>1, WithRoomKeeps DEF IInv, Kept
    <2>3. QED BY <2>1, <2>2
<1>4. CASE LoopBegin
    <2>1. CASE ring' = ring /\ sent' = sent
        BY <2>1
    <2>2. CASE ResetAll
        <3>1. Fresh'
            BY <2>2, ResetAllIs
        <3>2. QED BY <3>1, FreshClears DEF Queue!Next
    <2>3. QED BY <1>4, <2>1, <2>2 DEF LoopBegin
<1>5. CASE OnReady \/ LoopReturn \/ LevelOk \/ LoopEnd
    BY <1>5 DEF OnReady, LoopReturn, LevelOk, LoopEnd
<1>6. CASE Underflow
    <2>1. CASE ring' = ring /\ sent' = sent
        BY <2>1
    <2>2. CASE ResetAll
        <3>1. Fresh'
            BY <2>2, ResetAllIs
        <3>2. QED BY <3>1, FreshClears DEF Queue!Next
    <2>3. QED BY <1>6, <2>1, <2>2 DEF Underflow
<1>7. CASE SendNext
    BY <1>7, SendNextDelivers DEF Queue!Next
<1>8. CASE SeekAndSend
    BY <1>8, SeekAndSendDelivers DEF Queue!Next
<1>9. CASE SeekFails
    BY <1>9, SeekFailsTrims DEF Queue!Next
<1>10. CASE UNCHANGED vars
    BY <1>10 DEF vars
<1>11. QED
    BY <1>1, <1>2, <1>3, <1>4, <1>5, <1>6, <1>7, <1>8, <1>9, <1>10 DEF Next

(* The buffer is a queue: packets come out in order, once and unchanged,   *)
(* and are lost only where PacketQueue says so, through every wrap-around, *)
(* growth, shrinking, seek and reset.                                      *)
THEOREM ImplementsQueue == Spec => QueueSpec
<1>1. Init => Queue!Init
    <2>1. Init => Emptied(ring, Packet) /\ sent = NoTime
        BY StartsEmpty DEF Init
    <2>2. QED BY <2>1 DEF Emptied, Queue!Init
<1>2. QED BY <1>1, StepMaps, Invariance, PTL DEF Spec, QueueSpec, Queue!Spec
=============================================================================
