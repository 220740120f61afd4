-------------------------- MODULE Descrambler_proofs --------------------------
(***************************************************************************)
(* Proofs about Descrambler: for any number of periods, any sizes of batch *)
(* and storage, and any addresses.                                         *)
(***************************************************************************)
EXTENDS Descrambler, FiniteSetTheorems, SequenceTheorems, TLAPS

(* A packet in the batch is of the batch's parity; if it came in time, the *)
(* word in use is its own, and nothing has opened it yet.                  *)
Waits(c, p) ==
    /\ p.n \in Period /\ p.n % 2 = c.parity
    /\ p.in_time => c.key[c.parity] = p.n /\ p.words = <<>>

(* a packet that came in time has been opened with its word, or not at all *)
Right(p) == p.in_time => p.words \in {<<>>, <<p.n>>}

(* what holds of ca, storage and dsc_count between any two steps of on_ts: *)
(* the batch names the first packet that may not be sent, which may be the *)
(* last that was, and packets behind it                                    *)
Sound(st) ==
    /\ st = State(st.ca, st.storage, st.dsc_count)
    /\ st.ca \in CaStream
    /\ st.storage \in Seq(Packets)
    /\ Len(st.storage) <= StorageSize
    /\ st.dsc_count \in 0..Len(st.storage)
    /\ st.ca.batch \subseteq st.dsc_count..Len(st.storage)
    /\ st.ca.batch # {} => st.ca.parity \in {0, 1}
    /\ \A j \in st.ca.batch : j >= 1 => Waits(st.ca, st.storage[j])
    /\ \A i \in 1..Len(st.storage) :
          /\ Right(st.storage[i])
          /\ i - StorageSize \in st.ca.batch => ~st.storage[i].in_time

(* there is room for one packet *)
Roomy(st) ==
    /\ Len(st.storage) < StorageSize
    /\ Cardinality(st.ca.batch) < BatchSize

Current == State(ca, storage, dsc_count)

Flags ==
    /\ is_ready \in BOOLEAN /\ pat \in BOOLEAN /\ cas \in BOOLEAN
    /\ pmt \in {"none", "wait", "read"} /\ overtaken \in BOOLEAN

Stream ==
    /\ period \in Period
    /\ asked \in Seq(Ecms)
    /\ ecm \in {period, period + 1} \cap Period

Held ==
    /\ storage \in Seq(Packets)
    /\ Len(storage) < StorageSize
    /\ dsc_count \in 0..Len(storage)
    /\ \A i \in 1..Len(storage) : Right(storage[i])
    /\ ca = NoCa \/ (Sound(Current) /\ Roomy(Current))

(* Without a ca_stream, what is left in the storage waits for the cam to   *)
(* come back, which throws it away.                                        *)
Lost ==
    overtaken \/ (ca = NoCa /\ storage # <<>>) => ca = NoCa /\ ~is_ready /\ ~cas

(* the inductive invariant *)
IInv == Flags /\ Stream /\ Held /\ Lost

-----------------------------------------------------------------------------
(* Values                                                                  *)

(* A ca_stream is not the lack of one. *)
LEMMA CaIsSet ==
    ASSUME NEW c \in CaStream
    PROVE  c # NoCa
<1>1. DOMAIN c = {"at", "ecm_type", "parity", "key", "new_key", "new_key_id", "batch"}
    BY DEF CaStream
<1>2. DOMAIN NoCa = {"at"}
    BY DEF NoCa
<1>3. QED BY <1>1, <1>2

(* the fields of a ca_stream *)
LEMMA CaFields ==
    ASSUME NEW c \in CaStream
    PROVE  /\ c.at \in Address
           /\ c.ecm_type \in {None, 0, 1} /\ c.parity \in {None, 0, 1}
           /\ c.key \in [0..1 -> Words \cup {None}]
           /\ c.new_key \in [0..1 -> Words \cup {None}]
           /\ c.new_key_id \in 0..3
           /\ c.batch \subseteq (1 - StorageSize)..StorageSize
BY DEF CaStream

(* the fields of a packet *)
LEMMA PacketFields ==
    ASSUME NEW p \in Packets
    PROVE  /\ p.n \in Period \cup {Clear}
           /\ p.words \in Seq(Words \cup {None})
           /\ p.in_time \in BOOLEAN
BY DEF Packets

(* the fields of a step *)
LEMMA StateFields ==
    ASSUME NEW c, NEW s, NEW d
    PROVE  /\ State(c, s, d).ca = c
           /\ State(c, s, d).storage = s
           /\ State(c, s, d).dsc_count = d
           /\ State(c, s, d) = State(State(c, s, d).ca, State(c, s, d).storage,
                                     State(c, s, d).dsc_count)
BY DEF State

(* one field of a step is replaced *)
LEMMA StateExcept ==
    ASSUME NEW c, NEW s, NEW d, NEW u
    PROVE  [State(c, s, d) EXCEPT !.storage = u] = State(c, u, d)
BY DEF State

(* A packet can be opened with any word. *)
LEMMA OpenedPacket ==
    ASSUME NEW p \in Packets, NEW w \in Words \cup {None}
    PROVE  LET q == [p EXCEPT !.words = Append(@, w)]
           IN  /\ q \in Packets
               /\ q.n = p.n /\ q.in_time = p.in_time
               /\ q.words = Append(p.words, w)
<1> DEFINE v == Append(p.words, w)
<1>1. v \in Seq(Words \cup {None})
    BY PacketFields
<1> HIDE DEF v
<1>2. [p EXCEPT !.words = v] \in Packets
    BY <1>1 DEF Packets
<1>3. /\ [p EXCEPT !.words = v].n = p.n
      /\ [p EXCEPT !.words = v].in_time = p.in_time
      /\ [p EXCEPT !.words = v].words = v
    BY DEF Packets
<1>4. QED BY <1>2, <1>3 DEF v

-----------------------------------------------------------------------------
(* decrypt                                                                 *)

(* New words are put into use. *)
LEMMA NewKeysAre ==
    ASSUME NEW c \in CaStream
    PROVE  LET e == [WithNewKeys(c) EXCEPT !.batch = {}]
           IN  /\ e \in CaStream
               /\ e.at = c.at /\ e.parity = c.parity /\ e.batch = {}
               /\ \A p \in 0..1 :
                     e.key[p] = IF IsNew(c, p) THEN c.new_key[p] ELSE c.key[p]
<1> DEFINE k == [p \in 0..1 |-> IF IsNew(c, p) THEN c.new_key[p] ELSE c.key[p]]
           f == [c EXCEPT !.key = k, !.new_key_id = 0]
           e == [f EXCEPT !.batch = {}]
<1>1. k \in [0..1 -> Words \cup {None}]
    BY CaFields
<1> HIDE DEF k
<1>2. f \in CaStream /\ f.at = c.at /\ f.parity = c.parity /\ f.key = k
    <2> DEFINE g == [c EXCEPT !.key = k]
    <2>1. /\ g \in CaStream /\ g.at = c.at /\ g.parity = c.parity /\ g.key = k
          /\ f = [g EXCEPT !.new_key_id = 0]
        BY <1>1 DEF CaStream
    <2> HIDE DEF f, g
    <2>2. QED BY <2>1 DEF CaStream
<1>2a. f = [c EXCEPT !.key = k, !.new_key_id = 0]
    OBVIOUS
<1> HIDE DEF f
<1>3. e \in CaStream /\ e.at = c.at /\ e.parity = c.parity /\ e.batch = {} /\ e.key = k
    BY <1>2 DEF CaStream
<1>4. e = [WithNewKeys(c) EXCEPT !.batch = {}]
    BY <1>2a DEF WithNewKeys, k
<1>5. \A p \in 0..1 : k[p] = IF IsNew(c, p) THEN c.new_key[p] ELSE c.key[p]
    BY DEF k
<1> HIDE DEF e
<1>6. QED BY <1>3, <1>4, <1>5

(* What a batch opens: its own packets, and what has come to the slot of   *)
(* one that was sent.                                                      *)
LEMMA OpenedIs ==
    ASSUME NEW st, Sound(st)
    PROVE  LET o == Opened(st.ca, st.storage)
           IN  /\ o \in Seq(Packets) /\ Len(o) = Len(st.storage)
               /\ \A i \in 1..Len(st.storage) :
                     /\ Right(o[i])
                     /\ o[i].n = st.storage[i].n
                     /\ o[i].in_time = st.storage[i].in_time
                     /\ i \notin st.ca.batch /\ st.storage[i].in_time
                            => o[i] = st.storage[i]
<1> DEFINE c == st.ca
           s == st.storage
           w == c.key[c.parity]
           Hit(i) == {i, i - StorageSize} \cap c.batch # {}
           o == [i \in DOMAIN s |-> IF Hit(i)
                     THEN [s[i] EXCEPT !.words = Append(@, w)] ELSE s[i]]
<1>1. /\ c \in CaStream /\ s \in Seq(Packets)
      /\ c.batch # {} => c.parity \in {0, 1}
      /\ \A j \in c.batch : j >= 1 => Waits(c, s[j])
      /\ \A i \in 1..Len(s) :
            /\ Right(s[i])
            /\ i - StorageSize \in c.batch => ~s[i].in_time
    BY DEF Sound
<1>2. o = Opened(c, s)
    BY DEF Opened
<1>3. DOMAIN s = 1..Len(s) /\ Len(s) \in Nat /\ \A i \in 1..Len(s) : s[i] \in Packets
    BY <1>1
<1>4. c.batch # {} => w \in Words \cup {None}
    BY <1>1, CaFields
<1> HIDE DEF c, s, w
<1>5. ASSUME NEW i \in 1..Len(s)
      PROVE  /\ o[i] \in Packets /\ Right(o[i])
             /\ o[i].n = s[i].n /\ o[i].in_time = s[i].in_time
             /\ i \notin c.batch /\ s[i].in_time => o[i] = s[i]
    <2>1. CASE ~Hit(i)
        <3>1. o[i] = s[i]
            BY <1>3, <2>1
        <3>2. QED BY <1>1, <1>3, <3>1
    <2>2. CASE Hit(i)
        <3> DEFINE q == [s[i] EXCEPT !.words = Append(@, w)]
        <3>1. o[i] = q
            BY <1>3, <2>2
        <3>2. c.batch # {} /\ (i \in c.batch \/ i - StorageSize \in c.batch)
            BY <2>2
        <3>3. /\ q \in Packets /\ q.n = s[i].n /\ q.in_time = s[i].in_time
              /\ q.words = Append(s[i].words, w)
            BY <1>3, <1>4, <3>2, OpenedPacket
        <3> HIDE DEF q
        <3>4. CASE i - StorageSize \in c.batch
            <4>1. ~q.in_time
                BY <1>1, <3>3, <3>4
            <4>2. QED BY <3>1, <3>3, <4>1 DEF Right
        <3>5. CASE i \in c.batch
            <4>1. s[i].in_time => w = s[i].n /\ s[i].words = <<>>
                BY <1>1, <3>5 DEF Waits, w
            <4>2. s[i].in_time => q.words = <<s[i].n>>
                <5>1. Append(<<>>, w) = <<w>>
                    OBVIOUS
                <5>2. QED BY <3>3, <4>1, <5>1, Zenon
            <4>3. QED BY <3>1, <3>3, <3>5, <4>2 DEF Right
        <3>6. QED BY <3>2, <3>4, <3>5
    <2>3. QED BY <2>1, <2>2
<1>6. o \in [1..Len(s) -> Packets]
    BY <1>3, <1>5
<1> HIDE DEF o
<1>7. o \in Seq(Packets) /\ Len(o) = Len(s)
    BY <1>3, <1>6
<1>8. QED BY <1>2, <1>5, <1>7 DEF c, s

(* After it everything in the storage may be sent, and no packet waits.    *)
LEMMA DecryptedIs ==
    ASSUME NEW st, Sound(st)
    PROVE  LET e == Decrypted(st)
           IN  /\ Sound(e)
               /\ Len(e.storage) = Len(st.storage) /\ e.dsc_count = Len(e.storage)
               /\ e.ca.batch = {} /\ e.ca.parity = st.ca.parity
               /\ \A p \in 0..1 :
                     e.ca.key[p] = IF IsNew(st.ca, p) THEN st.ca.new_key[p]
                                                      ELSE st.ca.key[p]
               /\ \A i \in 1..Len(st.storage) :
                     /\ e.storage[i].n = st.storage[i].n
                     /\ e.storage[i].in_time = st.storage[i].in_time
                     /\ i \notin st.ca.batch /\ st.storage[i].in_time
                            => e.storage[i] = st.storage[i]
<1> DEFINE c == [WithNewKeys(st.ca) EXCEPT !.batch = {}]
           o == Opened(st.ca, st.storage)
           e == State(c, o, Len(st.storage))
<1>1. e = Decrypted(st)
    BY DEF Decrypted
<1>2. /\ c \in CaStream /\ c.parity = st.ca.parity /\ c.batch = {}
      /\ \A p \in 0..1 :
            c.key[p] = IF IsNew(st.ca, p) THEN st.ca.new_key[p] ELSE st.ca.key[p]
    BY NewKeysAre DEF Sound
<1>3. /\ o \in Seq(Packets) /\ Len(o) = Len(st.storage)
      /\ \A i \in 1..Len(st.storage) :
            /\ Right(o[i])
            /\ o[i].n = st.storage[i].n /\ o[i].in_time = st.storage[i].in_time
            /\ i \notin st.ca.batch /\ st.storage[i].in_time => o[i] = st.storage[i]
    BY OpenedIs
<1> HIDE DEF c, o
<1>4. /\ e.ca = c /\ e.storage = o /\ e.dsc_count = Len(st.storage)
      /\ e = State(e.ca, e.storage, e.dsc_count)
    BY StateFields
<1> HIDE DEF e
<1>5. Len(o) \in Nat /\ Len(o) <= StorageSize
    BY <1>3 DEF Sound
<1>6. Sound(e)
    BY <1>2, <1>3, <1>4, <1>5 DEF Sound
<1>7. QED BY <1>1, <1>2, <1>3, <1>4, <1>6

-----------------------------------------------------------------------------
(* on_ts                                                                   *)

(* A packet arrives behind the others, and is in no batch yet. *)
LEMMA StoredIs ==
    ASSUME NEW st, Sound(st), Roomy(st), NEW n \in Period \cup {Clear}
    PROVE  LET e == Stored(st, n)
               l == Len(st.storage) + 1
           IN  /\ Sound(e) /\ e.ca = st.ca /\ e.dsc_count = st.dsc_count
               /\ Len(e.storage) = l /\ l \in Nat /\ l \notin e.ca.batch
               /\ e.storage[l] \in Packets /\ e.storage[l].n = n
               /\ e.storage[l].words = <<>>
               /\ e.storage[l].in_time => InTime(st.ca, n)
<1> DEFINE p == [n |-> n, words |-> <<>>, in_time |-> InTime(st.ca, n) /\ OwnSlot(st)]
           c == st.ca
           s == st.storage
           d == st.dsc_count
           u == Append(s, p)
           e == State(c, u, d)
           l == Len(s) + 1
<1>1. /\ st = State(c, s, d) /\ c \in CaStream /\ s \in Seq(Packets)
      /\ d \in 0..Len(s) /\ c.batch \subseteq d..Len(s)
      /\ c.batch # {} => c.parity \in {0, 1}
      /\ \A j \in c.batch : j >= 1 => Waits(c, s[j])
      /\ \A i \in 1..Len(s) :
            /\ Right(s[i])
            /\ i - StorageSize \in c.batch => ~s[i].in_time
      /\ Len(s) \in Nat /\ l <= StorageSize
    <2>1. Len(s) < StorageSize /\ Len(s) \in Nat
        BY DEF Sound, Roomy
    <2>2. l <= StorageSize
        BY <2>1, DescramblerAssumption
    <2>3. QED BY <2>1, <2>2 DEF Sound
<1>2. Stored(st, n) = [st EXCEPT !.storage = u]
    BY DEF Stored
<1>3. Stored(st, n) = e
    <2> HIDE DEF c, s, d, u
    <2>1. [State(c, s, d) EXCEPT !.storage = u] = State(c, u, d)
        BY StateExcept
    <2>2. QED BY <1>1, <1>2, <2>1
<1>4. /\ p \in Packets /\ p.n = n /\ p.words = <<>>
      /\ p.in_time = (InTime(c, n) /\ OwnSlot(st))
    <2>1. (InTime(c, n) /\ OwnSlot(st)) \in BOOLEAN
        BY Zenon DEF InTime, OwnSlot
    <2>2. <<>> \in Seq(Words \cup {None})
        OBVIOUS
    <2>3. QED BY <2>1, <2>2, Zenon DEF Packets
<1>5. p.in_time => InTime(c, n) /\ l - StorageSize \notin c.batch
    <2>1. OwnSlot(st) <=> l - StorageSize \notin c.batch
        <3>1. Len(s) + 1 - StorageSize = l - StorageSize
            BY <1>1, DescramblerAssumption
        <3>2. OwnSlot(st) <=> Len(s) + 1 - StorageSize \notin c.batch
            BY Zenon DEF OwnSlot
        <3>3. QED BY <3>1, <3>2
    <2> HIDE DEF p, l, c
    <2>2. QED BY <1>4, <2>1, Zenon
<1> HIDE DEF p
<1>6. /\ u \in Seq(Packets) /\ Len(u) = l /\ u[l] = p
      /\ \A i \in 1..Len(s) : u[i] = s[i]
    BY <1>1, <1>4
<1> HIDE DEF u, c, s, d
<1>7. /\ e.ca = c /\ e.storage = u /\ e.dsc_count = d
      /\ e = State(e.ca, e.storage, e.dsc_count)
    BY StateFields
<1> HIDE DEF e
<1>8. /\ l \in Nat /\ l \notin c.batch /\ c.batch \subseteq d..l
      /\ d \in 0..l
      /\ \A j \in c.batch : j >= 1 => j \in 1..Len(s)
    BY <1>1
<1>9. \A j \in c.batch : j >= 1 => Waits(c, u[j])
    BY <1>1, <1>6, <1>8
<1>10. Right(p)
    BY <1>4 DEF Right
<1>11. ASSUME NEW i \in 1..l
       PROVE  Right(u[i]) /\ (i - StorageSize \in c.batch => ~u[i].in_time)
    <2>1. CASE i = l
        BY <1>5, <1>6, <1>10, <2>1
    <2>2. CASE i # l
        <3>1. i \in 1..Len(s)
            BY <1>1, <2>2
        <3>2. QED BY <1>1, <1>6, <3>1
    <2>3. QED BY <2>1, <2>2
<1>12. Sound(e)
    BY <1>1, <1>6, <1>7, <1>8, <1>9, <1>11 DEF Sound
<1>13. QED BY <1>3, <1>4, <1>5, <1>6, <1>7, <1>8, <1>12 DEF c, s, d

(* The batch is made of places, so it is finite. *)
LEMMA BatchFinite ==
    ASSUME NEW st, Sound(st)
    PROVE  IsFiniteSet(st.ca.batch) /\ Cardinality(st.ca.batch) \in Nat
<1>1. st.dsc_count \in Int /\ Len(st.storage) \in Int
    BY DEF Sound
<1>2. IsFiniteSet(st.dsc_count..Len(st.storage))
    BY <1>1, FS_Interval
<1>3. IsFiniteSet(st.ca.batch)
    BY <1>2, FS_Subset DEF Sound
<1>4. QED BY <1>3, FS_CardinalityType

(* a packet of period n has arrived: what is in the batch is of the same   *)
(* parity, and if it came in time its word is in use                       *)
Ready(st, n) ==
    LET l == Len(st.storage)
    IN  /\ l \in Nat \ {0} /\ l \notin st.ca.batch
        /\ st.ca.batch # {} => st.ca.parity = n % 2
        /\ Cardinality(st.ca.batch) < BatchSize
        /\ st.storage[l].n = n
        /\ st.storage[l].in_time
               => st.storage[l].words = <<>> /\ st.ca.key[n % 2] = n

(* If its parity is the other, the batch is opened and the new words are   *)
(* put into use before it joins.                                           *)
LEMMA SwitchedIs ==
    ASSUME NEW st, Sound(st), Roomy(st), NEW n \in Period
    PROVE  LET e == Switched(Stored(st, n), n)
           IN  Sound(e) /\ Ready(e, n) /\ Len(e.storage) = Len(st.storage) + 1
<1> DEFINE a == Stored(st, n)
           l == Len(st.storage) + 1
           c == st.ca
<1>1. /\ Sound(a) /\ a.ca = c /\ Len(a.storage) = l
      /\ l \in Nat /\ l \notin c.batch
      /\ a.storage[l].n = n /\ a.storage[l].words = <<>>
      /\ a.storage[l].in_time => InTime(c, n)
    BY StoredIs
<1>2. l \in Nat \ {0} /\ n \in Int /\ n % 2 \in 0..1 /\ n # Clear
    BY <1>1, DescramblerAssumption DEF Sound, Period
<1>3. a.storage[l].in_time =>
          /\ c.new_key[n % 2] = n
          /\ c.key[n % 2] = n \/ (ChangesParity(c, n) /\ IsNew(c, n % 2))
    BY <1>1, <1>2 DEF InTime
<1>4. Cardinality(c.batch) < BatchSize
    BY DEF Roomy
<1>5. CASE ~ChangesParity(c, n)
    <2>1. Switched(a, n) = a
        BY <1>1, <1>5 DEF Switched
    <2>2. c.parity \in {None, n % 2}
        BY <1>5 DEF ChangesParity
    <2>3. c.batch # {} => c.parity = n % 2
        BY <1>1, <2>2 DEF Sound, None
    <2>4. Ready(a, n)
        BY <1>1, <1>2, <1>3, <1>4, <1>5, <2>3 DEF Ready
    <2>5. QED BY <1>1, <2>1, <2>4
<1>6. CASE ChangesParity(c, n)
    <2> DEFINE e == Decrypted(a)
    <2>1. Switched(a, n) = e
        BY <1>1, <1>6 DEF Switched
    <2>2. /\ Sound(e) /\ Len(e.storage) = l /\ e.ca.batch = {}
          /\ e.ca.key[n % 2] = IF IsNew(c, n % 2) THEN c.new_key[n % 2]
                                                  ELSE c.key[n % 2]
          /\ e.storage[l].n = n
          /\ e.storage[l].in_time = a.storage[l].in_time
          /\ a.storage[l].in_time => e.storage[l] = a.storage[l]
        <3>1. l \in 1..l
            BY <1>2
        <3> HIDE DEF a, l, c
        <3>2. QED BY <1>1, <1>2, <3>1, DecryptedIs
    <2> HIDE DEF e, a, l, c
    <2>3. Cardinality(e.ca.batch) < BatchSize
        BY <2>2, FS_EmptySet, DescramblerAssumption
    <2>4. Ready(e, n)
        BY <1>1, <1>2, <1>3, <2>2, <2>3 DEF Ready
    <2>5. QED BY <2>1, <2>2, <2>4 DEF a, l
<1>7. QED BY <1>5, <1>6

(* The packet that has arrived joins the batch. *)
LEMMA InBatchIs ==
    ASSUME NEW st, Sound(st), NEW n \in Period, Ready(st, n)
    PROVE  LET e == InBatch(st, n)
           IN  /\ Sound(e)
               /\ Len(e.storage) = Len(st.storage)
               /\ Cardinality(e.ca.batch) <= BatchSize
<1> DEFINE c == st.ca
           s == st.storage
           d == st.dsc_count
           l == Len(s)
           b == c.batch \cup {l}
           f == [c EXCEPT !.parity = n % 2, !.batch = @ \cup {l}]
           e == State(f, s, d)
<1>1. /\ st = State(c, s, d) /\ c \in CaStream /\ s \in Seq(Packets)
      /\ l <= StorageSize
      /\ d \in 0..l /\ c.batch \subseteq d..l
      /\ \A j \in c.batch : j >= 1 => Waits(c, s[j])
      /\ \A i \in 1..l :
            /\ Right(s[i])
            /\ i - StorageSize \in c.batch => ~s[i].in_time
    BY DEF Sound
<1>2. /\ l \in Nat \ {0} /\ l \notin c.batch
      /\ c.batch # {} => c.parity = n % 2
      /\ Cardinality(c.batch) < BatchSize
      /\ s[l].n = n
      /\ s[l].in_time => s[l].words = <<>> /\ c.key[n % 2] = n
    BY DEF Ready
<1>3. /\ n \in Int /\ n % 2 \in {0, 1} /\ BatchSize \in Nat
      /\ StorageSize \in Nat
    BY DescramblerAssumption DEF Period
<1>4. IsFiniteSet(c.batch) /\ Cardinality(c.batch) \in Nat
    BY BatchFinite
<1>6. InBatch(st, n) = e
    BY DEF InBatch
<1> HIDE DEF c, s, d, l
<1>7. l = Len(s)
    BY DEF l
<1>8. b \subseteq d..l /\ b \subseteq (1 - StorageSize)..StorageSize
    BY <1>1, <1>2, <1>3
<1>9. f \in CaStream /\ f.parity = n % 2 /\ f.key = c.key /\ f.batch = b
    <2> DEFINE g == [c EXCEPT !.parity = n % 2]
    <2>1. /\ g \in CaStream /\ g.parity = n % 2 /\ g.key = c.key /\ g.batch = c.batch
          /\ f = [g EXCEPT !.batch = b]
        BY <1>1, <1>3 DEF CaStream
    <2> HIDE DEF f, g, b
    <2>2. QED BY <1>8, <2>1 DEF CaStream
<1> HIDE DEF f
<1>10. e.ca = f /\ e.storage = s /\ e.dsc_count = d
       /\ e = State(e.ca, e.storage, e.dsc_count)
    BY StateFields
<1> HIDE DEF e
<1>11. \A j \in b : j >= 1 => Waits(f, s[j])
    <2>1. Waits(f, s[l])
        BY <1>2, <1>9 DEF Waits
    <2>2. ASSUME NEW j \in c.batch, j >= 1
          PROVE  Waits(f, s[j])
        BY <1>1, <1>2, <1>9, <2>2 DEF Waits
    <2>3. QED BY <2>1, <2>2
<1>12. ASSUME NEW i \in 1..l, i - StorageSize \in b
       PROVE  ~s[i].in_time
    <2>1. i - StorageSize # l
        BY <1>1, <1>2, <1>3
    <2>2. QED BY <1>1, <1>12, <2>1
<1>13. Cardinality(b) <= BatchSize
    <2>1. Cardinality(b) = Cardinality(c.batch) + 1
        BY <1>2, <1>4, FS_AddElement
    <2>2. QED BY <1>2, <1>3, <1>4, <2>1
<1> HIDE DEF b
<1>14. Sound(e)
    BY <1>1, <1>3, <1>7, <1>8, <1>9, <1>10, <1>11, <1>12 DEF Sound
<1>15. QED BY <1>6, <1>9, <1>10, <1>13, <1>14 DEF s

(* There is room for one more after a batch that is full, or a storage     *)
(* that is, has been opened, or there was already.                         *)
LEMMA WhenFullIs ==
    ASSUME NEW st, Sound(st), Cardinality(st.ca.batch) <= BatchSize
    PROVE  LET e == WhenFull(st)
           IN  /\ Sound(e) /\ Len(e.storage) = Len(st.storage)
               /\ Cardinality(e.ca.batch) < BatchSize
               /\ Len(e.storage) < StorageSize \/ e.dsc_count = Len(e.storage)
<1>1. /\ Cardinality(st.ca.batch) \in Nat
      /\ Len(st.storage) \in Nat /\ Len(st.storage) <= StorageSize
      /\ BatchSize \in Nat \ {0} /\ StorageSize \in Nat
    BY BatchFinite, DescramblerAssumption DEF Sound
<1>2. CASE Cardinality(st.ca.batch) >= BatchSize \/ Len(st.storage) >= StorageSize
    <2> DEFINE e == Decrypted(st)
    <2>1. WhenFull(st) = e
        BY <1>2 DEF WhenFull
    <2>2. /\ Sound(e) /\ Len(e.storage) = Len(st.storage)
          /\ e.dsc_count = Len(e.storage) /\ e.ca.batch = {}
        BY DecryptedIs
    <2> HIDE DEF e
    <2>3. Cardinality(e.ca.batch) = 0
        BY <2>2, FS_EmptySet
    <2>4. QED BY <1>1, <2>1, <2>2, <2>3
<1>3. CASE ~(Cardinality(st.ca.batch) >= BatchSize \/ Len(st.storage) >= StorageSize)
    <2>1. WhenFull(st) = st
        BY <1>3 DEF WhenFull
    <2>2. QED BY <1>1, <1>3, <2>1
<1>4. QED BY <1>2, <1>3

(* The places of a batch move up by one. *)
LEMMA MovedUp ==
    ASSUME NEW b, IsFiniteSet(b), b \subseteq Int
    PROVE  LET m == {i - 1 : i \in b}
           IN  /\ \A j : j \in m <=> j \in Int /\ j + 1 \in b
               /\ Cardinality(m) = Cardinality(b)
<1> DEFINE m == {i - 1 : i \in b}
           f == [i \in b |-> i - 1]
<1>1. ASSUME NEW j
      PROVE  j \in m <=> j \in Int /\ j + 1 \in b
    <2>1. ASSUME j \in m
          PROVE  j \in Int /\ j + 1 \in b
        <3>1. PICK i \in b : j = i - 1
            BY <2>1
        <3>2. j + 1 = i
            BY <3>1
        <3>3. QED BY <3>1, <3>2
    <2>2. ASSUME j \in Int, j + 1 \in b
          PROVE  j \in m
        <3>1. j = (j + 1) - 1
            BY <2>2
        <3>2. QED BY <2>2, <3>1
    <2>3. QED BY <2>1, <2>2
<1>2. f \in [b -> m]
    OBVIOUS
<1>3. \A i, k \in b : f[i] = f[k] => i = k
    OBVIOUS
<1>4. \A j \in m : \E i \in b : f[i] = j
    OBVIOUS
<1> HIDE DEF f, m
<1>5. f \in Bijection(b, m)
    BY <1>2, <1>3, <1>4 DEF Bijection, Injection, Surjection, IsInjective
<1>6. Cardinality(m) = Cardinality(b)
    BY <1>5, FS_Bijection DEF ExistsBijection
<1>7. QED BY <1>1, <1>6 DEF m

(* The first packet leaves, if it may. *)
LEMMA SendOneIs ==
    ASSUME NEW st, Sound(st), Cardinality(st.ca.batch) < BatchSize,
           Len(st.storage) >= 1,
           Len(st.storage) < StorageSize \/ st.dsc_count = Len(st.storage)
    PROVE  Sound(SendOne(st)) /\ Roomy(SendOne(st))
<1>1. CASE st.dsc_count = 0
    <2>1. SendOne(st) = st
        BY <1>1 DEF SendOne
    <2>2. Len(st.storage) < StorageSize
        BY <1>1
    <2>3. QED BY <2>1, <2>2 DEF Roomy
<1>2. CASE st.dsc_count # 0
    <2> DEFINE c == st.ca
               s == st.storage
               d == st.dsc_count
               m == {i - 1 : i \in c.batch}
               f == [c EXCEPT !.batch = {i - 1 : i \in @}]
               t == Tail(s)
               e == State(f, t, d - 1)
    <2>1. SendOne(st) = e
        BY <1>2 DEF SendOne
    <2>2. /\ c \in CaStream /\ s \in Seq(Packets) /\ Len(s) <= StorageSize
          /\ d \in 0..Len(s) /\ c.batch \subseteq d..Len(s)
          /\ c.batch # {} => c.parity \in {0, 1}
          /\ \A j \in c.batch : j >= 1 => Waits(c, s[j])
          /\ \A i \in 1..Len(s) :
                /\ Right(s[i])
                /\ i - StorageSize \in c.batch => ~s[i].in_time
        BY DEF Sound
    <2>3. IsFiniteSet(c.batch) /\ c.batch \subseteq Int
        BY <2>2, BatchFinite
    <2>4. /\ \A j : j \in m <=> j \in Int /\ j + 1 \in c.batch
          /\ Cardinality(m) = Cardinality(c.batch)
        BY <2>3, MovedUp
    <2>5. f = [c EXCEPT !.batch = m]
        OBVIOUS
    <2> HIDE DEF c, s, d, m, f
    <2>6. StorageSize \in Nat /\ StorageSize >= 1 /\ Len(s) \in Nat \ {0} /\ d \in Nat \ {0}
        BY <1>2, <2>2, DescramblerAssumption DEF s, d
    <2>7. m \subseteq (d - 1)..(Len(s) - 1) /\ m \subseteq (1 - StorageSize)..StorageSize
        BY <2>2, <2>4, <2>6
    <2>8. f \in CaStream /\ f.parity = c.parity /\ f.key = c.key /\ f.batch = m
        BY <2>2, <2>5, <2>7 DEF CaStream
    <2>9. s # <<>>
        BY <2>6
    <2>10. /\ t \in Seq(Packets) /\ Len(t) = Len(s) - 1
           /\ \A i \in 1..(Len(s) - 1) : t[i] = s[i + 1]
        BY <2>2, <2>9, HeadTailProperties
    <2> HIDE DEF t
    <2>11. e.ca = f /\ e.storage = t /\ e.dsc_count = d - 1
           /\ e = State(e.ca, e.storage, e.dsc_count)
        BY StateFields
    <2> HIDE DEF e
    <2>12. ASSUME NEW j \in m, j >= 1
           PROVE  Waits(f, t[j])
        <3>1. j + 1 \in c.batch /\ j \in 1..(Len(s) - 1)
            BY <2>4, <2>6, <2>7, <2>12
        <3>2. Waits(c, s[j + 1])
            BY <2>2, <2>6, <3>1
        <3>3. QED BY <2>8, <2>10, <3>1, <3>2 DEF Waits
    <2>13. ASSUME NEW i \in 1..(Len(s) - 1)
           PROVE  Right(t[i]) /\ (i - StorageSize \in m => ~t[i].in_time)
        <3>1. i + 1 \in 1..Len(s) /\ (i - StorageSize) + 1 = (i + 1) - StorageSize
            BY <2>6
        <3>2. i - StorageSize \in m => (i + 1) - StorageSize \in c.batch
            BY <2>4, <3>1
        <3>3. Right(s[i + 1]) /\ ((i + 1) - StorageSize \in c.batch => ~s[i + 1].in_time)
            BY <2>2, <3>1
        <3>4. QED BY <2>10, <3>2, <3>3
    <2>14. c.batch = {} => m = {}
        BY <2>4
    <2>14a. /\ Len(t) <= StorageSize /\ d - 1 \in 0..Len(t)
            /\ m \subseteq (d - 1)..Len(t)
            /\ \A i \in 1..Len(t) :
                  Right(t[i]) /\ (i - StorageSize \in m => ~t[i].in_time)
        BY <2>2, <2>6, <2>7, <2>10, <2>13
    <2>14b. \A j \in f.batch : j >= 1 => Waits(f, t[j])
        BY <2>8, <2>12
    <2>14c. f.batch # {} => f.parity \in {0, 1}
        BY <2>2, <2>8, <2>14
    <2>15. Sound(e)
        BY <2>8, <2>10, <2>11, <2>14a, <2>14b, <2>14c DEF Sound
    <2>16. Roomy(e)
        BY <2>2, <2>4, <2>6, <2>8, <2>10, <2>11 DEF Roomy, c
    <2>17. QED BY <2>1, <2>15, <2>16 DEF c, s, d
<1>3. QED BY <1>1, <1>2

(* on_ts, whatever arrives *)
LEMMA HandledIs ==
    ASSUME Sound(Current), Roomy(Current), NEW n \in Period \cup {Clear}
    PROVE  Sound(Handled(n)) /\ Roomy(Handled(n))
<1> DEFINE a == Stored(Current, n)
           b == Scrambled(a, n)
           e == WhenFull(b)
           l == Len(storage) + 1
<1>1. Handled(n) = SendOne(e)
    BY DEF Handled, Current
<1>2. Len(Current.storage) + 1 = l /\ Current.ca = ca
    BY DEF Current, State
<1>3. l \in Nat \ {0}
    BY DEF Current, State, Sound
<1>4. Sound(b) /\ Len(b.storage) = l /\ Cardinality(b.ca.batch) <= BatchSize
    <2>1. CASE n = Clear
        <3>1. b = a
            BY <2>1 DEF Scrambled
        <3>2. Sound(a) /\ a.ca = ca /\ Len(a.storage) = l
            BY <1>2, StoredIs
        <3>3. Cardinality(ca.batch) < BatchSize /\ Cardinality(ca.batch) \in Nat
            BY <1>2, BatchFinite DEF Roomy
        <3> HIDE DEF a, b, l
        <3>4. QED BY <3>1, <3>2, <3>3, DescramblerAssumption
    <2>2. CASE n # Clear
        <3> DEFINE g == Switched(a, n)
        <3>1. b = InBatch(g, n) /\ n \in Period
            BY <2>2 DEF Scrambled
        <3>2. Sound(g) /\ Ready(g, n) /\ Len(g.storage) = l
            BY <1>2, <3>1, SwitchedIs
        <3> HIDE DEF a, b, g, l
        <3>3. QED BY <3>1, <3>2, InBatchIs
    <2>3. QED BY <2>1, <2>2
<1> HIDE DEF b
<1>5. /\ Sound(e) /\ Len(e.storage) = l
      /\ Cardinality(e.ca.batch) < BatchSize
      /\ Len(e.storage) < StorageSize \/ e.dsc_count = Len(e.storage)
    BY <1>4, WhenFullIs
<1> HIDE DEF e, l
<1>6. QED BY <1>1, <1>3, <1>5, SendOneIs

-----------------------------------------------------------------------------
(* The steps                                                               *)

(* A ca_stream that has been made has used nothing yet. *)
LEMMA FreshIs ==
    ASSUME NEW a \in Address, Held
    PROVE  LET st == State(FreshCa(a), storage, dsc_count)
           IN  Sound(st) /\ Roomy(st) /\ FreshCa(a) \in CaStream
<1> DEFINE c == FreshCa(a)
           st == State(c, storage, dsc_count)
<1>1. c \in CaStream /\ c.batch = {}
    <2>1. [p \in 0..1 |-> None] \in [0..1 -> Words \cup {None}]
        OBVIOUS
    <2> DEFINE k == [p \in 0..1 |-> None]
    <2> HIDE DEF k
    <2>2. c = [at |-> a, ecm_type |-> None, parity |-> None, key |-> k,
               new_key |-> k, new_key_id |-> 0, batch |-> {}]
        BY DEF FreshCa, k
    <2>3. k \in [0..1 -> Words \cup {None}]
        BY <2>1 DEF k
    <2>4. QED BY <2>2, <2>3 DEF CaStream
<1> HIDE DEF c
<1>2. /\ st.ca = c /\ st.storage = storage /\ st.dsc_count = dsc_count
      /\ st = State(st.ca, st.storage, st.dsc_count)
    BY StateFields
<1> HIDE DEF st
<1>3. /\ Len(storage) \in Nat /\ StorageSize \in Nat /\ 0 < BatchSize
      /\ Len(storage) <= StorageSize
    BY DescramblerAssumption DEF Held
<1>4. /\ storage \in Seq(Packets) /\ Len(storage) < StorageSize
      /\ dsc_count \in 0..Len(storage)
      /\ \A i \in 1..Len(storage) : Right(storage[i])
    BY DEF Held
<1>5. Sound(st)
    BY <1>1, <1>2, <1>3, <1>4 DEF Sound
<1>6. Roomy(st)
    BY <1>1, <1>2, <1>3, <1>4, FS_EmptySet DEF Roomy
<1>7. QED BY <1>1, <1>5, <1>6 DEF c, st

(* What is sound does not look at the words that were received, nor at the *)
(* parity of the last ECM.                                                 *)
LEMMA SoundFor ==
    ASSUME Sound(Current), Roomy(Current), NEW f \in CaStream,
           f.key = ca.key, f.parity = ca.parity, f.batch = ca.batch
    PROVE  LET st == State(f, storage, dsc_count) IN Sound(st) /\ Roomy(st)
<1> DEFINE st == State(f, storage, dsc_count)
<1>1. /\ Current.ca = ca /\ Current.storage = storage
      /\ Current.dsc_count = dsc_count
    BY StateFields DEF Current
<1>2. /\ st.ca = f /\ st.storage = storage /\ st.dsc_count = dsc_count
      /\ st = State(st.ca, st.storage, st.dsc_count)
    BY StateFields
<1> HIDE DEF st
<1>3. \A p : Waits(ca, p) <=> Waits(f, p)
    BY DEF Waits
<1>4. QED BY <1>1, <1>2, <1>3 DEF Sound, Roomy

(* the words of an answer become new words *)
LEMMA ReceivedIs ==
    ASSUME NEW c \in CaStream, NEW n \in Period
    PROVE  LET f == Received(c, WordsOf(n))
           IN  f \in CaStream /\ f.key = c.key /\ f.parity = c.parity /\ f.batch = c.batch
<1> DEFINE w == WordsOf(n)
<1>0. WordsOf(n) = w
    OBVIOUS
<1>1. w \in [0..1 -> Words \cup {None}]
    <2>1. n \in Words /\ n + 1 \in Words
        BY DescramblerAssumption DEF Period, Words
    <2>2. QED BY <2>1 DEF WordsOf
<1> HIDE DEF w
<1>2. ASSUME NEW k \in [0..1 -> Words \cup {None}], NEW i \in 0..3
      PROVE  LET f == [c EXCEPT !.new_key = k, !.new_key_id = i]
             IN  f \in CaStream /\ f.key = c.key /\ f.parity = c.parity /\ f.batch = c.batch
    <2> DEFINE g == [c EXCEPT !.new_key = k]
               f == [g EXCEPT !.new_key_id = i]
    <2>1. g \in CaStream /\ g.key = c.key /\ g.parity = c.parity /\ g.batch = c.batch
        BY DEF CaStream
    <2> HIDE DEF g
    <2>2. f \in CaStream /\ f.key = c.key /\ f.parity = c.parity /\ f.batch = c.batch
        BY <2>1 DEF CaStream
    <2>3. f = [c EXCEPT !.new_key = k, !.new_key_id = i]
        BY DEF g
    <2> HIDE DEF f
    <2>4. QED BY <2>2, <2>3
<1>3. \E k \in [0..1 -> Words \cup {None}], i \in 0..3 :
          Received(c, w) = [c EXCEPT !.new_key = k, !.new_key_id = i]
    <2> DEFINE k0 == [c.new_key EXCEPT ![0] = w[0]]
               k1 == [c.new_key EXCEPT ![1] = w[1]]
    <2>1. k0 \in [0..1 -> Words \cup {None}] /\ k1 \in [0..1 -> Words \cup {None}]
        BY <1>1, CaFields
    <2>2. Received(c, w) \in {[c EXCEPT !.new_key = k0, !.new_key_id = 1],
                              [c EXCEPT !.new_key = k1, !.new_key_id = 2],
                              [c EXCEPT !.new_key = w, !.new_key_id = 3]}
        BY DEF Received
    <2>3. 1 \in 0..3 /\ 2 \in 0..3 /\ 3 \in 0..3
        OBVIOUS
    <2> HIDE DEF k0, k1
    <2>4. QED BY <1>1, <2>1, <2>2, <2>3
<1>4. PICK k \in [0..1 -> Words \cup {None}], i \in 0..3 :
          Received(c, w) = [c EXCEPT !.new_key = k, !.new_key_id = i]
    BY <1>3
<1> DEFINE f == [c EXCEPT !.new_key = k, !.new_key_id = i]
<1>5. f \in CaStream /\ f.key = c.key /\ f.parity = c.parity /\ f.batch = c.batch
    BY <1>2
<1>6. Received(c, WordsOf(n)) = f
    BY <1>0, <1>4
<1> HIDE DEF f
<1>7. QED BY <1>5, <1>6

(* Between two steps of on_ts, what is held and what was lost. *)
Kept(c, s, d, o) ==
    /\ LET st == State(c, s, d) IN Sound(st) /\ Roomy(st)
    /\ ~o

(* what Held and Lost say while there is a ca_stream *)
LEMMA KeptGives ==
    ASSUME Kept(ca, storage, dsc_count, overtaken)
    PROVE  Held /\ Lost
<1>1. Sound(Current) /\ Roomy(Current) /\ ~overtaken
    BY DEF Kept, Current
<1>2. /\ Current.ca = ca /\ Current.storage = storage
      /\ Current.dsc_count = dsc_count
    BY StateFields DEF Current
<1>3. Held
    BY <1>1, <1>2 DEF Held, Sound, Roomy
<1>4. ca # NoCa
    BY <1>1, <1>2, CaIsSet DEF Sound
<1>5. QED BY <1>1, <1>3, <1>4 DEF Lost

(* ... and conversely *)
LEMMA HeldGives ==
    ASSUME Held, Lost, ca # NoCa
    PROVE  Sound(Current) /\ Roomy(Current) /\ ~overtaken /\ ca \in CaStream
<1>1. Current.ca = ca
    BY StateFields DEF Current
<1>2. QED BY <1>1 DEF Held, Lost, Sound

(* nothing is held *)
LEMMA ForgetKeeps ==
    ASSUME Forget
    PROVE  Held' /\ Lost'
<1>1. /\ Len(<<>>) = 0 /\ 0 < StorageSize /\ <<>> \in Seq(Packets)
    BY DescramblerAssumption
<1>2. /\ storage' = <<>> /\ dsc_count' = 0 /\ ca' = NoCa /\ overtaken' = FALSE
    BY DEF Forget
<1>3. Held'
    BY <1>1, <1>2 DEF Held
<1>4. QED BY <1>2, <1>3 DEF Lost

(* A step that leaves the packets and the ca_stream alone, and does not    *)
(* make the cam ready, keeps what is held.                                 *)
LEMMA SameKeeps ==
    ASSUME Held, Lost, UNCHANGED <<ca, storage, dsc_count, overtaken>>,
           overtaken \/ (ca = NoCa /\ storage # <<>>) => ~is_ready' /\ ~cas'
    PROVE  Held' /\ Lost'
BY DEF Held, Lost, Current, State

(* on_pat *)
LEMMA PatKeeps ==
    ASSUME IInv, Pat
    PROVE  IInv'
<1>1. Flags' /\ Stream'
    <2>1. Flags'
        BY DEF IInv, Flags, Pat, Forget
    <2>2. Stream'
        BY DEF IInv, Stream, Pat
    <2>3. QED BY <2>1, <2>2
<1>2. CASE pat
    BY <1>1, <1>2, ForgetKeeps DEF Pat, IInv
<1>3. CASE ~pat
    <2>1. UNCHANGED <<ca, storage, dsc_count, overtaken>>
        BY <1>3 DEF Pat
    <2>2. overtaken \/ (ca = NoCa /\ storage # <<>>) => ~is_ready' /\ ~cas'
        BY DEF Pat, IInv, Lost
    <2>3. Held' /\ Lost'
        BY <2>1, <2>2, SameKeeps DEF IInv
    <2>4. QED BY <1>1, <2>3 DEF IInv
<1>4. QED BY <1>2, <1>3

(* on_pmt: the ca_stream that is made has an empty batch *)
LEMMA PmtKeeps ==
    ASSUME IInv, Pmt
    PROVE  IInv'
<1>1. Flags' /\ Stream'
    BY DEF IInv, Flags, Stream, Pmt
<1>2. CASE cas
    <2>1. PICK a \in Address : ca' = FreshCa(a)
        BY <1>2 DEF Pmt
    <2>2. LET st == State(FreshCa(a), storage, dsc_count) IN Sound(st) /\ Roomy(st)
        BY FreshIs DEF IInv
    <2>3. storage' = storage /\ dsc_count' = dsc_count /\ ~overtaken'
        BY <1>2 DEF IInv, Lost, Pmt
    <2>4. Kept(ca, storage, dsc_count, overtaken)'
        BY <2>1, <2>2, <2>3 DEF Kept
    <2>5. Held' /\ Lost'
        BY <2>4, KeptGives, PTL
    <2>6. QED BY <1>1, <2>5 DEF IInv
<1>3. CASE ~cas
    <2>1. UNCHANGED <<ca, storage, dsc_count, overtaken>>
        BY <1>3 DEF Pmt
    <2>2. overtaken \/ (ca = NoCa /\ storage # <<>>) => ~is_ready' /\ ~cas'
        BY DEF Pmt, IInv, Lost
    <2>3. Held' /\ Lost'
        BY <2>1, <2>2, SameKeeps DEF IInv
    <2>4. QED BY <1>1, <2>3 DEF IInv
<1>4. QED BY <1>2, <1>3

(* a section that differs *)
LEMMA TableChangedKeeps ==
    ASSUME IInv, TableChanged
    PROVE  IInv'
<1>1. Flags' /\ Stream'
    BY DEF IInv, Flags, Stream, TableChanged, StreamReload, Forget
<1>2. QED BY <1>1, ForgetKeeps DEF TableChanged, StreamReload, IInv

(* on_cam_ready: what the lost cam has left is thrown away *)
LEMMA CamReadyKeeps ==
    ASSUME IInv, CamReady
    PROVE  IInv'
<1>1. Flags' /\ Stream'
    BY DEF IInv, Flags, Stream, CamReady, StreamReload, Forget
<1>2. QED BY <1>1, ForgetKeeps DEF CamReady, StreamReload, IInv

(* on_cam_error: the packets stay, and nothing will open them *)
LEMMA CamErrorKeeps ==
    ASSUME IInv, CamError
    PROVE  IInv'
<1>1. Flags' /\ Stream'
    <2>1. <<>> \in Seq(Ecms)
        OBVIOUS
    <2>2. QED BY <2>1 DEF IInv, Flags, Stream, CamError, CasDestroy
<1>2. Held'
    BY DEF IInv, Held, CamError, CasDestroy
<1>3. Lost'
    BY DEF CamError, CasDestroy, Lost
<1>4. QED BY <1>1, <1>2, <1>3 DEF IInv

(* a step that only replaces fields of the ca_stream that nothing in the   *)
(* batch depends on                                                        *)
LEMMA FieldsKeep ==
    ASSUME Held, Lost, ca # NoCa, NEW f \in CaStream, ca' = f,
           f.key = ca.key, f.parity = ca.parity, f.batch = ca.batch,
           UNCHANGED <<storage, dsc_count, overtaken>>
    PROVE  Held' /\ Lost'
<1>1. Sound(Current) /\ Roomy(Current) /\ ~overtaken
    BY HeldGives
<1>2. LET st == State(f, storage, dsc_count) IN Sound(st) /\ Roomy(st)
    BY <1>1, SoundFor
<1>3. Kept(ca, storage, dsc_count, overtaken)'
    BY <1>1, <1>2 DEF Kept
<1>4. QED BY <1>3, KeptGives, PTL

(* on_em *)
LEMMA EcmKeeps ==
    ASSUME IInv, NEW n \in {ecm, period + 1} \cap Period, Ecm(n)
    PROVE  IInv'
<1> DEFINE f == [ca EXCEPT !.ecm_type = n % 2]
           new == [n |-> n, arg |-> ca.at]
<1>1. /\ ca # NoCa /\ ca' = f /\ ecm' = n
      /\ UNCHANGED <<is_ready, pat, pmt, cas, storage, dsc_count, period, overtaken>>
      /\ Ask(new)
    BY DEF Ecm
<1>2. ca \in CaStream
    BY <1>1, HeldGives DEF IInv
<1>3. n \in Period /\ n % 2 \in {0, 1}
    BY DEF Period
<1>4. f \in CaStream /\ f.key = ca.key /\ f.parity = ca.parity /\ f.batch = ca.batch
    BY <1>2, <1>3 DEF CaStream
<1> HIDE DEF f
<1>5. Held' /\ Lost'
    BY <1>1, <1>4, FieldsKeep DEF IInv
<1>6. Flags'
    BY <1>1 DEF IInv, Flags
<1>7. new \in Ecms
    BY <1>2, <1>3, CaFields DEF Ecms
<1> HIDE DEF new
<1>8. asked' \in Seq(Ecms)
    <2>1. asked \in Seq(Ecms)
        BY DEF IInv, Stream
    <2>2. CASE asked' = Append(asked, new)
        BY <1>7, <2>1, <2>2
    <2>3. ASSUME NEW i \in Waiting(new.arg),
                 asked' = Append(SubSeq(asked, 1, i - 1)
                                     \o SubSeq(asked, i + 1, Len(asked)), new)
          PROVE  asked' \in Seq(Ecms)
        <3>1. /\ Len(asked) \in Nat /\ i \in 2..Len(asked)
              /\ \A k \in 1..Len(asked) : asked[k] \in Ecms
            BY <2>1 DEF Waiting
        <3>2. SubSeq(asked, 1, i - 1) \in Seq(Ecms)
            BY <3>1, SubSeqProperties
        <3>3. SubSeq(asked, i + 1, Len(asked)) \in Seq(Ecms)
            BY <3>1, SubSeqProperties
        <3>4. SubSeq(asked, 1, i - 1) \o SubSeq(asked, i + 1, Len(asked)) \in Seq(Ecms)
            BY <3>2, <3>3
        <3>5. QED BY <1>7, <2>3, <3>4
    <2>4. QED BY <1>1, <2>2, <2>3 DEF Ask
<1>9. Stream'
    BY <1>1, <1>3, <1>8 DEF IInv, Stream
<1>10. QED BY <1>5, <1>6, <1>9 DEF IInv

(* on_cam_response *)
LEMMA ResponseKeeps ==
    ASSUME IInv, NEW found \in BOOLEAN, Response(found)
    PROVE  IInv'
<1> DEFINE a == Head(asked)
<1>1. /\ asked # <<>> /\ asked' = Tail(asked)
      /\ UNCHANGED <<is_ready, pat, pmt, cas, storage, dsc_count, period, ecm, overtaken>>
    BY DEF Response
<1>2. a \in Ecms /\ asked' \in Seq(Ecms)
    BY <1>1 DEF IInv, Stream
<1>3. Flags' /\ Stream'
    BY <1>1, <1>2 DEF IInv, Flags, Stream
<1>4. CASE ca' = ca
    <2>1. overtaken \/ (ca = NoCa /\ storage # <<>>) => ~is_ready' /\ ~cas'
        BY <1>1 DEF IInv, Lost
    <2>2. QED BY <1>1, <1>3, <1>4, <2>1, SameKeeps DEF IInv
<1>5. CASE ca # NoCa /\ ca' = Received(ca, WordsOf(a.n))
    <2> DEFINE f == Received(ca, WordsOf(a.n))
    <2>1. ca \in CaStream /\ a.n \in Period
        BY <1>2, <1>5, HeldGives DEF IInv, Ecms
    <2>2. f \in CaStream /\ f.key = ca.key /\ f.parity = ca.parity /\ f.batch = ca.batch
        BY <2>1, ReceivedIs
    <2> HIDE DEF f
    <2>3. ca' = f
        BY <1>5 DEF f
    <2>4. Held' /\ Lost'
        BY <1>1, <1>5, <2>2, <2>3, FieldsKeep DEF IInv
    <2>5. QED BY <1>3, <2>4 DEF IInv
<1>6. QED BY <1>4, <1>5 DEF Response

(* on_ts *)
LEMMA TsKeeps ==
    ASSUME IInv, NEW n \in {Clear} \cup ({period, period + 1} \cap Period), Ts(n)
    PROVE  IInv'
<1>1. UNCHANGED <<is_ready, pat, pmt, cas, asked>>
    BY DEF Ts
<1>2. Stream'
    <2>1. CASE n = Clear
        BY <1>1, <2>1 DEF IInv, Stream, Ts
    <2>2. CASE n # Clear
        <3>1. n \in {period, period + 1} \cap Period /\ period' = n
            BY <2>2 DEF Ts
        <3>2. ecm' = IF n > ecm THEN n ELSE ecm
            BY <2>2 DEF Ts
        <3>3. /\ period \in Nat /\ ecm \in Nat /\ n \in Nat
              /\ ecm \in {period, period + 1} \cap Period
            BY <3>1 DEF IInv, Stream, Period
        <3>4. ecm' \in {n, n + 1} \cap Period
            BY <3>1, <3>2, <3>3
        <3>5. QED BY <1>1, <3>1, <3>4 DEF IInv, Stream
    <2>3. QED BY <2>1, <2>2
<1>3. CASE ca = NoCa
    <2>1. /\ overtaken' = (overtaken \/ storage # <<>>)
          /\ UNCHANGED <<ca, storage, dsc_count>>
        BY <1>3 DEF Ts
    <2>2. Flags'
        BY Zenon, <1>1, <2>1 DEF IInv, Flags
    <2>3. Held'
        BY <1>3, <2>1 DEF IInv, Held
    <2>4. Lost'
        BY <1>1, <1>3, <2>1 DEF IInv, Lost
    <2>5. QED BY <1>2, <2>2, <2>3, <2>4 DEF IInv
<1>4. CASE ca # NoCa
    <2> DEFINE st == Handled(n)
    <2>1. ca' = st.ca /\ storage' = st.storage /\ dsc_count' = st.dsc_count
          /\ overtaken' = overtaken
        BY <1>4 DEF Ts
    <2>2. Sound(Current) /\ Roomy(Current) /\ ~overtaken
        BY <1>4, HeldGives DEF IInv
    <2>3. Sound(st) /\ Roomy(st)
        BY <2>2, HandledIs
    <2> HIDE DEF st
    <2>4. st = State(ca', storage', dsc_count')
        BY <2>1, <2>3 DEF Sound
    <2>5. Kept(ca, storage, dsc_count, overtaken)'
        BY <2>1, <2>2, <2>3, <2>4 DEF Kept
    <2>6. Held' /\ Lost'
        BY <2>5, KeptGives, PTL
    <2>7. Flags'
        BY <1>1, <2>1 DEF IInv, Flags
    <2>8. QED BY <1>2, <2>6, <2>7 DEF IInv
<1>5. QED BY <1>3, <1>4

-----------------------------------------------------------------------------
(* The invariant                                                           *)

(* at the start *)
LEMMA InitIInv == Init => IInv
<1> SUFFICES ASSUME Init
             PROVE  IInv
    OBVIOUS
<1>1. /\ Len(<<>>) = 0 /\ 0 < StorageSize /\ <<>> \in Seq(Packets)
      /\ <<>> \in Seq(Ecms) /\ 0 \in Period
    BY DescramblerAssumption DEF Period
<1>2. Flags /\ Stream
    BY <1>1 DEF Init, Flags, Stream
<1>3. Held
    BY <1>1 DEF Init, Held
<1>4. Lost
    BY DEF Init, Lost
<1>5. QED BY <1>2, <1>3, <1>4 DEF IInv

(* and after every step *)
LEMMA StepIInv == IInv /\ [Next]_vars => IInv'
<1> SUFFICES ASSUME IInv, [Next]_vars
             PROVE  IInv'
    OBVIOUS
<1>1. CASE Pat
    BY <1>1, PatKeeps
<1>2. CASE Pmt
    BY <1>2, PmtKeeps
<1>3. CASE TableChanged
    BY <1>3, TableChangedKeeps
<1>4. CASE CamReady
    BY <1>4, CamReadyKeeps
<1>5. CASE CamError
    BY <1>5, CamErrorKeeps
<1>6. CASE \E n \in {ecm, period + 1} \cap Period : Ecm(n)
    BY <1>6, EcmKeeps
<1>7. CASE \E found \in BOOLEAN : Response(found)
    BY <1>7, ResponseKeeps
<1>8. CASE Arrives
    BY <1>8, TsKeeps DEF Arrives
<1>9. CASE UNCHANGED vars
    <2>1. Held' /\ Lost'
        BY <1>9, SameKeeps DEF IInv, Lost, vars
    <2>2. QED BY <1>9, <2>1 DEF IInv, Flags, Stream, vars
<1>10. QED BY <1>1, <1>2, <1>3, <1>4, <1>5, <1>6, <1>7, <1>8, <1>9 DEF Next

(* what holds in every reachable state *)
THEOREM Invariant == Spec => []IInv
<1>1. QED BY InitIInv, StepIInv, PTL DEF Spec

(* Neither the storage nor a batch is full when a packet arrives, and what *)
(* may be sent is in the storage: after every on_ts there is room for one  *)
(* more packet, however the batches have been opened.                      *)
THEOREM TypeCorrect == Spec => []TypeOK
<1>1. IInv => TypeOK
    <2> SUFFICES ASSUME IInv
                 PROVE  TypeOK
        OBVIOUS
    <2>1. ca \in CaStream \cup {NoCa} /\ (ca # NoCa => Cardinality(ca.batch) < BatchSize)
        BY HeldGives, StateFields DEF IInv, Roomy, Current
    <2>2. QED BY <2>1 DEF IInv, Flags, Stream, Held, TypeOK
<1>2. QED BY <1>1, Invariant, PTL

(* Only the first packet of a batch may have been sent when the batch is   *)
(* opened, and packets that others went past are never sent.               *)
THEOREM HeldBack == Spec => []HeldUntilOpened
<1>1. IInv => HeldUntilOpened
    <2> SUFFICES ASSUME IInv
                 PROVE  HeldUntilOpened
        OBVIOUS
    <2>1. ASSUME ca # NoCa, NEW j \in ca.batch
          PROVE  j <= Len(storage) /\ (j <= dsc_count => \A i \in ca.batch : j <= i)
        <3>1. Sound(Current)
            BY <2>1, HeldGives DEF IInv
        <3>2. /\ ca.batch \subseteq dsc_count..Len(storage)
              /\ dsc_count \in Int /\ Len(storage) \in Int
            BY <3>1, StateFields DEF Sound, Current
        <3>3. QED BY <3>2
    <2>2. overtaken => ca = NoCa
        BY DEF IInv, Lost
    <2>3. QED BY <2>1, <2>2 DEF HeldUntilOpened
<1>2. QED BY <1>1, Invariant, PTL

(* A packet that came in time is opened with the word of its own period or *)
(* not at all, for any run of periods, answers, tables and cams.           *)
THEOREM OpenedRight == Spec => []RightWord
<1>1. IInv => RightWord
    <2> SUFFICES ASSUME IInv
                 PROVE  RightWord
        OBVIOUS
    <2>1. DOMAIN storage = 1..Len(storage)
        BY DEF IInv, Held
    <2>2. QED BY <2>1 DEF IInv, Held, Right, RightWord
<1>2. QED BY <1>1, Invariant, PTL
===============================================================================
