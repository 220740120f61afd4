---------------------------- MODULE Newcamd_proofs ----------------------------
(***************************************************************************)
(* Proofs about Newcamd: for any set of decrypt modules, any length of the *)
(* queue of packets, and any number of stray timers.                       *)
(***************************************************************************)
EXTENDS Newcamd, FiniteSetTheorems, SequenceTheorems, NaturalsInduction,
        WellFoundedInduction, TLAPS

(* no element is in q twice *)
NoTwice(q) == \A i, j \in 1..Len(q) : q[i] = q[j] => i = j

Types ==
    /\ status \in -1..3
    /\ sock \in {"none", "connecting", "dead", "up"}
    /\ lost \in 0..MaxLost
    /\ users \subseteq Decrypt
    /\ told \subseteq Decrypt

Flags ==
    /\ greeted \in BOOLEAN /\ on_ready \in BOOLEAN /\ half \in BOOLEAN
    /\ garbled \in BOOLEAN /\ timeout \in BOOLEAN /\ is_ready \in BOOLEAN
    /\ hello \in BOOLEAN

(* A packet is in one place, and once.                                     *)
Packets ==
    /\ packet \in Packet \cup {NoPacket}
    /\ queue \in Seq(Packet)
    /\ Len(queue) <= MaxQueue
    /\ packet \notin ToSet(queue)
    /\ NoTwice(queue)
    /\ asked \in Seq(Packet)

(* The status belongs to the socket, and a message has been begun only on  *)
(* a connection whose key was read.                                        *)
Phase ==
    /\ sock = "none" => status \in {-1, 0}
    /\ sock \in {"connecting", "dead"} => status = 0
    /\ sock = "up" => status \in {1, 2, 3}
    /\ half => greeted
    /\ status \in {2, 3} => greeted

(* Packets exist, here and with the server, only in use.                   *)
Quiet == status # 3 => packet = NoPacket /\ queue = <<>> /\ asked = <<>>

Known ==
    /\ is_ready <=> status = 3
    /\ told = IF is_ready THEN users ELSE {}

IInv ==
    /\ Types /\ Flags /\ Packets
    /\ Phase /\ Watched /\ Quiet /\ AnswerFits /\ Known
-------------------------------------------------------------------------------
(* Sequences                                                               *)

(* A set of numbers has a least one.                                       *)
LEMMA HasLeast ==
    ASSUME NEW S \in SUBSET Nat, S # {}
    PROVE  \E x \in S : \A y \in S : x <= y
<1> DEFINE less == OpToRel(<, Nat)
<1>1. IsWellFoundedOn(less, Nat)
    BY NatLessThanWellFounded
<1>2. \A x, y \in Nat : y < x => <<y, x>> \in less
    BY Zenon DEF OpToRel
<1> HIDE DEF less
<1>3. PICK x \in S : \A y \in S : ~(<<y, x>> \in less)
    BY <1>1, WFMin, Zenon
<1>4. S \subseteq Nat /\ \A y \in S : ~(y < x)
    BY <1>2, <1>3, Zenon
<1>5. QED BY <1>4

(* g[i] is what is left of the first i elements of q, for i up to n.       *)
Leaves(g, q, T, n) ==
    g = [i \in 0..n |-> IF i = 0 THEN <<>>
                        ELSE IF q[i] \in T THEN g[i - 1]
                                           ELSE Append(g[i - 1], q[i])]

(* Its values, one by one.                                                 *)
LEMMA LeavesValues ==
    ASSUME NEW g, NEW q, NEW T, NEW n \in Nat, Leaves(g, q, T, n)
    PROVE  /\ g[0] = <<>>
           /\ \A i \in 1..n :
                 g[i] = IF q[i] \in T THEN g[i - 1] ELSE Append(g[i - 1], q[i])
<1>1. \A i \in 0..n : g[i] = IF i = 0 THEN <<>>
                        ELSE IF q[i] \in T THEN g[i - 1]
                                           ELSE Append(g[i - 1], q[i])
    BY Zenon DEF Leaves
<1>2. QED BY <1>1

(* There is such a function.                                               *)
LEMMA LeavesExists ==
    ASSUME NEW q, NEW T
    PROVE  \A n \in Nat : \E g : Leaves(g, q, T, n)
<1> DEFINE bad == {n \in Nat : ~ \E g : Leaves(g, q, T, n)}
<1>1. SUFFICES ASSUME bad # {} PROVE FALSE
    OBVIOUS
<1>2. PICK n \in bad : \A m \in bad : n <= m
    BY <1>1, HasLeast
<1>3. CASE n = 0
    <2>1. Leaves([i \in 0..0 |-> <<>>], q, T, 0)
        BY DEF Leaves
    <2>2. QED BY <1>2, <1>3, <2>1
<1>4. CASE n # 0
    <2>1. n - 1 \in Nat /\ n - 1 \notin bad
        BY <1>2, <1>4
    <2>2. PICK g : Leaves(g, q, T, n - 1)
        BY <2>1
    <2>3. DEFINE last == IF q[n] \in T THEN g[n - 1] ELSE Append(g[n - 1], q[n])
                 h == [i \in 0..n |-> IF i = n THEN last ELSE g[i]]
    <2>4. h[0] = <<>> /\ h[n] = last /\ h[n - 1] = g[n - 1]
        BY <1>2, <1>4, <2>1, <2>2, LeavesValues
    <2>5. \A i \in 1..(n - 1) : h[i] = IF q[i] \in T THEN h[i - 1]
                                       ELSE Append(h[i - 1], q[i])
        BY <1>2, <1>4, <2>1, <2>2, LeavesValues
    <2>6. Leaves(h, q, T, n)
        <3> HIDE DEF h, last
        <3>1. h = [i \in 0..n |-> h[i]]
            BY DEF h
        <3>2. \A i \in 0..n : h[i] = IF i = 0 THEN <<>>
                              ELSE IF q[i] \in T THEN h[i - 1]
                                                 ELSE Append(h[i - 1], q[i])
            BY <1>2, <1>4, <2>4, <2>5 DEF last
        <3>3. QED BY <3>1, <3>2 DEF Leaves
    <2>7. QED BY <1>2, <2>6
<1>5. QED BY <1>3, <1>4

(* module_cam_queue_flush leaves a part of the queue, in which nothing of  *)
(* T is left and nothing is twice if nothing was.                          *)
LEMMA FlushedLeaves ==
    ASSUME NEW S, NEW q \in Seq(S), NEW T
    PROVE  /\ Flushed(q, T) \in Seq(S)
           /\ Len(Flushed(q, T)) <= Len(q)
           /\ ToSet(Flushed(q, T)) \subseteq ToSet(q) \ T
           /\ NoTwice(q) => NoTwice(Flushed(q, T))
<1> DEFINE g == CHOOSE f : Leaves(f, q, T, Len(q))
<1>1. Leaves(g, q, T, Len(q))
    BY LeavesExists
<1>2. Flushed(q, T) = g[Len(q)]
    BY DEF Flushed, Leaves
<1> HIDE DEF g
<1>3. /\ g[0] = <<>>
      /\ \A i \in 1..Len(q) :
            g[i] = IF q[i] \in T THEN g[i - 1] ELSE Append(g[i - 1], q[i])
    BY <1>1, LeavesValues
<1> DEFINE good(n) ==
        /\ g[n] \in Seq(S)
        /\ Len(g[n]) <= n
        /\ \A i \in 1..Len(g[n]) :
              \E j \in 1..n : g[n][i] = q[j] /\ q[j] \notin T
        /\ NoTwice(q) => NoTwice(g[n])
    bad == {n \in 0..Len(q) : ~good(n)}
<1>4. good(0)
    BY <1>3 DEF NoTwice
<1>5. ASSUME NEW n \in 1..Len(q), good(n - 1)
      PROVE  good(n)
    <2>1. CASE q[n] \in T
        <3>1. g[n] = g[n - 1]
            BY <1>3, <2>1
        <3>2. QED BY <1>5, <3>1
    <2>2. CASE q[n] \notin T
        <3>1. g[n] = Append(g[n - 1], q[n]) /\ q[n] \in S
            <4>1. q[n] \in S
                BY ElementOfSeq
            <4>2. QED BY <1>3, <2>2, <4>1
        <3> DEFINE h == g[n - 1]
        <3>2. /\ h \in Seq(S)
              /\ Len(h) <= n - 1
              /\ \A i \in 1..Len(h) :
                    \E j \in 1..(n - 1) : h[i] = q[j] /\ q[j] \notin T
              /\ NoTwice(q) => NoTwice(h)
            BY <1>5
        <3> HIDE DEF h
        <3>3. /\ Append(h, q[n]) \in Seq(S)
              /\ Len(Append(h, q[n])) = Len(h) + 1
              /\ \A i \in 1..Len(h) : Append(h, q[n])[i] = h[i]
              /\ Append(h, q[n])[Len(h) + 1] = q[n]
            BY <3>1, <3>2
        <3>4. ASSUME NEW i \in 1..(Len(h) + 1)
              PROVE  \E j \in 1..n : Append(h, q[n])[i] = q[j] /\ q[j] \notin T
            <4>1. CASE i = Len(h) + 1
                BY <2>2, <3>3, <4>1
            <4>2. CASE i \in 1..Len(h)
                BY <3>2, <3>3, <4>2
            <4>3. QED BY <3>2, <4>1, <4>2
        <3>5. ASSUME NoTwice(q) PROVE NoTwice(Append(h, q[n]))
            <4>1. \A i \in 1..Len(h) : h[i] # q[n]
                BY <3>2, <3>5 DEF NoTwice
            <4>2. QED BY <3>2, <3>3, <3>5, <4>1 DEF NoTwice
        <3>6. g[n] = Append(h, q[n])
            BY <3>1 DEF h
        <3>7. QED BY <3>2, <3>3, <3>4, <3>5, <3>6
    <2>3. QED BY <2>1, <2>2
<1> HIDE DEF good
<1>6. bad = {}
    <2>1. SUFFICES ASSUME bad # {} PROVE FALSE
        OBVIOUS
    <2> bad \in SUBSET Nat
        OBVIOUS
    <2>2. PICK n \in bad : \A m \in bad : n <= m
        <3> HIDE DEF bad
        <3>1. QED BY <2>1, HasLeast
    <2>3. n # 0
        BY <1>4, <2>2
    <2>4. n \in 1..Len(q) /\ good(n - 1)
        BY <2>2, <2>3
    <2>5. QED BY <1>5, <2>2, <2>4
<1>7. good(Len(q))
    BY <1>6
<1>8. QED BY <1>2, <1>7 DEF good, ToSet

(* module_cam_queue_pop: what is left, and the packet that is next.        *)
LEMMA Popped ==
    ASSUME NEW S, NEW q \in Seq(S), q # <<>>
    PROVE  /\ Head(q) \in S
           /\ Tail(q) \in Seq(S)
           /\ Len(Tail(q)) = Len(q) - 1
           /\ NoTwice(q) => NoTwice(Tail(q)) /\ Head(q) \notin ToSet(Tail(q))
<1>1. /\ Head(q) \in S /\ Tail(q) \in Seq(S)
      /\ Len(q) \in Nat /\ Len(q) > 0
      /\ Len(Tail(q)) = Len(q) - 1
      /\ \A i \in 1..Len(Tail(q)) : Tail(q)[i] = q[i + 1]
    BY HeadTailProperties, EmptySeq
<1>2. Head(q) = q[1]
    BY <1>1
<1>3. ASSUME NoTwice(q) PROVE NoTwice(Tail(q))
    BY <1>1, <1>3 DEF NoTwice
<1>4. ASSUME NoTwice(q) PROVE Head(q) \notin ToSet(Tail(q))
    <2>1. \A i \in 1..Len(Tail(q)) : Tail(q)[i] # q[1]
        BY <1>1, <1>4 DEF NoTwice
    <2>2. DOMAIN Tail(q) = 1..Len(Tail(q))
        BY <1>1, LenProperties
    <2>3. QED BY <1>2, <2>1, <2>2 DEF ToSet
<1>5. QED BY <1>1, <1>3, <1>4

(* A packet at the end of the queue.                                       *)
LEMMA Appended ==
    ASSUME NEW S, NEW q \in Seq(S), NEW p \in S, p \notin ToSet(q)
    PROVE  /\ Append(q, p) \in Seq(S)
           /\ Len(Append(q, p)) = Len(q) + 1
           /\ ToSet(Append(q, p)) \subseteq ToSet(q) \cup {p}
           /\ NoTwice(q) => NoTwice(Append(q, p))
<1>1. /\ Append(q, p) \in Seq(S) /\ Len(q) \in Nat
      /\ Len(Append(q, p)) = Len(q) + 1
      /\ \A i \in 1..Len(q) : Append(q, p)[i] = q[i]
      /\ Append(q, p)[Len(q) + 1] = p
    OBVIOUS
<1>2. DOMAIN q = 1..Len(q) /\ DOMAIN Append(q, p) = 1..(Len(q) + 1)
    BY <1>1, LenProperties
<1>3. \A i \in 1..Len(q) : q[i] # p
    BY <1>2 DEF ToSet
<1>4. ASSUME NoTwice(q) PROVE NoTwice(Append(q, p))
    BY <1>1, <1>3, <1>4 DEF NoTwice
<1>5. ASSUME NEW i \in 1..(Len(q) + 1)
      PROVE  Append(q, p)[i] \in ToSet(q) \cup {p}
    <2>1. CASE i = Len(q) + 1
        BY <1>1, <2>1
    <2>2. CASE i \in 1..Len(q)
        BY <1>1, <1>2, <2>2 DEF ToSet
    <2>3. QED BY <1>1, <2>1, <2>2
<1>6. QED BY <1>1, <1>2, <1>4, <1>5 DEF ToSet

(* An id that is not in use: there are more than packets that can be.      *)
LEMMA FreshIdIsFresh ==
    ASSUME Packets
    PROVE  /\ FreshId \in 0..(MaxQueue + 1)
           /\ \A p \in Allocated : p.id # FreshId
<1> DEFINE Ids == 0..(MaxQueue + 1)
           Places == 0..MaxQueue
           At(i) == IF packet # NoPacket /\ packet.id = i THEN 0
                    ELSE CHOOSE k \in 1..Len(queue) : queue[k].id = i
           place == [i \in Ids |-> At(i)]
<1>1. MaxQueue \in Nat /\ Len(queue) \in Nat /\ Len(queue) <= MaxQueue
    BY NewcamdAssumption DEF Packets
<1>2. ToSet(queue) = {queue[k] : k \in 1..Len(queue)}
    BY LenProperties DEF Packets, ToSet
<1>3. \E i \in Ids : \A p \in Allocated : p.id # i
    <2>1. SUFFICES ASSUME \A i \in Ids : \E p \in Allocated : p.id = i
                   PROVE  FALSE
        OBVIOUS
    <2>2. ASSUME NEW i \in Ids
          PROVE  /\ At(i) \in Places
                 /\ At(i) = 0 => packet.id = i
                 /\ At(i) # 0 => queue[At(i)].id = i
        <3>1. PICK p \in Allocated : p.id = i
            BY <2>1
        <3>2. CASE packet # NoPacket /\ packet.id = i
            BY <1>1, <3>2
        <3>3. CASE ~(packet # NoPacket /\ packet.id = i)
            <4>1. \E k \in 1..Len(queue) : queue[k].id = i
                BY <1>2, <3>1, <3>3 DEF Allocated
            <4> DEFINE k == CHOOSE k \in 1..Len(queue) : queue[k].id = i
            <4>2. k \in 1..Len(queue) /\ queue[k].id = i
                BY <4>1
            <4>3. At(i) = k
                BY <3>3
            <4> HIDE DEF k, At
            <4>4. QED BY <1>1, <4>2, <4>3
        <3>4. QED BY <3>2, <3>3
    <2> HIDE DEF At
    <2>3. place \in [Ids -> Places]
        BY <2>2
    <2>4. \A i \in Ids : place[i] = At(i)
        OBVIOUS
    <2>5. /\ IsFiniteSet(Ids) /\ Cardinality(Ids) = MaxQueue + 2
          /\ IsFiniteSet(Places) /\ Cardinality(Places) = MaxQueue + 1
        BY <1>1, FS_Interval
    <2> HIDE DEF place, Ids, Places
    <2>6. PICK i, j \in Ids : i # j /\ place[i] = place[j]
        BY <1>1, <2>3, <2>5, FS_PigeonHole
    <2>7. QED BY <2>2, <2>4, <2>6
<1>4. QED BY <1>3 DEF FreshId

-------------------------------------------------------------------------------
(* The connection                                                          *)

(* the values of mod->status *)
LEMMA Statuses ==
    /\ -1 \in -1..3 /\ 0 \in -1..3 /\ 1 \in -1..3 /\ 2 \in -1..3 /\ 3 \in -1..3
    /\ 0 # 3 /\ 1 # 3 /\ 2 # 3 /\ -1 # 3
OBVIOUS

(* What is no packet cannot be one.                                        *)
LEMMA NoPacketIsNone == NoPacket \notin Packet
BY NewcamdAssumption DEF Packet

(* Without packets, what is said of packets holds.                         *)
LEMMA NothingQueued ==
    MaxQueue \in Nat /\ <<>> \in Seq(Packet) /\ Len(<<>>) <= MaxQueue
    /\ NoTwice(<<>>) /\ NoPacket \notin ToSet(<<>>)
BY NewcamdAssumption DEF NoTwice, ToSet

(* A cam begins without a socket, without users and without packets.       *)
LEMMA InitIInv == Init => IInv
<1> SUFFICES ASSUME Init PROVE IInv
    OBVIOUS
<1>1. Types
    BY NewcamdAssumption, Statuses DEF Init, Types
<1>2. Flags
    BY Zenon DEF Init, Flags
<1>3. Packets
    BY NothingQueued, Zenon DEF Init, Packets
<1>4. Phase /\ Watched /\ Quiet /\ AnswerFits /\ Known
    BY DEF Init, Phase, Watched, Quiet, AnswerFits, Known
<1>5. QED BY <1>1, <1>2, <1>3, <1>4 DEF IInv

(* A connection that ends takes every packet with it, and every decrypt    *)
(* module learns of it.                                                    *)
LEMMA Dropped ==
    ASSUME IInv, Drop, status' # 3, UNCHANGED users
    PROVE  /\ Packets' /\ Quiet' /\ AnswerFits' /\ Known'
           /\ told' \subseteq Decrypt
           /\ half' = FALSE
           /\ greeted' \in BOOLEAN /\ on_ready' \in BOOLEAN /\ garbled' \in BOOLEAN
           /\ is_ready' \in BOOLEAN /\ hello' \in BOOLEAN
<1>1. Packets'
    BY NothingQueued, Zenon DEF Drop, FreshStream, Packets
<1>2. Quiet' /\ AnswerFits'
    BY DEF Drop, FreshStream, Quiet, AnswerFits
<1>3. told' = {} /\ is_ready' = FALSE
    BY DEF IInv, Known, Drop
<1>4. Known'
    BY <1>3 DEF Known
<1>5. /\ half' = FALSE /\ greeted' \in BOOLEAN /\ on_ready' \in BOOLEAN
      /\ garbled' \in BOOLEAN /\ is_ready' \in BOOLEAN /\ hello' \in BOOLEAN
    BY Zenon DEF Drop, FreshStream
<1>6. QED BY <1>1, <1>2, <1>3, <1>4, <1>5

(* newcamd_reconnect *)
LEMMA ReconnectKeeps ==
    ASSUME IInv, ReconnectLater
    PROVE  IInv'
<1>1. /\ Drop /\ UNCHANGED <<lost, users>>
      /\ status' = 0 /\ sock' = "none" /\ timeout' = TRUE
    BY Zenon DEF ReconnectLater
<1>2. status' # 3 /\ UNCHANGED users
    BY <1>1
<1>3. /\ Packets' /\ Quiet' /\ AnswerFits' /\ Known'
      /\ told' \subseteq Decrypt
      /\ half' = FALSE
      /\ greeted' \in BOOLEAN /\ on_ready' \in BOOLEAN /\ garbled' \in BOOLEAN
      /\ is_ready' \in BOOLEAN /\ hello' \in BOOLEAN
    BY <1>1, <1>2, Dropped
<1>4. Types'
    BY <1>1, <1>3 DEF IInv, Types
<1>5. Flags'
    BY <1>1, <1>3, Zenon DEF Flags
<1>6. Phase' /\ Watched'
    BY <1>1, <1>3 DEF Phase, Watched
<1>7. QED BY <1>3, <1>4, <1>5, <1>6 DEF IInv

(* on_newcamd_close *)
LEMMA CloseKeeps ==
    ASSUME IInv, OnClose
    PROVE  IInv'
<1>1. /\ Drop /\ UNCHANGED <<lost, users>>
      /\ status' = -1 /\ sock' = "none" /\ timeout' = TRUE
    BY Zenon DEF OnClose
<1>2. status' # 3 /\ UNCHANGED users
    BY <1>1
<1>3. /\ Packets' /\ Quiet' /\ AnswerFits' /\ Known'
      /\ told' \subseteq Decrypt
      /\ half' = FALSE
      /\ greeted' \in BOOLEAN /\ on_ready' \in BOOLEAN /\ garbled' \in BOOLEAN
      /\ is_ready' \in BOOLEAN /\ hello' \in BOOLEAN
    BY <1>1, <1>2, Dropped
<1>4. Types'
    BY <1>1, <1>3 DEF IInv, Types
<1>5. Flags'
    BY <1>1, <1>3, Zenon DEF Flags
<1>6. Phase' /\ Watched'
    BY <1>1, <1>3 DEF Phase, Watched
<1>7. QED BY <1>3, <1>4, <1>5, <1>6 DEF IInv

(* on_timeout, of whichever timer *)
LEMMA TimeoutKeeps ==
    ASSUME IInv, OnTimeout
    PROVE  IInv'
<1>1. /\ UNCHANGED <<lost, users>>
      /\ status' = 0 /\ sock' \in {"connecting", "dead"} /\ timeout' = TRUE
    BY Zenon DEF OnTimeout, Connect
<1>2. /\ Packets' /\ Quiet' /\ AnswerFits' /\ Known'
      /\ told' \subseteq Decrypt
      /\ half' => greeted'
      /\ greeted' \in BOOLEAN /\ on_ready' \in BOOLEAN /\ garbled' \in BOOLEAN
      /\ is_ready' \in BOOLEAN /\ hello' \in BOOLEAN /\ half' \in BOOLEAN
    <2>1. CASE sock = "none"
        <3>1. UNCHANGED <<greeted, on_ready, half, garbled, hello, asked, packet,
                          queue, is_ready, told>>
            BY <2>1 DEF OnTimeout, stream, requests
        <3>2. status # 3
            BY <2>1 DEF IInv, Phase
        <3>3. Packets'
            BY <3>1 DEF IInv, Packets
        <3>4. Quiet' /\ AnswerFits'
            BY <1>1, <3>1, <3>2 DEF IInv, Quiet, AnswerFits
        <3>5. Known' /\ told' \subseteq Decrypt
            BY <1>1, <3>1, <3>2 DEF IInv, Known, Types
        <3>6. /\ half' => greeted'
              /\ greeted' \in BOOLEAN /\ on_ready' \in BOOLEAN
              /\ garbled' \in BOOLEAN /\ is_ready' \in BOOLEAN
              /\ hello' \in BOOLEAN /\ half' \in BOOLEAN
            BY <3>1, Zenon DEF IInv, Flags, Phase
        <3>7. QED BY <3>3, <3>4, <3>5, <3>6
    <2>2. CASE sock # "none"
        <3>1. Drop /\ status' # 3 /\ UNCHANGED users
            BY <1>1, <2>2 DEF OnTimeout
        <3>2. QED BY <3>1, Dropped, Zenon
    <2>3. QED BY <2>1, <2>2
<1>3. Types'
    BY <1>1, <1>2 DEF IInv, Types
<1>4. Flags'
    BY <1>1, <1>2, Zenon DEF Flags
<1>5. Phase' /\ Watched'
    BY <1>1, <1>2 DEF Phase, Watched
<1>6. QED BY <1>2, <1>3, <1>4, <1>5 DEF IInv

-------------------------------------------------------------------------------
(* The decrypt modules                                                     *)

(* module_cam_attach_decrypt *)
LEMMA AttachKeeps ==
    ASSUME IInv, NEW d \in Decrypt, Attach(d)
    PROVE  IInv'
<1>1. /\ UNCHANGED <<greeted, on_ready, half, garbled, hello, asked, is_ready,
                     packet, queue>>
      /\ users' = users \cup {d}
      /\ told' = IF is_ready THEN told \cup {d} ELSE told \ {d}
    BY DEF Attach, stream, requests
<1>2. Packets'
    BY <1>1 DEF IInv, Packets
<1>3. CASE sock = "none"
    <2>1. /\ status' = 0 /\ sock' \in {"connecting", "dead"} /\ timeout' = TRUE
          /\ lost' = IF timeout THEN lost + 1 ELSE lost
          /\ lost' <= MaxLost
        BY <1>3 DEF Attach, Connect
    <2>2. status # 3
        BY <1>3 DEF IInv, Phase
    <2>3. Types'
        BY <1>1, <2>1, NewcamdAssumption DEF IInv, Types
    <2>4. Flags'
        BY <1>1, <2>1, Zenon DEF IInv, Flags
    <2>5. Phase' /\ Watched'
        BY <1>1, <2>1 DEF IInv, Phase, Watched
    <2>6. Quiet' /\ AnswerFits'
        BY <1>1, <2>1, <2>2 DEF IInv, Quiet, AnswerFits
    <2>7. Known'
        BY <1>1, <2>1, <2>2 DEF IInv, Known
    <2>8. QED BY <1>2, <2>3, <2>4, <2>5, <2>6, <2>7 DEF IInv
<1>4. CASE sock # "none"
    <2>1. UNCHANGED <<status, sock, timeout, lost>>
        BY <1>4 DEF Attach
    <2>2. Types'
        BY <1>1, <2>1 DEF IInv, Types
    <2>3. Flags'
        BY <1>1, <2>1, Zenon DEF IInv, Flags
    <2>4. Phase' /\ Watched'
        BY <1>1, <1>4, <2>1 DEF IInv, Phase, Watched
    <2>5. Quiet' /\ AnswerFits'
        BY <1>1, <2>1 DEF IInv, Quiet, AnswerFits
    <2>6. Known'
        BY <1>1, <2>1 DEF IInv, Known
    <2>7. QED BY <1>2, <2>2, <2>3, <2>4, <2>5, <2>6 DEF IInv
<1>5. QED BY <1>3, <1>4

(* The packets of a decrypt module leave the queue.                        *)
LEMMA OthersKept ==
    ASSUME Packets, NEW d
    PROVE  /\ Others(d) \in Seq(Packet)
           /\ Len(Others(d)) <= MaxQueue
           /\ packet \notin ToSet(Others(d))
           /\ NoTwice(Others(d))
           /\ queue = <<>> => Others(d) = <<>>
<1>1. /\ Others(d) \in Seq(Packet)
      /\ Len(Others(d)) <= Len(queue)
      /\ ToSet(Others(d)) \subseteq ToSet(queue)
      /\ NoTwice(Others(d))
    BY FlushedLeaves DEF Packets, Others
<1>2. Len(queue) \in Nat /\ Len(Others(d)) \in Nat /\ MaxQueue \in Nat
    BY <1>1, NewcamdAssumption DEF Packets
<1>3. queue = <<>> => Others(d) = <<>>
    BY <1>1, <1>2, EmptySeq
<1>4. QED BY <1>1, <1>2, <1>3 DEF Packets

(* module_cam_detach_decrypt; the last one leaves nothing behind           *)
LEMMA DetachKeeps ==
    ASSUME IInv, NEW d \in Decrypt, Detach(d)
    PROVE  IInv'
<1>1. /\ d \in users /\ users' = users \ {d} /\ told' = told \ {d}
      /\ UNCHANGED lost
    BY DEF Detach
<1>2. CASE \/ DetachOne(d)
           \/ DetachLast(d) /\ sock = "none"
    <2>1. /\ queue' = Others(d)
          /\ UNCHANGED <<sock, greeted, on_ready, half, garbled, hello, asked,
                         timeout, is_ready, packet>>
          /\ status' = status \/ (users' = {} /\ sock = "none" /\ status' = -1)
        BY <1>1, <1>2 DEF DetachOne, DetachLast, stream
    <2>2. Packets'
        BY <2>1, OthersKept, Zenon DEF IInv, Packets
    <2>3. status' = 3 <=> status = 3
        BY <2>1 DEF IInv, Phase
    <2>4. Types'
        BY <1>1, <2>1 DEF IInv, Types
    <2>5. Flags'
        BY <2>1, Zenon DEF IInv, Flags
    <2>6. Phase' /\ Watched'
        BY <1>1, <2>1 DEF IInv, Phase, Watched
    <2>7. queue = <<>> => queue' = <<>>
        BY <2>1, OthersKept DEF IInv
    <2>8. Quiet'
        BY <2>1, <2>3, <2>7 DEF IInv, Quiet
    <2>9. AnswerFits'
        BY <2>1, <2>3, <2>7 DEF IInv, AnswerFits
    <2>10. Known'
        BY <1>1, <2>1, <2>3 DEF IInv, Known
    <2>11. QED BY <2>2, <2>4, <2>5, <2>6, <2>8, <2>9, <2>10 DEF IInv
<1>3. CASE DetachLast(d) /\ sock # "none"
    <2>1. /\ FreshStream /\ users = {d} /\ users' = {}
          /\ is_ready' = FALSE /\ packet' = NoPacket /\ queue' = <<>>
          /\ status' = 0 /\ sock' = "none" /\ timeout' = FALSE
        BY <1>1, <1>3 DEF DetachLast
    <2>2. Packets'
        BY <2>1, NothingQueued, Zenon DEF FreshStream, Packets
    <2>3. Types'
        BY <1>1, <2>1 DEF IInv, Types
    <2>4. Flags'
        BY <2>1, Zenon DEF FreshStream, Flags
    <2>5. Phase' /\ Watched' /\ Quiet' /\ AnswerFits'
        BY <2>1 DEF FreshStream, Phase, Watched, Quiet, AnswerFits
    <2>6. Known'
        BY <1>1, <2>1 DEF IInv, Known
    <2>7. QED BY <2>2, <2>3, <2>4, <2>5, <2>6 DEF IInv
<1>4. QED BY <1>2, <1>3 DEF Detach

(* newcamd_send_em: the packet that is new is in no place yet.             *)
LEMMA SendEmKeeps ==
    ASSUME IInv, NEW d \in Decrypt, NEW kind \in {"ecm", "emm"}, SendEm(d, kind)
    PROVE  IInv'
<1> DEFINE p == [decrypt |-> d, kind |-> kind, id |-> FreshId]
           T == {q \in ToSet(queue) : q.decrypt = d /\ q.kind = "ecm" /\ kind = "ecm"}
           kept == Flushed(queue, T)
<1>1. /\ status = 3
      /\ IF packet = NoPacket
         THEN packet' = p /\ queue' = kept /\ on_ready' = TRUE
         ELSE /\ Len(kept) < MaxQueue
              /\ queue' = Append(kept, p)
              /\ UNCHANGED <<packet, on_ready>>
      /\ UNCHANGED <<status, sock, greeted, half, garbled, hello, asked, timeout,
                     lost, is_ready, users, told>>
    BY DEF SendEm
<1>2. FreshId \in 0..(MaxQueue + 1) /\ \A q \in Allocated : q.id # FreshId
    BY FreshIdIsFresh DEF IInv
<1>3. p \in Packet /\ p \notin Allocated
    BY <1>2, Zenon DEF Packet
<1> HIDE DEF p, T
<1>4. /\ kept \in Seq(Packet)
      /\ Len(kept) <= Len(queue)
      /\ ToSet(kept) \subseteq ToSet(queue)
      /\ NoTwice(kept)
    BY FlushedLeaves DEF IInv, Packets
<1> HIDE DEF kept
<1>5. Len(queue) \in Nat /\ Len(kept) \in Nat /\ MaxQueue \in Nat
    BY <1>4, NewcamdAssumption DEF IInv, Packets
<1>6. p \notin ToSet(queue) /\ p # packet
    BY <1>3, NoPacketIsNone, Zenon DEF Allocated
<1>7. Types' /\ Phase' /\ Watched' /\ Quiet' /\ Known'
    BY <1>1 DEF IInv, Types, Phase, Watched, Quiet, Known
<1>8. CASE packet = NoPacket
    <2>1. Packets'
        BY <1>1, <1>3, <1>4, <1>5, <1>6, <1>8 DEF IInv, Packets
    <2>2. Flags'
        BY <1>1, <1>8, Zenon DEF IInv, Flags
    <2>3. queue = <<>> /\ asked = <<>>
        BY <1>1, <1>8 DEF IInv, AnswerFits
    <2>4. AnswerFits'
        BY <1>1, <1>3, <1>8, <2>3, NoPacketIsNone DEF AnswerFits
    <2>5. QED BY <1>7, <2>1, <2>2, <2>4 DEF IInv
<1>9. CASE packet # NoPacket
    <2>1. /\ queue' = Append(kept, p) /\ Len(kept) < MaxQueue
          /\ UNCHANGED <<packet, on_ready>>
        BY <1>1, <1>9
    <2>2. p \notin ToSet(kept)
        BY <1>4, <1>6
    <2>3. /\ Append(kept, p) \in Seq(Packet)
          /\ Len(Append(kept, p)) = Len(kept) + 1
          /\ ToSet(Append(kept, p)) \subseteq ToSet(kept) \cup {p}
          /\ NoTwice(Append(kept, p))
        BY <1>3, <1>4, <2>2, Appended
    <2>4. packet \notin ToSet(Append(kept, p))
        BY <1>4, <1>6, <2>3 DEF IInv, Packets
    <2>5. Len(Append(kept, p)) <= MaxQueue
        BY <1>5, <2>1, <2>3
    <2>6. Packets'
        BY <1>1, <2>1, <2>3, <2>4, <2>5, Zenon DEF IInv, Packets
    <2>7. Flags'
        BY <1>1, <2>1, Zenon DEF IInv, Flags
    <2>8. AnswerFits'
        BY <1>1, <1>9, <2>1 DEF IInv, AnswerFits
    <2>9. QED BY <1>7, <2>6, <2>7, <2>8 DEF IInv
<1>10. QED BY <1>8, <1>9

-------------------------------------------------------------------------------
(* The protocol                                                            *)

(* on_newcamd_connect, on_newcamd_read_init, and what is read of a message *)
(* without being understood                                                *)
LEMMA GreetKeeps ==
    ASSUME IInv, Connected \/ ReadInit \/ ReadEarly \/ ReadLength
    PROVE  IInv'
<1>1. UNCHANGED <<hello, asked, lost, is_ready, packet, queue, users, told>>
    BY DEF Connected, ReadInit, ReadEarly, ReadLength, requests
<1>2. Packets'
    BY <1>1 DEF IInv, Packets
<1>3. CASE Connected
    <2>1. /\ sock = "connecting" /\ sock' = "up" /\ status' = 1 /\ timeout' = TRUE
          /\ half' = FALSE /\ UNCHANGED <<greeted, on_ready, garbled>>
        BY <1>3 DEF Connected
    <2>2. status = 0
        BY <2>1 DEF IInv, Phase
    <2>3. Types' /\ Phase' /\ Watched' /\ Quiet' /\ AnswerFits' /\ Known'
        BY <1>1, <2>1, <2>2
            DEF IInv, Types, Phase, Watched, Quiet, AnswerFits, Known
    <2>4. Flags'
        BY <1>1, <2>1, Zenon DEF IInv, Flags
    <2>5. QED BY <1>2, <2>3, <2>4 DEF IInv
<1>4. CASE ReadInit
    <2>1. /\ ~greeted /\ greeted' = TRUE /\ on_ready' = TRUE
          /\ UNCHANGED <<status, sock, half, garbled, timeout>>
        BY <1>4 DEF ReadInit
    <2>2. status # 3
        BY <2>1 DEF IInv, Phase
    <2>3. Types' /\ Phase' /\ Watched' /\ Quiet' /\ AnswerFits' /\ Known'
        BY <1>1, <2>1, <2>2
            DEF IInv, Types, Phase, Watched, Quiet, AnswerFits, Known
    <2>4. Flags'
        BY <1>1, <2>1, Zenon DEF IInv, Flags
    <2>5. QED BY <1>2, <2>3, <2>4 DEF IInv
<1>5. CASE ReadEarly \/ ReadLength
    <2>1. /\ UNCHANGED <<status, sock, greeted, on_ready, timeout>>
          /\ half' => greeted
        BY <1>5 DEF ReadEarly, ReadLength, IInv, Phase
    <2>2. Types' /\ Phase' /\ Watched' /\ Quiet' /\ AnswerFits' /\ Known'
        BY <1>1, <2>1
            DEF IInv, Types, Phase, Watched, Quiet, AnswerFits, Known
    <2>3. Flags'
        BY <1>1, <1>5, Zenon DEF ReadEarly, ReadLength, IInv, Flags
    <2>4. QED BY <1>2, <2>2, <2>3 DEF IInv
<1>6. QED BY <1>3, <1>4, <1>5

(* on_newcamd_ready: what is sent is watched                               *)
LEMMA ReadyKeeps ==
    ASSUME IInv, Ready
    PROVE  IInv'
<1>1. /\ on_ready /\ on_ready' = FALSE /\ timeout' = TRUE /\ half' = FALSE
      /\ asked' = IF packet = NoPacket THEN asked ELSE Append(asked, packet)
      /\ UNCHANGED <<status, sock, greeted, lost, is_ready, packet, queue, users,
                     told>>
    BY DEF Ready, requests
<1>2. Types' /\ Phase' /\ Watched' /\ Known'
    BY <1>1 DEF IInv, Types, Phase, Watched, Known
<1>3. Flags'
    <2>1. hello' \in BOOLEAN /\ garbled' \in BOOLEAN
        BY Zenon DEF Ready, IInv, Flags
    <2>2. QED BY <1>1, <2>1, Zenon DEF IInv, Flags
<1>4. CASE packet = NoPacket
    <2>1. asked' = asked
        BY <1>1, <1>4
    <2>2. QED BY <1>1, <1>2, <1>3, <1>4, <2>1 DEF IInv, Packets, Quiet, AnswerFits
<1>5. CASE packet # NoPacket
    <2>1. status = 3 /\ asked = <<>>
        BY <1>1, <1>5 DEF IInv, Quiet, AnswerFits
    <2>2. asked' = <<packet>> /\ packet \in Packet
        BY <1>1, <1>5, <2>1 DEF IInv, Packets
    <2>3. asked' \in Seq(Packet)
        BY <2>2
    <2>4. Packets'
        BY <1>1, <2>3 DEF IInv, Packets
    <2>5. Quiet' /\ AnswerFits'
        BY <1>1, <1>5, <2>1, <2>2 DEF Quiet, AnswerFits
    <2>6. QED BY <1>2, <1>3, <2>4, <2>5 DEF IInv
<1>6. QED BY <1>4, <1>5

(* the answers to the login and to the request for the card                *)
LEMMA LoginKeeps ==
    ASSUME IInv, ReadLoginAck \/ ReadCard
    PROVE  IInv'
<1>1. /\ half /\ half' = FALSE /\ hello' = FALSE /\ status \in {1, 2}
      /\ UNCHANGED <<sock, greeted, garbled, lost, users, asked, packet, queue>>
      /\ sock = "up"
    BY DEF ReadLoginAck, ReadCard, Body, requests
<1>2. greeted /\ status # 3 /\ packet = NoPacket /\ queue = <<>> /\ asked = <<>>
    BY <1>1 DEF IInv, Phase, Quiet
<1>3. Packets'
    BY <1>1 DEF IInv, Packets
<1>4. Quiet' /\ AnswerFits'
    BY <1>1, <1>2 DEF Quiet, AnswerFits
<1>5. CASE ReadLoginAck
    <2>1. status' = 2 /\ on_ready' = TRUE /\ UNCHANGED <<timeout, is_ready, told>>
        BY <1>5 DEF ReadLoginAck
    <2>2. Types' /\ Phase' /\ Watched' /\ Known'
        BY <1>1, <1>2, <2>1 DEF IInv, Types, Phase, Watched, Known
    <2>3. Flags'
        BY <1>1, <2>1, Zenon DEF IInv, Flags
    <2>4. QED BY <1>3, <1>4, <2>2, <2>3 DEF IInv
<1>6. CASE ReadCard
    <2>1. /\ status' = 3 /\ timeout' = FALSE /\ is_ready' = TRUE
          /\ told' = told \cup users /\ UNCHANGED on_ready
        BY <1>6 DEF ReadCard
    <2>2. Types' /\ Phase' /\ Watched' /\ Known'
        BY <1>1, <1>2, <2>1 DEF IInv, Types, Phase, Watched, Known
    <2>3. Flags'
        BY <1>1, <2>1, Zenon DEF IInv, Flags
    <2>4. QED BY <1>3, <1>4, <2>2, <2>3 DEF IInv
<1>7. QED BY <1>5, <1>6

(* The answer to a request: it was the one request that was out, and the   *)
(* next packet is to be sent.                                              *)
LEMMA AnswerKeeps ==
    ASSUME IInv, ReadAnswer
    PROVE  IInv'
<1>1. /\ half' = FALSE /\ status = 3 /\ packet # NoPacket /\ asked # <<>>
      /\ asked' = Tail(asked) /\ timeout' = FALSE
      /\ UNCHANGED <<status, sock, greeted, garbled, lost, users, hello, is_ready,
                     told>>
      /\ NextPacket
    BY DEF ReadAnswer, Body
<1>2. ~on_ready /\ asked = <<packet>>
    BY <1>1 DEF IInv, AnswerFits
<1>3. asked' = <<>>
    BY <1>1, <1>2
<1>4. Types' /\ Phase' /\ Watched' /\ Quiet' /\ Known'
    BY <1>1, <1>3 DEF IInv, Types, Phase, Watched, Quiet, Known
<1>5. CASE queue = <<>>
    <2>1. packet' = NoPacket /\ queue' = <<>> /\ UNCHANGED on_ready
        BY <1>1, <1>5 DEF NextPacket
    <2>2. Packets'
        BY <1>3, <2>1, NothingQueued, Zenon DEF Packets
    <2>3. Flags'
        BY <1>1, <2>1, Zenon DEF IInv, Flags
    <2>4. AnswerFits'
        BY <1>3, <2>1 DEF AnswerFits
    <2>5. QED BY <1>4, <2>2, <2>3, <2>4 DEF IInv
<1>6. CASE queue # <<>>
    <2>1. packet' = Head(queue) /\ queue' = Tail(queue) /\ on_ready' = TRUE
        BY <1>1, <1>6 DEF NextPacket
    <2>2. /\ Head(queue) \in Packet /\ Tail(queue) \in Seq(Packet)
          /\ Len(Tail(queue)) = Len(queue) - 1
          /\ NoTwice(Tail(queue)) /\ Head(queue) \notin ToSet(Tail(queue))
        BY <1>6, Popped, Zenon DEF IInv, Packets
    <2>3. Len(Tail(queue)) <= MaxQueue
        BY <2>2, NewcamdAssumption DEF IInv, Packets
    <2>4. Packets'
        BY <1>3, <2>1, <2>2, <2>3, NothingQueued, Zenon DEF Packets
    <2>5. Flags'
        BY <1>1, <2>1, Zenon DEF IInv, Flags
    <2>6. AnswerFits'
        BY <1>3, <2>1, <2>2, NoPacketIsNone DEF AnswerFits
    <2>7. QED BY <1>4, <2>4, <2>5, <2>6 DEF IInv
<1>7. QED BY <1>5, <1>6

(* keepalives, which are answered while no packet is out, and the rest     *)
LEMMA KeepaliveKeeps ==
    ASSUME IInv, ReadKeepalive \/ ReadIgnored
    PROVE  IInv'
<1>1. /\ half' = FALSE
      /\ UNCHANGED <<status, sock, greeted, garbled, lost, users, hello, asked,
                     timeout, is_ready, packet, queue, told>>
      /\ on_ready' = on_ready \/ packet = NoPacket
    BY DEF ReadKeepalive, ReadIgnored, Body, requests
<1>2. Types' /\ Packets' /\ Phase' /\ Watched' /\ Quiet' /\ Known'
    BY <1>1 DEF IInv, Types, Packets, Phase, Watched, Quiet, Known
<1>3. Flags'
    <2>1. on_ready' \in BOOLEAN
        BY Zenon DEF ReadKeepalive, ReadIgnored, IInv, Flags
    <2>2. QED BY <1>1, <2>1, Zenon DEF IInv, Flags
<1>4. AnswerFits'
    BY <1>1 DEF IInv, AnswerFits
<1>5. QED BY <1>2, <1>3, <1>4 DEF IInv

-------------------------------------------------------------------------------
(* Every step keeps the invariant. *)
LEMMA StepIInv == IInv /\ [Next]_vars => IInv'
<1> SUFFICES ASSUME IInv, [Next]_vars PROVE IInv'
    OBVIOUS
<1>1. CASE \E d \in Decrypt : Attach(d) \/ Detach(d)
    BY <1>1, AttachKeeps, DetachKeeps
<1>2. CASE \E d \in Decrypt, kind \in {"ecm", "emm"} : SendEm(d, kind)
    BY <1>2, SendEmKeeps
<1>3. CASE Connected \/ ReadInit \/ ReadEarly \/ ReadLength
    BY <1>3, GreetKeeps
<1>4. CASE Ready
    BY <1>4, ReadyKeeps
<1>5. CASE IoFails \/ ReadGarbled \/ ReadWrong
    BY <1>5, ReconnectKeeps DEF IoFails, ReadGarbled, ReadWrong
<1>6. CASE OnClose
    BY <1>6, CloseKeeps
<1>7. CASE ReadLoginAck \/ ReadCard
    BY <1>7, LoginKeeps
<1>8. CASE ReadAnswer
    BY <1>8, AnswerKeeps
<1>9. CASE ReadKeepalive \/ ReadIgnored
    BY <1>9, KeepaliveKeeps
<1>10. CASE Timeout \/ LostTimeout
    BY <1>10, TimeoutKeeps DEF Timeout, LostTimeout
<1>11. CASE UNCHANGED vars
    BY <1>11 DEF vars, stream, requests, IInv, Types, Flags, Packets, Phase, Watched,
        Quiet, AnswerFits, Known
<1>12. QED BY <1>1, <1>2, <1>3, <1>4, <1>5, <1>6, <1>7, <1>8, <1>9, <1>10, <1>11
    DEF Next, Read

(* The invariant holds of every behaviour. *)
LEMMA Invariant == Spec => []IInv
BY InitIInv, StepIInv, PTL DEF Spec
-------------------------------------------------------------------------------
(* Types, and no packet is in two places: neither twice in the queue nor   *)
(* there and current, so that none is freed twice (cam.c:                  *)
(* module_cam_queue_pop, module_cam_queue_flush).                          *)
THEOREM TypesOK == Spec => []TypeOK
<1>1. IInv => TypeOK
    BY Zenon DEF IInv, Types, Flags, Packets, TypeOK
<1>2. QED BY <1>1, Invariant, PTL

(* No silence is endless: whenever the client waits for the server, or to  *)
(* try again for its users, a timer is set (newcamd.c: on_newcamd_ready,   *)
(* on_newcamd_close, newcamd_connect).                                     *)
THEOREM SilenceIsWatched == Spec => []Watched
<1>1. IInv => Watched
    BY DEF IInv
<1>2. QED BY <1>1, Invariant, PTL

(* An answer, which is not labelled, belongs to the packet that it is      *)
(* taken for, however many packets were queued, replaced or left behind by *)
(* decrypt modules that are gone (newcamd.c: on_newcamd_read_packet,       *)
(* newcamd_send_em).                                                       *)
THEOREM AnswersFit == Spec => []AnswerFits
<1>1. IInv => AnswerFits
    BY DEF IInv
<1>2. QED BY <1>1, Invariant, PTL

(* A decrypt module uses the cam exactly while it can serve it, whichever  *)
(* of the two came first, and packets exist only then (cam.c:              *)
(* module_cam_attach_decrypt, module_cam_ready, module_cam_reset).         *)
THEOREM ReadinessIsKnown == Spec => []ReadyIsKnown
<1>1. ASSUME IInv PROVE ReadyIsKnown
    <2>1. is_ready => sock = "up"
        BY <1>1 DEF IInv, Known, Phase, Types
    <2>2. Allocated # {} => is_ready
        <3>1. SUFFICES ASSUME status # 3 PROVE Allocated = {}
            BY <1>1 DEF IInv, Known
        <3>2. packet = NoPacket /\ queue = <<>>
            BY <1>1, <3>1 DEF IInv, Quiet
        <3>3. QED BY <3>2 DEF Allocated, ToSet
    <2>3. QED BY <1>1, <2>1, <2>2 DEF IInv, Known, ReadyIsKnown
<1>2. QED BY <1>1, Invariant, PTL
===============================================================================
