---------------------------- MODULE LoopCore_proofs ---------------------------
(***************************************************************************)
(* Proofs about the main loop.  About LoopCore, what its turns do: for any *)
(* set of timers and events, all delays, any number of events in a batch,  *)
(* and whatever callbacks do.  About Lifecycle, in the second half, how it *)
(* comes and goes: for any number of signals and requests.  The two have   *)
(* no variable in common.                                                  *)
(***************************************************************************)
EXTENDS LoopCore, Lifecycle, SequenceTheorems, NaturalsInduction,
        WellFoundedInduction, TLAPS

(* no element is in q twice *)
NoTwice(q) == \A i, j \in 1..Len(q) : q[i] = q[j] => i = j

(* a list of elements of S, each there once *)
Good(l, S) ==
    /\ l \in [items : Seq(S), current : Nat]
    /\ l.current <= Len(l.items)
    /\ NoTwice(l.items)

Slot == [callback : BOOLEAN, interval : Interval \cup {0}, next_shot : Nat]

Clocks ==
    /\ clock \in 0..MaxTime
    /\ now \in 0..clock
    /\ started \in 0..clock
    /\ nearest \in 0..Never
    /\ ev_sleep \in {0} \cup DelayMin..DelayMax
    /\ walk \in {"idle", "walk", "callback"}
    /\ this \in Timer \cup {NoTimer}
    /\ walk # "idle" => started <= now

(* A timer that is set is in the list, and the list is read within bounds: *)
(* at the timer that is called, while it is.                               *)
SetIn(l, tms) ==
    /\ tms \in [Timer -> Slot]
    /\ Good(l, Timer)
    /\ \A t \in Timer : tms[t].callback => t \in Elements(l)

Slots ==
    /\ SetIn(timer_list, timer)
    /\ walk = "callback" => /\ timer_list.current < Len(timer_list.items)
                            /\ timer_list.items[timer_list.current + 1] = this

(* What the walk has behind it and is still set fires after the walk began *)
(* and not before the nearest deadline so far.                             *)
Passed(l, tms, n) ==
    \A i \in 1..l.current :
        tms[l.items[i]].callback => /\ tms[l.items[i]].next_shot > started
                                    /\ n <= tms[l.items[i]].next_shot

Walked == walk # "idle" => Passed(timer_list, timer, nearest)

TimerInv == Clocks /\ Slots /\ Walked

EventTypes ==
    /\ event \in [Event -> SUBSET Kind]
    /\ Good(event_list, Event)
    /\ is_changed \in BOOLEAN
    /\ batch \in Seq(Event \X SUBSET Kind)
    /\ calling \in Event \cup {NoEvent}
    /\ dispatch \in {"idle", "batch", "callback", "destroy"}

AllExist == \A i \in 1..Len(batch) : batch[i][1] \in Elements(event_list)

(* While a callback runs, the rest of the batch is good as long as nothing *)
(* has changed.                                                            *)
Reliable ==
    /\ dispatch = "batch" => batch = <<>> \/ (is_changed = FALSE /\ AllExist)
    /\ dispatch = "callback" => is_changed = TRUE \/ AllExist

EventInv == EventTypes /\ Reliable

(* Each of the two loops runs in its turn only.                            *)
Turns ==
    /\ turn \in {"events", "jobs", "timers", "stopped"}
    /\ walk # "idle" => turn = "timers"
    /\ dispatch \in {"batch", "callback"} => turn = "events"

IInv == TimerInv /\ EventInv /\ Turns
-------------------------------------------------------------------------------
(* Lists                                                                   *)

(* the elements of a list, by their positions *)
LEMMA ElementsOf ==
    ASSUME NEW S, NEW l, Good(l, S)
    PROVE  /\ l.items \in Seq(S) /\ l.current \in Nat /\ Len(l.items) \in Nat
           /\ DOMAIN l.items = 1..Len(l.items)
           /\ Elements(l) = {l.items[i] : i \in 1..Len(l.items)}
           /\ Elements(l) \subseteq S
           /\ \A i \in 1..Len(l.items) : l.items[i] \in S
<1>1. l.items \in Seq(S) /\ l.current \in Nat
    BY DEF Good
<1>2. /\ Len(l.items) \in Nat /\ DOMAIN l.items = 1..Len(l.items)
      /\ \A i \in 1..Len(l.items) : l.items[i] \in S
    BY <1>1, LenProperties, ElementOfSeq
<1>3. QED BY <1>1, <1>2 DEF Elements

(* A list without elements. *)
LEMMA EmptyGood ==
    ASSUME NEW S
    PROVE  Good(EmptyList, S) /\ Elements(EmptyList) = {}
BY DEF Good, EmptyList, Elements, NoTwice

(* asc_list_first *)
LEMMA FirstGood ==
    ASSUME NEW S, NEW l, Good(l, S)
    PROVE  Good(First(l), S) /\ First(l).items = l.items /\ First(l).current = 0
BY DEF Good, First

(* asc_list_next *)
LEMMA AdvanceGood ==
    ASSUME NEW S, NEW l, Good(l, S), l.current < Len(l.items)
    PROVE  /\ Good(Advance(l), S)
           /\ Advance(l).items = l.items /\ Advance(l).current = l.current + 1
BY ElementsOf DEF Good, Advance, Count

(* asc_list_insert_tail: what is new comes after everything else           *)
LEMMA InsertGood ==
    ASSUME NEW S, NEW l, Good(l, S), NEW x \in S, x \notin Elements(l)
    PROVE  /\ Good(InsertTail(l, x), S)
           /\ InsertTail(l, x).current = l.current
           /\ Len(InsertTail(l, x).items) = Len(l.items) + 1
           /\ \A i \in 1..Len(l.items) : InsertTail(l, x).items[i] = l.items[i]
           /\ InsertTail(l, x).items[Len(l.items) + 1] = x
           /\ Elements(InsertTail(l, x)) = Elements(l) \cup {x}
<1> DEFINE q == l.items
           r == Append(q, x)
<1>1. /\ q \in Seq(S) /\ l.current \in Nat /\ Len(q) \in Nat
      /\ Elements(l) = {q[i] : i \in 1..Len(q)}
    BY ElementsOf
<1>2. /\ InsertTail(l, x).items = r
      /\ InsertTail(l, x).current = l.current
      /\ InsertTail(l, x) \in [items : Seq(S), current : Nat]
    BY <1>1 DEF Good, InsertTail
<1>3. /\ r \in Seq(S) /\ Len(r) = Len(q) + 1
      /\ \A i \in 1..Len(q) : r[i] = q[i]
      /\ r[Len(q) + 1] = x
    BY <1>1
<1>4. \A i \in 1..Len(q) : q[i] # x
    BY <1>1
<1>5. NoTwice(q) /\ l.current <= Len(q)
    BY DEF Good
<1> HIDE DEF r, q
<1>6. NoTwice(r)
    BY <1>1, <1>3, <1>4, <1>5 DEF NoTwice
<1>7. Good(InsertTail(l, x), S)
    BY <1>1, <1>2, <1>3, <1>5, <1>6 DEF Good
<1>8. Elements(InsertTail(l, x)) = {r[i] : i \in 1..Len(r)}
    BY <1>2, <1>7, ElementsOf
<1>9. {r[i] : i \in 1..Len(r)} = {q[i] : i \in 1..Len(q)} \cup {x}
    BY <1>1, <1>3
<1>10. QED BY <1>1, <1>2, <1>3, <1>7, <1>8, <1>9 DEF q

(* A sequence without its k-th element. *)
LEMMA RemovedAt ==
    ASSUME NEW S, NEW q \in Seq(S), NEW k \in 1..Len(q)
    PROVE  /\ RemoveAt(q, k) \in Seq(S)
           /\ Len(RemoveAt(q, k)) = Len(q) - 1
           /\ \A i \in 1..(Len(q) - 1) :
                 RemoveAt(q, k)[i] = q[IF i < k THEN i ELSE i + 1]
<1> DEFINE a == SubSeq(q, 1, k - 1)
           b == SubSeq(q, k + 1, Len(q))
<1>1. Len(q) \in Nat /\ \A i \in 1..Len(q) : q[i] \in S
    BY LenProperties, ElementOfSeq
<1>2. /\ a \in Seq(S) /\ Len(a) = k - 1
      /\ \A i \in 1..(k - 1) : a[i] = q[i]
    BY <1>1, SubSeqProperties
<1>3. /\ b \in Seq(S) /\ Len(b) = Len(q) - k
      /\ \A i \in 1..(Len(q) - k) : b[i] = q[k + i]
    BY <1>1, SubSeqProperties
<1>4. RemoveAt(q, k) = a \o b
    BY DEF RemoveAt
<1> HIDE DEF a, b
<1>5. /\ a \o b \in Seq(S) /\ Len(a \o b) = Len(a) + Len(b)
      /\ \A i \in 1..(Len(a) + Len(b)) :
            (a \o b)[i] = IF i <= Len(a) THEN a[i] ELSE b[i - Len(a)]
    BY <1>2, <1>3, ConcatProperties
<1>6. ASSUME NEW i \in 1..(Len(q) - 1)
      PROVE  (a \o b)[i] = q[IF i < k THEN i ELSE i + 1]
    BY <1>1, <1>2, <1>3, <1>5
<1>7. QED BY <1>1, <1>2, <1>3, <1>4, <1>5, <1>6

(* asc_list_remove_index: the others stay, in their order, and the cursor  *)
(* on the element it was on, or on the next if that was removed            *)
LEMMA RemoveGood ==
    ASSUME NEW S, NEW l, Good(l, S), NEW k \in 0..(Len(l.items) - 1)
    PROVE  LET m == RemoveIndex(l, k)
           IN  /\ Good(m, S)
               /\ Len(m.items) = Len(l.items) - 1
               /\ \A i \in 1..(Len(l.items) - 1) :
                     m.items[i] = l.items[IF i <= k THEN i ELSE i + 1]
               /\ Elements(m) = Elements(l) \ {l.items[k + 1]}
               /\ l.current < Len(l.items) /\ k >= l.current
                     => m.current = l.current
<1> DEFINE q == l.items
           r == RemoveAt(q, k + 1)
           m == RemoveIndex(l, k)
<1>1. /\ q \in Seq(S) /\ l.current \in Nat /\ Len(q) \in Nat
      /\ Elements(l) = {q[i] : i \in 1..Len(q)}
      /\ NoTwice(q) /\ l.current <= Len(q)
    BY ElementsOf DEF Good
<1>2. k \in Nat /\ k + 1 \in 1..Len(q)
    BY <1>1
<1>3. /\ r \in Seq(S) /\ Len(r) = Len(q) - 1
      /\ \A i \in 1..(Len(q) - 1) : r[i] = q[IF i < k + 1 THEN i ELSE i + 1]
    BY <1>1, <1>2, RemovedAt
<1>4. m.items = r
    BY DEF RemoveIndex
<1>5. /\ m.current \in Nat /\ m.current <= Len(q) - 1
      /\ l.current < Len(q) /\ k >= l.current => m.current = l.current
      /\ m = [items |-> m.items, current |-> m.current]
    BY <1>1, <1>2 DEF RemoveIndex, Count
<1> HIDE DEF m, r, q
<1> DEFINE pos(i) == IF i < k + 1 THEN i ELSE i + 1
<1>6. /\ \A i \in 1..(Len(q) - 1) : pos(i) \in 1..Len(q) /\ pos(i) # k + 1
      /\ \A i, j \in 1..(Len(q) - 1) : pos(i) = pos(j) => i = j
    BY <1>1, <1>2
<1>7. \A i \in 1..(Len(q) - 1) : r[i] = q[pos(i)]
    BY <1>3
<1> HIDE DEF pos
<1>8. NoTwice(r)
    <2>1. SUFFICES ASSUME NEW i \in 1..Len(r), NEW j \in 1..Len(r), r[i] = r[j]
                   PROVE  i = j
        BY DEF NoTwice
    <2>2. i \in 1..(Len(q) - 1) /\ j \in 1..(Len(q) - 1)
        BY <1>3
    <2>3. q[pos(i)] = q[pos(j)]
        BY <1>7, <2>1, <2>2
    <2>4. pos(i) = pos(j)
        BY <1>1, <1>6, <2>2, <2>3 DEF NoTwice
    <2>5. QED BY <1>6, <2>2, <2>4
<1>9. m \in [items : Seq(S), current : Nat]
    BY <1>3, <1>4, <1>5
<1>10. Good(m, S)
    BY <1>3, <1>4, <1>5, <1>8, <1>9 DEF Good
<1>11. Elements(m) = {r[i] : i \in 1..Len(r)}
    BY <1>4, <1>10, ElementsOf
<1>12. {r[i] : i \in 1..Len(r)} = {q[i] : i \in 1..Len(q)} \ {q[k + 1]}
    <2>1. ASSUME NEW i \in 1..Len(r)
          PROVE  \E j \in 1..Len(q) : r[i] = q[j] /\ j # k + 1
        <3>1. i \in 1..(Len(q) - 1)
            BY <1>3
        <3>2. QED BY <1>6, <1>7, <3>1
    <2>2. ASSUME NEW j \in 1..Len(q), j # k + 1
          PROVE  \E i \in 1..Len(r) : r[i] = q[j]
        <3>1. CASE j < k + 1
            BY <1>1, <1>2, <1>3, <3>1
        <3>2. CASE j > k + 1
            <4>1. j - 1 \in 1..Len(r) /\ r[j - 1] = q[j]
                BY <1>1, <1>2, <1>3, <3>2
            <4>2. QED BY <4>1
        <3>3. QED BY <1>2, <2>2, <3>1, <3>2
    <2>3. \A j \in 1..Len(q) : q[j] = q[k + 1] => j = k + 1
        BY <1>1, <1>2 DEF NoTwice
    <2>4. QED BY <1>2, <2>1, <2>2, <2>3
<1>13. ASSUME NEW i \in 1..(Len(q) - 1)
       PROVE  m.items[i] = q[IF i <= k THEN i ELSE i + 1]
    BY <1>1, <1>2, <1>3, <1>4
<1>14. QED BY <1>1, <1>3, <1>4, <1>5, <1>10, <1>11, <1>12, <1>13 DEF m, q

(* A set of numbers has a least one. *)
LEMMA HasLeast ==
    ASSUME NEW S \in SUBSET Nat, S # {}
    PROVE  \E x \in S : \A y \in S : x <= y
<1> DEFINE less == OpToRel(<, Nat)
<1>1. IsWellFoundedOn(less, Nat)
    BY NatLessThanWellFounded
<1>2. \A x, y \in Nat : y < x => <<y, x>> \in less
    BY Zenon DEF OpToRel
<1> HIDE DEF less
<1>3. PICK x \in S : \A y \in S : ~(<<y, x>> \in less)
    BY <1>1, WFMin, Zenon
<1>4. S \subseteq Nat /\ \A y \in S : ~(y < x)
    BY <1>2, <1>3, Zenon
<1>5. QED BY <1>4

(* asc_list_remove_item: of the elements, x goes *)
LEMMA RemoveItemGood ==
    ASSUME NEW S, NEW l, Good(l, S), NEW x
    PROVE  Good(RemoveItem(l, x), S) /\ Elements(RemoveItem(l, x)) = Elements(l) \ {x}
<1> DEFINE at == {i \in DOMAIN l.items : l.items[i] = x}
<1>1. /\ Len(l.items) \in Nat /\ DOMAIN l.items = 1..Len(l.items)
      /\ Elements(l) = {l.items[i] : i \in 1..Len(l.items)}
    BY ElementsOf
<1>2. CASE at = {}
    <2>1. RemoveItem(l, x) = l
        BY <1>2 DEF RemoveItem
    <2>2. x \notin Elements(l)
        BY <1>1, <1>2
    <2>3. QED BY <2>1, <2>2
<1>3. CASE at # {}
    <2> DEFINE n == CHOOSE i \in at : \A j \in at : i <= j
    <2>1. at \in SUBSET Nat
        BY <1>1
    <2>2. n \in at
        <3> HIDE DEF at
        <3>1. QED BY <1>3, <2>1, HasLeast
    <2>3. RemoveItem(l, x) = RemoveIndex(l, n - 1)
        BY <1>3 DEF RemoveItem
    <2> HIDE DEF n
    <2>4. n - 1 \in 0..(Len(l.items) - 1) /\ l.items[(n - 1) + 1] = x
        BY <1>1, <2>2
    <2>5. QED BY <2>3, <2>4, RemoveGood
<1>4. QED BY <1>2, <1>3

-------------------------------------------------------------------------------
(* Timers                                                                  *)

(* the times that occur *)
LEMMA Times ==
    /\ MaxTime \in Nat /\ DelayMin \in Nat /\ DelayMax \in Nat
    /\ DelayMin <= DelayMax /\ Interval \subseteq Nat
    /\ Never \in Nat /\ Never > MaxTime + DelayMax
BY TimerAssumption DEF Never

(* A slot that is free, and one that is in use.                            *)
LEMMA FreeSlot == Free \in Slot /\ Free.callback = FALSE
<1>1. 0 \in Interval \cup {0} /\ 0 \in Nat
    OBVIOUS
<1>2. Free \in Slot
    BY <1>1, Zenon DEF Free, Slot
<1>3. QED BY <1>2 DEF Free

(* the fields of a slot *)
LEMMA SlotFields ==
    ASSUME NEW r \in Slot
    PROVE  /\ r.callback \in BOOLEAN
           /\ r.interval \in Interval \cup {0} /\ r.interval \in Nat
           /\ r.next_shot \in Nat
<1>1. r.interval \in Interval \cup {0} /\ r.next_shot \in Nat
    BY DEF Slot
<1>2. r.callback \in BOOLEAN
    BY Zenon DEF Slot
<1>3. r.interval \in Nat
    <2>1. Interval \cup {0} \subseteq Nat
        BY Times
    <2>2. QED BY <1>1, <2>1, Zenon
<1>4. QED BY <1>1, <1>2, <1>3, Zenon

(* The loop begins without timers, and does not walk. *)
LEMMA TimerInitInv ==
    ASSUME clock = 0, TimerInit
    PROVE  TimerInv
<1>1. Clocks
    BY Times DEF TimerInit, Clocks
<1>2. SetIn(timer_list, timer)
    <2>1. \A t \in Timer : timer[t] = Free
        BY DEF TimerInit
    <2>2. timer \in [Timer -> Slot]
        BY FreeSlot DEF TimerInit
    <2>3. QED BY <2>1, <2>2, FreeSlot, EmptyGood DEF TimerInit, SetIn
<1>3. Slots /\ Walked
    BY <1>2 DEF TimerInit, Slots, Walked
<1>4. QED BY <1>1, <1>3 DEF TimerInv

(* time passes *)
LEMMA TickKeepsTimers ==
    ASSUME TimerInv, Tick
    PROVE  TimerInv'
<1>1. /\ clock < MaxTime /\ clock' = clock + 1
      /\ UNCHANGED <<timer, timer_list, walk, this, now, nearest, started, ev_sleep>>
    BY DEF Tick, timerVars
<1>2. Clocks'
    BY <1>1, Times DEF TimerInv, Clocks
<1>3. Slots' /\ Walked'
    BY <1>1 DEF TimerInv, Slots, SetIn, Walked, Passed
<1>4. QED BY <1>2, <1>3 DEF TimerInv

(* asc_timer_init: the new timer comes after all that the walk has behind  *)
(* it                                                                      *)
LEMMA TimerCreateKeeps ==
    ASSUME TimerInv, NEW t \in Timer, NEW ms \in Interval, NEW one_shot \in BOOLEAN,
           TimerCreate(t, ms, one_shot)
    PROVE  TimerInv'
<1> DEFINE r == [callback |-> TRUE, interval |-> IF one_shot THEN 0 ELSE ms,
                 next_shot |-> clock + ms]
<1>1. /\ t \notin Elements(timer_list)
      /\ timer' = [timer EXCEPT ![t] = r]
      /\ timer_list' = InsertTail(timer_list, t)
      /\ UNCHANGED <<clock, walk, this, now, nearest, started, ev_sleep>>
    BY DEF TimerCreate, Allocated
<1>2. r \in Slot
    <2>1. clock + ms \in Nat
        BY Times DEF TimerInv, Clocks
    <2>2. (IF one_shot THEN 0 ELSE ms) \in Interval \cup {0}
        OBVIOUS
    <2>3. QED BY <2>1, <2>2, Zenon DEF Slot
<1> HIDE DEF r
<1>3. /\ timer \in [Timer -> Slot] /\ Good(timer_list, Timer)
      /\ \A u \in Timer : timer[u].callback => u \in Elements(timer_list)
    BY DEF TimerInv, Slots, SetIn
<1>4. timer' \in [Timer -> Slot] /\ \A u \in Timer : u # t => timer'[u] = timer[u]
    BY <1>1, <1>2, <1>3
<1>5. /\ Good(timer_list', Timer)
      /\ timer_list'.current = timer_list.current
      /\ Len(timer_list'.items) = Len(timer_list.items) + 1
      /\ \A i \in 1..Len(timer_list.items) : timer_list'.items[i] = timer_list.items[i]
      /\ Elements(timer_list') = Elements(timer_list) \cup {t}
    BY <1>1, <1>3, InsertGood
<1>6. /\ Len(timer_list.items) \in Nat /\ timer_list.current \in Nat
      /\ timer_list.current <= Len(timer_list.items)
      /\ \A i \in 1..Len(timer_list.items) :
            timer_list.items[i] \in Timer /\ timer_list.items[i] # t
    BY <1>1, <1>3, ElementsOf DEF Good
<1>7. Clocks'
    BY <1>1 DEF TimerInv, Clocks
<1>8. Slots'
    <2>1. \A u \in Timer : timer'[u].callback => u \in Elements(timer_list')
        BY <1>3, <1>4, <1>5
    <2>2. SetIn(timer_list, timer)'
        BY <1>4, <1>5, <2>1 DEF SetIn
    <2>3. ASSUME walk' = "callback"
          PROVE  /\ timer_list'.current < Len(timer_list'.items)
                 /\ timer_list'.items[timer_list'.current + 1] = this'
        <3>1. /\ timer_list.current < Len(timer_list.items)
              /\ timer_list.items[timer_list.current + 1] = this
            BY <1>1, <2>3 DEF TimerInv, Slots
        <3>2. timer_list.current + 1 \in 1..Len(timer_list.items)
            BY <1>6, <3>1
        <3>3. QED BY <1>1, <1>5, <1>6, <3>1, <3>2
    <2>4. QED BY <2>2, <2>3 DEF Slots
<1>9. Walked'
    <2>1. SUFFICES ASSUME walk # "idle", NEW i \in 1..timer_list.current,
                          timer'[timer_list'.items[i]].callback
                   PROVE  /\ timer'[timer_list'.items[i]].next_shot > started
                          /\ nearest <= timer'[timer_list'.items[i]].next_shot
        BY <1>1, <1>5 DEF Walked, Passed
    <2>2. i \in 1..Len(timer_list.items)
        BY <1>6
    <2>3. timer'[timer_list'.items[i]] = timer[timer_list.items[i]]
        BY <1>4, <1>5, <1>6, <2>2
    <2>4. QED BY <2>1, <2>3 DEF TimerInv, Walked, Passed
<1>10. QED BY <1>7, <1>8, <1>9 DEF TimerInv

(* asc_timer_destroy *)
LEMMA TimerDestroyKeeps ==
    ASSUME TimerInv, NEW t \in Timer, TimerDestroy(t)
    PROVE  TimerInv'
<1>1. /\ timer' = [timer EXCEPT ![t].callback = FALSE]
      /\ UNCHANGED <<clock, timer_list, walk, this, now, nearest, started, ev_sleep>>
    BY DEF TimerDestroy
<1>2. timer \in [Timer -> Slot] /\ Good(timer_list, Timer)
    BY DEF TimerInv, Slots, SetIn
<1> DEFINE r == [timer[t] EXCEPT !.callback = FALSE]
<1>3. r \in Slot
    BY <1>2, Zenon DEF Slot
<1>4. r.callback = FALSE
    BY <1>2 DEF Slot
<1>5. timer' = [timer EXCEPT ![t] = r]
    BY <1>1
<1> HIDE DEF r
<1>6. /\ timer' \in [Timer -> Slot] /\ timer'[t] = r
      /\ \A u \in Timer : u # t => timer'[u] = timer[u]
    BY <1>2, <1>3, <1>5
<1>7. \A u \in Timer : timer'[u].callback => timer'[u] = timer[u]
    BY <1>4, <1>6
<1>8. Clocks'
    BY <1>1 DEF TimerInv, Clocks
<1>9. Slots'
    BY <1>1, <1>6, <1>7 DEF TimerInv, Slots, SetIn
<1>10. Walked'
    <2>1. \A i \in 1..timer_list.current : timer_list.items[i] \in Timer
        BY <1>2, ElementsOf DEF Good
    <2>2. QED BY <1>1, <1>7, <2>1 DEF TimerInv, Walked, Passed
<1>11. QED BY <1>8, <1>9, <1>10 DEF TimerInv

(* The end of a visit: the timer is behind the walk, and fires later than  *)
(* the walk began, or it is gone.                                          *)
LEMMA EndVisitKeeps ==
    ASSUME NEW tms, SetIn(timer_list, tms), Passed(timer_list, tms, nearest),
           timer_list.current < Len(timer_list.items),
           nearest \in 0..Never, started \in Nat,
           tms[Current].callback => tms[Current].next_shot > started,
           EndVisit(Current, tms), UNCHANGED started
    PROVE  /\ SetIn(timer_list, timer)'
           /\ Passed(timer_list, timer, nearest)'
           /\ nearest' \in 0..Never
<1> DEFINE l == timer_list
           c == l.current
           t == l.items[c + 1]
<1>1. /\ Good(l, Timer) /\ tms \in [Timer -> Slot]
      /\ \A u \in Timer : tms[u].callback => u \in Elements(l)
    BY DEF SetIn
<1>2. /\ Len(l.items) \in Nat /\ c \in Nat /\ c + 1 \in 1..Len(l.items)
      /\ \A i \in 1..Len(l.items) : l.items[i] \in Timer
      /\ NoTwice(l.items)
    BY <1>1, ElementsOf DEF Good
<1>3. Current = t /\ t \in Timer
    BY <1>2 DEF Current, Data
<1>4. /\ \A u \in Timer : tms[u].next_shot \in Nat
      /\ Never \in Nat /\ nearest \in Nat
    BY <1>1, SlotFields, Times
<1>5. \A i \in 1..c : l.items[i] # t /\ l.items[i] \in Timer
    BY <1>2 DEF NoTwice
<1>6. CASE tms[t].callback
    <2>1. /\ timer' = tms /\ timer_list' = Advance(l)
          /\ nearest' = IF tms[t].next_shot < nearest THEN tms[t].next_shot
                                                      ELSE nearest
        BY <1>3, <1>6 DEF EndVisit, Visited, Current
    <2>2. /\ Good(Advance(l), Timer)
          /\ Advance(l).items = l.items /\ Advance(l).current = c + 1
        BY <1>1, AdvanceGood
    <2>3. Elements(Advance(l)) = Elements(l)
        BY <2>2 DEF Elements
    <2>4. SetIn(timer_list, timer)'
        BY <1>1, <2>1, <2>2, <2>3 DEF SetIn
    <2>5. /\ nearest' \in 0..Never /\ nearest' <= nearest
          /\ nearest' <= tms[t].next_shot
        BY <1>3, <1>4, <2>1
    <2>6. ASSUME NEW i \in 1..(c + 1), tms[l.items[i]].callback
          PROVE  /\ tms[l.items[i]].next_shot > started
                 /\ nearest' <= tms[l.items[i]].next_shot
        <3>1. CASE i = c + 1
            BY <1>3, <1>6, <2>5, <3>1
        <3>2. CASE i \in 1..c
            <4>1. /\ tms[l.items[i]].next_shot > started
                  /\ nearest <= tms[l.items[i]].next_shot
                BY <2>6, <3>2 DEF Passed
            <4>2. tms[l.items[i]].next_shot \in Nat
                BY <1>4, <1>5, <3>2
            <4>3. QED BY <1>4, <2>5, <4>1, <4>2
        <3>3. QED BY <1>2, <3>1, <3>2
    <2>7. Passed(timer_list, timer, nearest)'
        BY <2>1, <2>2, <2>6 DEF Passed
    <2>8. QED BY <2>4, <2>5, <2>7
<1>7. CASE ~tms[t].callback
    <2>1. /\ timer' = [tms EXCEPT ![t] = Free]
          /\ timer_list' = RemoveIndex(l, c)
          /\ nearest' = nearest
        BY <1>3, <1>7 DEF EndVisit, Visited, RemoveCurrent, Current
    <2>2. c \in 0..(Len(l.items) - 1)
        BY <1>2
    <2>3. /\ Good(timer_list', Timer)
          /\ Len(timer_list'.items) = Len(l.items) - 1
          /\ \A i \in 1..(Len(l.items) - 1) :
                timer_list'.items[i] = l.items[IF i <= c THEN i ELSE i + 1]
          /\ Elements(timer_list') = Elements(l) \ {t}
          /\ timer_list'.current = c
        <3> DEFINE m == RemoveIndex(l, c)
        <3>1. /\ Good(m, Timer)
              /\ Len(m.items) = Len(l.items) - 1
              /\ \A i \in 1..(Len(l.items) - 1) :
                    m.items[i] = l.items[IF i <= c THEN i ELSE i + 1]
              /\ Elements(m) = Elements(l) \ {l.items[c + 1]}
              /\ l.current < Len(l.items) /\ c >= l.current => m.current = l.current
            BY <1>1, <2>2, RemoveGood
        <3>2. timer_list' = m
            BY <2>1
        <3> HIDE DEF m, l
        <3>3. l.current < Len(l.items) /\ c >= l.current
            BY <1>2
        <3>4. QED BY <3>1, <3>2, <3>3
    <2>4. /\ timer' \in [Timer -> Slot] /\ timer'[t] = Free
          /\ \A u \in Timer : u # t => timer'[u] = tms[u]
        BY <1>1, <1>3, <2>1, FreeSlot
    <2>5. ASSUME NEW u \in Timer, timer'[u].callback
          PROVE  u \in Elements(timer_list')
        <3>1. u # t
            BY <2>4, <2>5, FreeSlot
        <3>2. QED BY <1>1, <2>3, <2>4, <2>5, <3>1
    <2>6. SetIn(timer_list, timer)'
        BY <2>3, <2>4, <2>5 DEF SetIn
    <2>7. ASSUME NEW i \in 1..c
          PROVE  timer'[timer_list'.items[i]] = tms[l.items[i]]
        <3>1. timer_list'.items[i] = l.items[i]
            <4>1. i \in 1..(Len(l.items) - 1) /\ i <= c
                BY <1>2
            <4>2. QED BY <2>3, <4>1
        <3>2. QED BY <1>5, <2>4, <3>1
    <2>8. Passed(timer_list, timer, nearest)'
        BY <2>1, <2>3, <2>7 DEF Passed
    <2>9. QED BY <2>1, <2>6, <2>8
<1>8. QED BY <1>6, <1>7

(* asc_timer_core_loop, up to and after a callback, and what it passes by  *)
LEMMA TimerWalkKeeps ==
    ASSUME TimerInv, TimerWalk
    PROVE  TimerInv'
<1>1. /\ SetIn(timer_list, timer) /\ Good(timer_list, Timer)
      /\ timer \in [Timer -> Slot]
    BY DEF TimerInv, Slots, SetIn
<1>2. CASE WalkStart
    <2>1. /\ walk' = "walk" /\ now' = clock /\ started' = clock /\ nearest' = Never
          /\ timer_list' = First(timer_list)
          /\ UNCHANGED <<clock, timer, this, ev_sleep>>
        BY <1>2 DEF WalkStart
    <2>2. /\ Good(timer_list', Timer) /\ timer_list'.items = timer_list.items
          /\ timer_list'.current = 0
        BY <1>1, <2>1, FirstGood
    <2>3. Clocks'
        BY <2>1, Times DEF TimerInv, Clocks
    <2>4. Elements(timer_list') = Elements(timer_list)
        BY <2>2 DEF Elements
    <2>5. Slots'
        BY <2>1, <2>2, <2>4 DEF TimerInv, Slots, SetIn
    <2>6. Walked'
        BY <2>2 DEF Walked, Passed
    <2>7. QED BY <2>3, <2>5, <2>6 DEF TimerInv
<1>3. CASE Fire
    <2>1. /\ walk = "walk" /\ walk' = "callback" /\ ~Eol(timer_list)
          /\ this' = Current
          /\ UNCHANGED <<clock, timer, timer_list, now, nearest, started, ev_sleep>>
        BY <1>3 DEF Fire
    <2>2. /\ timer_list.current < Len(timer_list.items)
          /\ Current \in Timer
          /\ Current = timer_list.items[timer_list.current + 1]
        BY <1>1, <2>1, ElementsOf DEF Eol, Count, Current, Data
    <2>3. Clocks' /\ Slots' /\ Walked'
        BY <2>1, <2>2 DEF TimerInv, Clocks, Slots, SetIn, Walked, Passed
    <2>4. QED BY <2>3 DEF TimerInv
<1>4. CASE CallbackReturn
    <2> DEFINE t == this
               r == Rescheduled(timer[t], clock)
               tms == [timer EXCEPT ![t] = r]
    <2>1. /\ walk = "callback" /\ walk' = "walk" /\ now' = clock
          /\ EndVisit(t, tms) /\ this' = NoTimer
          /\ UNCHANGED <<clock, started, ev_sleep>>
        BY <1>4 DEF CallbackReturn
    <2>2. /\ timer_list.current < Len(timer_list.items)
          /\ timer_list.items[timer_list.current + 1] = t
        BY <2>1 DEF TimerInv, Slots
    <2>3. /\ timer_list.current + 1 \in 1..Len(timer_list.items)
          /\ t \in Timer /\ t = Current
          /\ \A i \in 1..timer_list.current :
                timer_list.items[i] \in Timer /\ timer_list.items[i] # t
        BY <1>1, <2>2, ElementsOf DEF Good, NoTwice, Current, Data
    <2>4. /\ clock \in Nat /\ started \in Nat /\ started <= clock
          /\ nearest \in 0..Never
        BY Times DEF TimerInv, Clocks
    <2> HIDE DEF t
    <2>5. /\ r \in Slot
          /\ r.callback => timer[t].callback /\ r.next_shot > clock
        <3>1. /\ timer[t] \in Slot /\ timer[t].interval \in Nat
            BY <1>1, <2>3, SlotFields
        <3>2. CASE timer[t].interval > 0
            <4>1. r = [timer[t] EXCEPT !.next_shot = clock + timer[t].interval]
                BY <3>2 DEF Rescheduled
            <4>2. clock + timer[t].interval \in Nat
                BY <2>4, <3>1
            <4>3. r \in Slot
                BY <3>1, <4>1, <4>2, Zenon DEF Slot
            <4>4. r.next_shot = clock + timer[t].interval
                BY <3>1, <4>1 DEF Slot
            <4>5. r.callback = timer[t].callback
                BY <3>1, <4>1 DEF Slot
            <4>6. clock + timer[t].interval > clock
                BY <2>4, <3>1, <3>2
            <4>7. QED BY <4>3, <4>4, <4>5, <4>6
        <3>3. CASE ~(timer[t].interval > 0)
            <4>1. r = [timer[t] EXCEPT !.callback = FALSE]
                BY <3>3 DEF Rescheduled
            <4>2. r \in Slot
                BY <3>1, <4>1, Zenon DEF Slot
            <4>3. r.callback = FALSE
                BY <3>1, <4>1 DEF Slot
            <4>4. QED BY <4>2, <4>3
        <3>4. QED BY <3>2, <3>3
    <2> HIDE DEF r
    <2>6. /\ tms \in [Timer -> Slot] /\ tms[t] = r
          /\ \A u \in Timer : u # t => tms[u] = timer[u]
        BY <1>1, <2>3, <2>5
    <2> HIDE DEF tms
    <2>7. SetIn(timer_list, tms)
        BY <1>1, <2>3, <2>5, <2>6 DEF SetIn
    <2>8. Passed(timer_list, tms, nearest)
        <3>1. \A i \in 1..timer_list.current :
                 tms[timer_list.items[i]] = timer[timer_list.items[i]]
            BY <2>3, <2>6
        <3>2. Passed(timer_list, timer, nearest)
            BY <2>1 DEF TimerInv, Walked
        <3>3. QED BY <3>1, <3>2 DEF Passed
    <2>9. tms[Current].callback => tms[Current].next_shot > started
        <3>1. r.next_shot \in Nat
            BY <2>5, SlotFields
        <3>2. r.callback => r.next_shot > started
            BY <2>4, <2>5, <3>1
        <3>3. QED BY <2>3, <2>6, <3>2
    <2>10. /\ SetIn(timer_list, timer)' /\ nearest' \in 0..Never
           /\ Passed(timer_list, timer, nearest)'
        BY <2>1, <2>2, <2>3, <2>4, <2>7, <2>8, <2>9, EndVisitKeeps
    <2>11. Clocks'
        BY <2>1, <2>4, <2>10 DEF TimerInv, Clocks
    <2>12. Slots' /\ Walked'
        BY <2>1, <2>10 DEF Slots, Walked
    <2>13. QED BY <2>11, <2>12 DEF TimerInv
<1>5. CASE Pass
    <2>1. /\ walk = "walk" /\ ~Eol(timer_list) /\ ~Due(Current, now) /\ EndVisit(Current, timer)
          /\ UNCHANGED <<clock, walk, this, now, started, ev_sleep>>
        BY <1>5 DEF Pass
    <2>2. /\ timer_list.current < Len(timer_list.items)
          /\ Current \in Timer
        BY <1>1, <2>1, ElementsOf DEF Eol, Count, Current, Data
    <2>3. /\ now \in Nat /\ started \in Nat /\ started <= now
          /\ nearest \in 0..Never
        BY <2>1, Times DEF TimerInv, Clocks
    <2>4. timer[Current].callback => timer[Current].next_shot > started
        <3>1. timer[Current].next_shot \in Nat
            BY <1>1, <2>2, SlotFields
        <3>2. timer[Current].callback => ~(now >= timer[Current].next_shot)
            BY <2>1 DEF Due
        <3>3. QED BY <2>3, <3>1, <3>2
    <2>5. Passed(timer_list, timer, nearest)
        BY <2>1 DEF TimerInv, Walked
    <2>6. /\ SetIn(timer_list, timer)' /\ nearest' \in 0..Never
          /\ Passed(timer_list, timer, nearest)'
        BY <1>1, <2>1, <2>2, <2>3, <2>4, <2>5, EndVisitKeeps
    <2>7. Clocks'
        BY <2>1, <2>6 DEF TimerInv, Clocks
    <2>8. Slots' /\ Walked'
        BY <2>1, <2>6 DEF Slots, Walked
    <2>9. QED BY <2>7, <2>8 DEF TimerInv
<1>6. CASE WalkEnd
    <2>1. /\ walk' = "idle" /\ now' = 0 /\ nearest' = Never /\ started' = 0
          /\ ev_sleep' = Sleep(now, nearest)
          /\ UNCHANGED <<clock, timer, timer_list, this>>
        BY <1>6 DEF WalkEnd
    <2>2. /\ now \in Nat /\ nearest \in Nat /\ clock \in 0..MaxTime
          /\ this \in Timer \cup {NoTimer}
        BY Times DEF TimerInv, Clocks
    <2>3. Sleep(now, nearest) \in DelayMin..DelayMax
        BY <2>2, Times DEF Sleep
    <2>4. Clocks'
        BY <2>1, <2>2, <2>3, Times DEF Clocks
    <2>5. Slots' /\ Walked'
        BY <2>1 DEF TimerInv, Slots, SetIn, Walked
    <2>6. QED BY <2>4, <2>5 DEF TimerInv
<1>7. QED BY <1>2, <1>3, <1>4, <1>5, <1>6 DEF TimerWalk

-------------------------------------------------------------------------------
(* Events                                                                  *)

(* asc_event_init *)
LEMMA EventCreateKeeps ==
    ASSUME EventInv, dispatch # "batch", NEW e \in Event, EventCreate(e)
    PROVE  EventInv'
<1>1. /\ e \notin Elements(event_list)
      /\ event_list' = InsertTail(event_list, e)
      /\ is_changed' = TRUE
      /\ UNCHANGED <<event, batch, calling, dispatch>>
    BY DEF EventCreate, Exists
<1>2. Good(event_list', Event)
    BY <1>1, InsertGood DEF EventInv, EventTypes
<1>3. EventTypes'
    BY <1>1, <1>2 DEF EventInv, EventTypes
<1>4. Reliable'
    BY <1>1 DEF Reliable
<1>5. QED BY <1>3, <1>4 DEF EventInv

(* asc_event_subscribe *)
LEMMA EventSetKeeps ==
    ASSUME EventInv, NEW e \in Event, NEW k \in Kind, EventSet(e, k)
    PROVE  EventInv'
<1>1. /\ \/ event' = [event EXCEPT ![e] = @ \cup {k}]
         \/ event' = [event EXCEPT ![e] = @ \ {k}]
      /\ UNCHANGED <<event_list, is_changed, batch, calling, dispatch>>
    BY DEF EventSet
<1>2. event \in [Event -> SUBSET Kind]
    BY DEF EventInv, EventTypes
<1>3. event' \in [Event -> SUBSET Kind]
    BY <1>1, <1>2
<1>4. EventTypes'
    BY <1>1, <1>3 DEF EventInv, EventTypes
<1>5. Reliable'
    BY <1>1 DEF EventInv, Reliable, AllExist
<1>6. QED BY <1>4, <1>5 DEF EventInv

(* asc_event_close: the change is seen before the batch is used again      *)
LEMMA EventCloseKeeps ==
    ASSUME EventInv, dispatch # "batch", NEW e \in Event, EventClose(e)
    PROVE  EventInv'
<1>1. /\ event_list' = RemoveItem(event_list, e)
      /\ event' = [event EXCEPT ![e] = {}]
      /\ is_changed' = TRUE
      /\ UNCHANGED <<batch, calling, dispatch>>
    BY DEF EventClose
<1>2. Good(event_list', Event)
    BY <1>1, RemoveItemGood DEF EventInv, EventTypes
<1>3. event' \in [Event -> SUBSET Kind]
    BY <1>1 DEF EventInv, EventTypes
<1>4. EventTypes'
    BY <1>1, <1>2, <1>3 DEF EventInv, EventTypes
<1>5. Reliable'
    BY <1>1 DEF Reliable
<1>6. QED BY <1>4, <1>5 DEF EventInv

(* What callbacks and the rest of the program do to events. *)
LEMMA EventCallKeeps ==
    ASSUME EventInv, dispatch # "batch", EventCall
    PROVE  EventInv'
BY EventCreateKeeps, EventSetKeeps, EventCloseKeeps DEF EventCall

(* A poll reports events that exist.                                       *)
LEMMA PollKeeps ==
    ASSUME EventInv, Poll
    PROVE  EventInv'
<1>1. /\ is_changed' = FALSE /\ batch' \in Batches /\ dispatch' = "batch"
      /\ UNCHANGED <<event, event_list, calling>>
    BY DEF Poll
<1>2. PICK n \in 0..MaxBatch : batch' \in [1..n -> Elements(event_list) \X SUBSET Kind]
    BY <1>1 DEF Batches
<1>3. Elements(event_list) \subseteq Event
    BY ElementsOf DEF EventInv, EventTypes
<1>4. /\ n \in Nat
      /\ batch' \in [1..n -> Event \X SUBSET Kind]
    BY <1>2, <1>3, EventAssumption
<1>5. batch' \in Seq(Event \X SUBSET Kind) /\ Len(batch') = n
    BY <1>4
<1>6. AllExist'
    <2>1. \A i \in 1..n : batch'[i] \in Elements(event_list) \X SUBSET Kind
        BY <1>2
    <2>2. QED BY <1>1, <1>5, <2>1 DEF AllExist
<1>7. EventTypes'
    BY <1>1, <1>5 DEF EventInv, EventTypes
<1>8. Reliable'
    BY <1>1, <1>6 DEF Reliable
<1>9. QED BY <1>7, <1>8 DEF EventInv

(* The first event of the batch is called, or the loop goes on to the      *)
(* next.                                                                   *)
LEMMA DispatchKeeps ==
    ASSUME EventInv, Dispatch
    PROVE  EventInv'
<1> DEFINE Report == Event \X SUBSET Kind
           e == Head(batch)[1]
           happened == Head(batch)[2]
<1>1. /\ dispatch = "batch" /\ batch # <<>>
      /\ UNCHANGED <<event, event_list, is_changed>>
    BY DEF Dispatch
<1>2. batch \in Seq(Report) /\ is_changed = FALSE /\ AllExist
    BY <1>1 DEF EventInv, EventTypes, Reliable
<1>3. /\ Len(batch) \in Nat /\ Len(batch) > 0 /\ Head(batch) = batch[1]
      /\ Head(batch) \in Report
      /\ Tail(batch) \in Seq(Report) /\ Len(Tail(batch)) = Len(batch) - 1
      /\ \A i \in 1..(Len(batch) - 1) : Tail(batch)[i] = batch[i + 1]
    <2>1. Len(batch) \in Nat /\ Len(batch) > 0
        BY <1>1, <1>2, EmptySeq
    <2>2. QED BY <1>1, <1>2, <2>1, HeadTailProperties
<1>4. /\ \A i \in 1..Len(Tail(batch)) : Tail(batch)[i][1] \in Elements(event_list)
      /\ e \in Elements(event_list) /\ e \in Event /\ happened \in SUBSET Kind
    BY <1>2, <1>3 DEF AllExist
<1> HIDE DEF e, happened
<1>5. CASE batch' = Tail(batch) /\ UNCHANGED <<calling, dispatch>>
    <2>1. EventTypes'
        BY <1>1, <1>3, <1>5 DEF EventInv, EventTypes
    <2>2. Reliable'
        BY <1>1, <1>2, <1>4, <1>5 DEF Reliable, AllExist
    <2>3. QED BY <2>1, <2>2 DEF EventInv
<1>6. ASSUME NEW rest \in SUBSET happened,
             batch' = << <<e, rest>> >> \o Tail(batch),
             calling' = e, dispatch' = "callback"
      PROVE  EventInv'
    <2> DEFINE first == << <<e, rest>> >>
    <2>1. /\ first \in Seq(Report) /\ Len(first) = 1 /\ first[1] = <<e, rest>>
        BY <1>4, <1>6
    <2> HIDE DEF first
    <2>2. /\ batch' \in Seq(Report)
          /\ Len(batch') = 1 + Len(Tail(batch))
          /\ \A i \in 1..(1 + Len(Tail(batch))) :
                batch'[i] = IF i <= 1 THEN first[i] ELSE Tail(batch)[i - 1]
        BY <1>3, <1>6, <2>1, ConcatProperties DEF first
    <2>3. AllExist'
        <3>1. ASSUME NEW i \in 1..(1 + Len(Tail(batch)))
              PROVE  batch'[i][1] \in Elements(event_list)
            <4>1. CASE i = 1
                BY <1>4, <2>1, <2>2, <4>1
            <4>2. CASE i # 1
                <5>1. i - 1 \in 1..Len(Tail(batch)) /\ batch'[i] = Tail(batch)[i - 1]
                    BY <1>3, <2>2, <4>2
                <5>2. QED BY <1>4, <5>1
            <4>3. QED BY <4>1, <4>2
        <3>2. QED BY <1>1, <2>2, <3>1 DEF AllExist
    <2>4. EventTypes'
        BY <1>1, <1>4, <1>6, <2>2 DEF EventInv, EventTypes
    <2>5. Reliable'
        BY <1>6, <2>3 DEF Reliable
    <2>6. QED BY <2>4, <2>5 DEF EventInv
<1>7. \/ batch' = Tail(batch) /\ UNCHANGED <<calling, dispatch>>
      \/ \E rest \in SUBSET happened :
            /\ batch' = << <<e, rest>> >> \o Tail(batch)
            /\ calling' = e /\ dispatch' = "callback"
    BY Zenon DEF Dispatch, e, happened
<1>8. QED BY <1>5, <1>6, <1>7

(* A callback returns, or the batch is done.                               *)
LEMMA ReturnKeeps ==
    ASSUME EventInv, EventReturn \/ PollReturn
    PROVE  EventInv'
<1>1. CASE EventReturn
    <2>1. /\ dispatch = "callback" /\ calling' = NoEvent /\ dispatch' = "batch"
          /\ batch' = IF is_changed THEN <<>> ELSE batch
          /\ UNCHANGED <<event, event_list, is_changed>>
        BY <1>1 DEF EventReturn
    <2>2. batch' \in Seq(Event \X SUBSET Kind)
        BY <2>1 DEF EventInv, EventTypes
    <2>3. EventTypes'
        BY <2>1, <2>2 DEF EventInv, EventTypes
    <2>4. Reliable'
        <3>1. is_changed = TRUE \/ (is_changed = FALSE /\ AllExist)
            BY <2>1 DEF EventInv, EventTypes, Reliable
        <3>2. CASE is_changed = TRUE
            BY <2>1, <3>2 DEF Reliable
        <3>3. CASE is_changed = FALSE /\ AllExist
            BY <2>1, <3>3 DEF Reliable, AllExist
        <3>4. QED BY <3>1, <3>2, <3>3
    <2>5. QED BY <2>3, <2>4 DEF EventInv
<1>2. CASE PollReturn
    BY <1>2 DEF PollReturn, EventInv, EventTypes, Reliable
<1>3. QED BY <1>1, <1>2

(* One step of the dispatch. *)
LEMMA EventWalkKeeps ==
    ASSUME EventInv, EventWalk
    PROVE  EventInv'
BY PollKeeps, DispatchKeeps, ReturnKeeps DEF EventWalk

(* asc_event_core_destroy *)
LEMMA EventDestroyKeeps ==
    ASSUME EventInv, EventCoreDestroy \/ DestroyEvent
    PROVE  EventInv'
<1>1. CASE EventCoreDestroy
    BY <1>1 DEF EventCoreDestroy, EventInv, EventTypes, Reliable
<1>2. CASE DestroyEvent
    <2> DEFINE e == Head(event_list.items)
    <2>1. dispatch = "destroy" /\ event_list.items # <<>> /\ EventClose(e)
        BY <1>2 DEF DestroyEvent
    <2>2. e \in Event
        BY <2>1, HeadTailProperties, ElementsOf DEF EventInv, EventTypes
    <2>3. QED BY <2>1, <2>2, EventCloseKeeps
<1>3. QED BY <1>1, <1>2

(* Nothing of the events, or nothing of the timers, changes.               *)
LEMMA EventStutter ==
    ASSUME EventInv, UNCHANGED eventVars
    PROVE  EventInv'
BY DEF EventInv, EventTypes, Reliable, AllExist, eventVars

(* The timers do not notice what leaves their variables alone. *)
LEMMA TimerStutter ==
    ASSUME TimerInv, UNCHANGED <<clock, timerVars>>
    PROVE  TimerInv'
BY DEF TimerInv, Clocks, Slots, SetIn, Walked, Passed, timerVars

-------------------------------------------------------------------------------
(* The main loop                                                           *)

(* It begins with nothing to do. *)
LEMMA InitIInv == Init => IInv
<1> SUFFICES ASSUME Init PROVE IInv
    OBVIOUS
<1>1. TimerInv
    BY TimerInitInv DEF Init
<1>2. EventTypes
    <2>1. event \in [Event -> SUBSET Kind]
        BY DEF Init, EventInit
    <2>2. batch \in Seq(Event \X SUBSET Kind)
        BY EmptySeq, Zenon DEF Init, EventInit
    <2>3. Good(event_list, Event)
        BY EmptyGood DEF Init, EventInit
    <2>4. /\ is_changed \in BOOLEAN /\ calling \in Event \cup {NoEvent}
          /\ dispatch \in {"idle", "batch", "callback", "destroy"}
        BY Zenon DEF Init, EventInit
    <2>5. QED BY <2>1, <2>2, <2>3, <2>4, Zenon DEF EventTypes
<1>3. Reliable /\ Turns
    BY DEF Init, EventInit, TimerInit, Reliable, Turns
<1>4. QED BY <1>1, <1>2, <1>3 DEF IInv, EventInv

(* Every step keeps the invariant. *)
LEMMA StepIInv == IInv /\ [Next]_vars => IInv'
<1> SUFFICES ASSUME IInv, [Next]_vars PROVE IInv'
    OBVIOUS
<1>1. TimerInv /\ EventInv /\ Turns
    BY DEF IInv
<1>2. CASE Tick
    <2>1. UNCHANGED <<turn, eventVars>> /\ UNCHANGED <<walk, dispatch>>
        BY <1>2 DEF Tick, timerVars, eventVars
    <2>2. TimerInv' /\ EventInv' /\ Turns'
        BY <1>1, <1>2, <2>1, TickKeepsTimers, EventStutter DEF Turns
    <2>3. QED BY <2>2 DEF IInv
<1>3. CASE Callback
    <2>1. dispatch # "batch" /\ UNCHANGED turn
        BY <1>1, <1>3 DEF Callback, InCallback, Turns
    <2>2. CASE EventCall /\ UNCHANGED <<clock, timerVars>>
        <3>1. UNCHANGED <<walk, dispatch>>
            BY <2>2 DEF EventCall, EventCreate, EventSet, EventClose, timerVars
        <3>2. TimerInv' /\ EventInv' /\ Turns'
            BY <1>1, <2>1, <2>2, <3>1, EventCallKeeps, TimerStutter DEF Turns
        <3>3. QED BY <3>2 DEF IInv
    <2>3. CASE TimerCall /\ UNCHANGED eventVars
        <3>1. UNCHANGED <<walk, dispatch>>
            BY <2>3 DEF TimerCall, TimerCreate, TimerDestroy, eventVars
        <3>2. TimerInv'
            BY <1>1, <2>3, TimerCreateKeeps, TimerDestroyKeeps DEF TimerCall
        <3>3. EventInv' /\ Turns'
            BY <1>1, <2>1, <2>3, <3>1, EventStutter DEF Turns
        <3>4. QED BY <3>2, <3>3 DEF IInv
    <2>4. QED BY <1>3, <2>2, <2>3 DEF Callback
<1>4. CASE Events
    <2>1. /\ turn = "events" /\ EventWalk
          /\ turn' = IF dispatch # "idle" /\ dispatch' = "idle" THEN "jobs" ELSE turn
          /\ UNCHANGED <<clock, timerVars>> /\ UNCHANGED walk
        BY <1>4 DEF Events, timerVars
    <2>2. TimerInv' /\ EventInv'
        BY <1>1, <2>1, EventWalkKeeps, TimerStutter
    <2>3. Turns'
        BY <1>1, <2>1 DEF Turns
    <2>4. QED BY <2>2, <2>3 DEF IInv
<1>5. CASE JobsDone
    <2>1. /\ turn = "jobs" /\ turn' = "timers"
          /\ UNCHANGED <<clock, timerVars>> /\ UNCHANGED eventVars
          /\ UNCHANGED <<walk, dispatch>>
        BY <1>5 DEF JobsDone, timerVars, eventVars
    <2>2. TimerInv' /\ EventInv' /\ Turns'
        BY <1>1, <2>1, TimerStutter, EventStutter DEF Turns
    <2>3. QED BY <2>2 DEF IInv
<1>6. CASE Timers
    <2>1. /\ turn = "timers" /\ TimerWalk
          /\ turn' = IF walk # "idle" /\ walk' = "idle" THEN "events" ELSE turn
          /\ UNCHANGED eventVars /\ UNCHANGED dispatch
        BY <1>6 DEF Timers, eventVars
    <2>2. TimerInv' /\ EventInv'
        BY <1>1, <2>1, TimerWalkKeeps, EventStutter
    <2>3. walk = "idle" => walk' # "idle" \/ turn' = "timers"
        BY <2>1
    <2>4. Turns'
        BY <1>1, <2>1 DEF Turns
    <2>5. QED BY <2>2, <2>4 DEF IInv
<1>7. CASE turn = "events" /\ EventCoreDestroy /\ turn' = "stopped"
           /\ UNCHANGED <<clock, timerVars>>
    <2>1. dispatch' = "destroy" /\ UNCHANGED walk
        BY <1>7 DEF EventCoreDestroy, timerVars
    <2>2. TimerInv' /\ EventInv' /\ Turns'
        BY <1>1, <1>7, <2>1, EventDestroyKeeps, TimerStutter DEF Turns
    <2>3. QED BY <2>2 DEF IInv
<1>8. CASE turn = "stopped" /\ DestroyEvent /\ UNCHANGED <<turn, clock, timerVars>>
    <2>1. UNCHANGED <<dispatch, walk>>
        BY <1>8 DEF DestroyEvent, EventClose, timerVars
    <2>2. UNCHANGED <<clock, timerVars>>
        BY <1>8
    <2>3. TimerInv' /\ EventInv' /\ Turns'
        BY <1>1, <1>8, <2>1, <2>2, EventDestroyKeeps, TimerStutter DEF Turns
    <2>4. QED BY <2>3 DEF IInv
<1>9. CASE /\ turn = "stopped"
           /\ timer_list' = EmptyList
           /\ timer' = [t \in Timer |-> Free]
           /\ UNCHANGED <<turn, clock, walk, this, now, nearest, started, ev_sleep,
                          eventVars>>
    <2>1. walk = "idle"
        BY <1>1, <1>9 DEF Turns, TimerInv, Clocks
    <2>2. Clocks'
        BY <1>1, <1>9 DEF TimerInv, Clocks
    <2>3. SetIn(timer_list, timer)'
        <3>1. \A t \in Timer : timer'[t] = Free
            BY <1>9
        <3>2. timer' \in [Timer -> Slot]
            BY <1>9, FreeSlot
        <3>3. QED BY <1>9, <3>1, <3>2, FreeSlot, EmptyGood DEF SetIn
    <2>4. Slots' /\ Walked'
        BY <1>9, <2>1, <2>3 DEF Slots, Walked
    <2>5. EventInv' /\ Turns'
        BY <1>1, <1>9, EventStutter DEF Turns, eventVars
    <2>6. QED BY <2>2, <2>4, <2>5 DEF IInv, TimerInv
<1>10. CASE UNCHANGED vars
    BY <1>1, <1>10, TimerStutter, EventStutter DEF vars, timerVars, eventVars, IInv, Turns
<1>11. QED BY <1>2, <1>3, <1>4, <1>5, <1>6, <1>7, <1>8, <1>9, <1>10 DEF Next, Destroy

(* The invariant holds of every behaviour. *)
LEMMA Invariant == Spec => []IInv
BY InitIInv, StepIInv, PTL DEF Spec
-------------------------------------------------------------------------------
(* Types: the cursors stay within their lists, and the loop sleeps for     *)
(* nothing, or between TIMER_DELAY_MIN and TIMER_DELAY_MAX (timer.c:       *)
(* asc_timer_core_loop; list.c).                                           *)
THEOREM TypesOK == Spec => []TypeOK
<1>1. ASSUME IInv PROVE TypeOK
    <2>1. /\ Good(timer_list, Timer) /\ Good(event_list, Event)
          /\ timer \in [Timer -> Slot]
        BY <1>1 DEF IInv, TimerInv, Slots, SetIn, EventInv, EventTypes
    <2>2. IsList(timer_list, Timer) /\ IsList(event_list, Event)
        BY <2>1, ElementsOf DEF IsList, Good, Count
    <2>3. ASSUME NEW t \in Timer
          PROVE  /\ timer[t].callback \in BOOLEAN
                 /\ timer[t].interval \in Interval \cup {0}
                 /\ timer[t].next_shot \in Nat
        BY <2>1, SlotFields
    <2>4. TimerTypeOK
        BY <1>1, <2>2, <2>3, Zenon DEF IInv, TimerInv, Clocks, TimerTypeOK
    <2>5. Range(batch) \subseteq Event \X SUBSET Kind
        BY <1>1 DEF IInv, EventInv, EventTypes, Range
    <2>6. EventTypeOK
        BY <1>1, <2>2, <2>5, Zenon DEF IInv, EventInv, EventTypes, EventTypeOK
    <2>7. QED BY <1>1, <2>4, <2>6, Zenon DEF IInv, Turns, TypeOK
<1>2. QED BY <1>1, Invariant, PTL

(* When a callback returns, the cursor of the list is at the very timer    *)
(* that was called, which the walk goes on with through a pointer of its   *)
(* own: what leaves the list is what is freed, whatever timers the         *)
(* callback created and destroyed; and no slot that is set is out of the   *)
(* list or in it twice (timer.c: asc_timer_core_loop, asc_timer_destroy).  *)
THEOREM WalkStaysOnTimer == Spec => []WalkOnItsTimer
<1>1. ASSUME IInv PROVE WalkOnItsTimer
    <2>1. Good(timer_list, Timer)
        BY <1>1 DEF IInv, TimerInv, Slots, SetIn
    <2>2. DOMAIN timer_list.items = 1..Len(timer_list.items)
          /\ NoTwice(timer_list.items)
        BY <2>1, ElementsOf DEF Good
    <2>3. walk = "callback" => ~Eol(timer_list) /\ Current = this
        BY <1>1, <2>1, ElementsOf DEF IInv, TimerInv, Slots, Eol, Count, Current, Data
    <2>4. \A t \in Timer : timer[t].callback => Allocated(t)
        BY <1>1 DEF IInv, TimerInv, Slots, SetIn, Allocated
    <2>5. QED BY <2>2, <2>3, <2>4 DEF WalkOnItsTimer, NoTwice
<1>2. QED BY <1>1, Invariant, PTL

(* What a walk that is done has behind it is every timer.                  *)
LEMMA AllPassed ==
    ASSUME IInv, WalkDone, NEW t \in Timer, Armed(t)
    PROVE  /\ timer[t].next_shot \in Nat
           /\ timer[t].next_shot > started /\ nearest <= timer[t].next_shot
<1>1. Good(timer_list, Timer) /\ timer \in [Timer -> Slot]
    BY DEF IInv, TimerInv, Slots, SetIn
<1>2. /\ Len(timer_list.items) \in Nat
      /\ timer_list.current = Len(timer_list.items)
    BY <1>1, ElementsOf DEF WalkDone, Eol, Count, Good
<1>3. PICK i \in 1..Len(timer_list.items) : timer_list.items[i] = t
    BY <1>1, ElementsOf DEF Armed, Allocated
<1>4. timer[t].callback
    BY DEF Armed
<1>5. Passed(timer_list, timer, nearest)
    BY DEF IInv, TimerInv, Walked, WalkDone
<1>6. timer[t].next_shot > started /\ nearest <= timer[t].next_shot
    BY <1>2, <1>3, <1>4, <1>5 DEF Passed
<1>7. QED BY <1>1, <1>6, SlotFields

(* No timer that was due when a walk began is left waiting when it is      *)
(* done, however many timers its callbacks added and removed (timer.c:     *)
(* asc_timer_core_loop).                                                   *)
THEOREM WalkMissesNone == Spec => []NoTimerMissed
<1>1. IInv => NoTimerMissed
    BY AllPassed DEF NoTimerMissed
<1>2. QED BY <1>1, Invariant, PTL

(* The main loop never sleeps past a deadline, that of a timer which was   *)
(* created during the walk included (timer.c: asc_timer_core_loop).        *)
THEOREM SleepsNoLonger == Spec => []NoOversleep
<1>1. ASSUME IInv PROVE NoOversleep
    <2>1. SUFFICES ASSUME WalkDone, NEW t \in Timer, Armed(t)
                   PROVE  \/ now + Sleep(now, nearest) <= timer[t].next_shot
                          \/ Sleep(now, nearest) = DelayMin
        BY DEF NoOversleep
    <2> DEFINE shot == timer[t].next_shot
    <2>2. shot \in Nat /\ nearest <= shot
        BY <1>1, <2>1, AllPassed
    <2>3. now \in Nat /\ nearest \in Nat
        BY <1>1, Times DEF IInv, TimerInv, Clocks
    <2> HIDE DEF shot
    <2>4. now + Sleep(now, nearest) <= shot \/ Sleep(now, nearest) = DelayMin
        BY <2>2, <2>3, Times DEF Sleep
    <2>5. QED BY <2>4 DEF shot
<1>2. QED BY <1>1, Invariant, PTL

(* The dispatch loop never looks at an event that was closed, whatever the *)
(* callbacks of the batch closed and created (event-epoll.c:               *)
(* asc_event_core_loop, asc_event_close).                                  *)
THEOREM BatchIsFresh == Spec => []NoStaleEvent
<1>1. ASSUME IInv PROVE NoStaleEvent
    <2>1. SUFFICES ASSUME dispatch = "batch", batch # <<>>
                   PROVE  /\ ~is_changed
                          /\ \A i \in DOMAIN batch : Exists(batch[i][1])
        BY DEF NoStaleEvent
    <2>2. is_changed = FALSE /\ AllExist
        BY <1>1, <2>1 DEF IInv, EventInv, Reliable
    <2>3. DOMAIN batch = 1..Len(batch)
        BY <1>1, LenProperties DEF IInv, EventInv, EventTypes
    <2>4. QED BY <2>2, <2>3 DEF AllExist, Exists
<1>2. QED BY <1>1, Invariant, PTL

-----------------------------------------------------------------------------
(* Lifecycle                                                               *)

(* who has the lock, by where the two threads are *)
LockHeld ==
    /\ lock = "signal" <=> sig \in {"act", "store"}
    /\ main \in {"init", "enable", "destroy", "cleanup"} => lock = "main"
    /\ main \in {"loop", "clear", "disable", "lib_exit", "exit"} \cup LuaFlag => lock # "main"
    /\ main \in {"joining", "stopped"} => lock = "free" /\ quit_thread

(* the main loop exists from asc_lib_init to asc_lib_destroy *)
LoopAlive ==
    /\ main \in {"enable", "loop", "clear", "disable", "destroy", "lib_exit"}
           \cup LuaFlag => alive
    /\ main = "exit_mainloop" => alive
    /\ main \notin Ended => (quit_thread <=> main = "joining")
    /\ main \in {"exit_signal", "exit_abort"} =>
           (sig \in {"act", "store"} => signum = "SIGQUIT")
    /\ sig \in {"lock", "act", "store"} => signum \in Signal
    /\ sig = "store" => signum # "SIGQUIT"

(* a request that is on record was made, and those that found it came on   *)
(* top of it                                                               *)
RequestsCounted ==
    /\ "SHUTDOWN" \in flags => asked >= 1
    /\ sig = "store" /\ ("SHUTDOWN" \in loaded \/ signum = "SIGTERM") => asked >= 1
    /\ main = "SHUTDOWN" => asked >= 1
    /\ main \in LuaFlag /\ "SHUTDOWN" \in read => asked >= 1
    /\ stop_cnt > 0 => asked >= stop_cnt + 1

LifecycleInv == LifecycleTypeOK /\ LockHeld /\ LoopAlive /\ RequestsCounted

-----------------------------------------------------------------------------
(* The signal thread and the main thread start apart, with the lock main's. *)
LEMMA LifecycleStart == LifecycleInit => LifecycleInv
<1> SUFFICES ASSUME LifecycleInit PROVE LifecycleInv
  OBVIOUS
<1> USE WorldAssumption DEF LifecycleInit, Ended, LuaFlag
<1>1. LifecycleTypeOK
  <2>1. again \in BOOLEAN /\ alive \in BOOLEAN /\ quit_thread \in BOOLEAN
    BY Zenon
  <2> QED
    BY <2>1 DEF LifecycleTypeOK, Flag, Signal, NoSignal
<1>2. LockHeld
  BY DEF LockHeld
<1>3. LoopAlive
  BY DEF LoopAlive
<1>4. RequestsCounted
  BY DEF RequestsCounted
<1> QED
  BY <1>1, <1>2, <1>3, <1>4 DEF LifecycleInv

(* A request that is counted leaves the counter at its limit only when it  *)
(* ends the process.                                                       *)
LEMMA CountLimit ==
    ASSUME NEW f \in Flag, CountShutdown(f), stop_cnt \in 0..2, asked \in Nat
    PROVE  /\ stop_cnt' \in 0..3 /\ asked' \in Nat
           /\ stop_cnt' = 3 <=> Aborts(f)
BY DEF CountShutdown, Aborts, TooManyShutdowns, Flag

(* No step of either thread breaks the invariant: one step of the proof    *)
(* per action, one below it per part of the invariant.                      *)
LEMMA LifecycleStep == LifecycleInv /\ [LifecycleNext]_lifeVars => LifecycleInv'
<1> SUFFICES ASSUME LifecycleInv, [LifecycleNext]_lifeVars PROVE LifecycleInv'
  OBVIOUS
<1> USE WorldAssumption DEF LifecycleInv, LifecycleTypeOK, LockHeld, LoopAlive, RequestsCounted, Ended, Running, Signal, Flag, LuaFlag, NoSignal
<1>1. CASE LibInit
  <2>1. LifecycleTypeOK'
    BY <1>1 DEF LibInit, sigVars
  <2>2. LockHeld'
    BY <1>1 DEF LibInit, sigVars
  <2>3. LoopAlive'
    BY <1>1 DEF LibInit, sigVars
  <2>4. RequestsCounted'
    BY <1>1 DEF LibInit, sigVars
  <2> QED BY <2>1, <2>2, <2>3, <2>4
<1>2. CASE SignalEnable
  <2>1. LifecycleTypeOK'
    BY <1>2 DEF SignalEnable, sigVars, loopVars
  <2>2. LockHeld'
    BY <1>2 DEF SignalEnable, sigVars, loopVars
  <2>3. LoopAlive'
    BY <1>2 DEF SignalEnable, sigVars, loopVars
  <2>4. RequestsCounted'
    BY <1>2 DEF SignalEnable, sigVars, loopVars
  <2> QED BY <2>1, <2>2, <2>3, <2>4
<1>3. CASE ReadFlags
  <2>1. LifecycleTypeOK'
    BY <1>3 DEF ReadFlags, sigVars, loopVars
  <2>2. LockHeld'
    BY <1>3 DEF ReadFlags, sigVars, loopVars
  <2>3. LoopAlive'
    BY <1>3 DEF ReadFlags, sigVars, loopVars
  <2>4. RequestsCounted'
    BY <1>3 DEF ReadFlags, sigVars, loopVars
  <2> QED BY <2>1, <2>2, <2>3, <2>4
<1>4. CASE ClearFlags
  <2>1. LifecycleTypeOK'
    <3>1. again' \in BOOLEAN /\ alive' \in BOOLEAN /\ quit_thread' \in BOOLEAN
      BY <1>4, Zenon DEF ClearFlags
    <3>2. stop_cnt' \in 0..3 /\ (stop_cnt' = 3 <=> main' = "exit_mainloop")
      BY <1>4 DEF ClearFlags
    <3> QED
      BY <1>4, <3>1, <3>2 DEF ClearFlags, sigVars
  <2>2. LockHeld'
    BY <1>4 DEF ClearFlags, sigVars
  <2>3. LoopAlive'
    BY <1>4 DEF ClearFlags, sigVars
  <2>4. RequestsCounted'
    BY <1>4 DEF ClearFlags, sigVars
  <2> QED BY <2>1, <2>2, <2>3, <2>4
<1>5. CASE PollFailed
  <2>1. LifecycleTypeOK'
    BY <1>5 DEF PollFailed, sigVars, loopVars
  <2>2. LockHeld'
    BY <1>5 DEF PollFailed, sigVars, loopVars
  <2>3. LoopAlive'
    BY <1>5 DEF PollFailed, sigVars, loopVars
  <2>4. RequestsCounted'
    BY <1>5 DEF PollFailed, sigVars, loopVars
  <2> QED BY <2>1, <2>2, <2>3, <2>4
<1>6. CASE SignalDisable
  <2>1. LifecycleTypeOK'
    BY <1>6 DEF SignalDisable, sigVars, loopVars
  <2>2. LockHeld'
    BY <1>6 DEF SignalDisable, sigVars, loopVars
  <2>3. LoopAlive'
    BY <1>6 DEF SignalDisable, sigVars, loopVars
  <2>4. RequestsCounted'
    BY <1>6 DEF SignalDisable, sigVars, loopVars
  <2> QED BY <2>1, <2>2, <2>3, <2>4
<1>7. CASE LibDestroy
  <2>1. LifecycleTypeOK'
    BY <1>7 DEF LibDestroy, sigVars
  <2>2. LockHeld'
    BY <1>7 DEF LibDestroy, sigVars
  <2>3. LoopAlive'
    BY <1>7 DEF LibDestroy, sigVars
  <2>4. RequestsCounted'
    BY <1>7 DEF LibDestroy, sigVars
  <2> QED BY <2>1, <2>2, <2>3, <2>4
<1>8. CASE LuaExit
  <2>1. LifecycleTypeOK'
    BY <1>8 DEF LuaExit, sigVars, loopVars
  <2>2. LockHeld'
    BY <1>8 DEF LuaExit, sigVars, loopVars
  <2>3. LoopAlive'
    BY <1>8 DEF LuaExit, sigVars, loopVars
  <2>4. RequestsCounted'
    BY <1>8 DEF LuaExit, sigVars, loopVars
  <2> QED BY <2>1, <2>2, <2>3, <2>4
<1>9. CASE LibExit
  <2>1. LifecycleTypeOK'
    BY <1>9 DEF LibExit, sigVars
  <2>2. LockHeld'
    BY <1>9 DEF LibExit, sigVars
  <2>3. LoopAlive'
    BY <1>9 DEF LibExit, sigVars
  <2>4. RequestsCounted'
    BY <1>9 DEF LibExit, sigVars
  <2> QED BY <2>1, <2>2, <2>3, <2>4
<1>10. CASE SignalCleanup
  <2>1. LifecycleTypeOK'
    BY <1>10 DEF SignalCleanup, sigVars, loopVars
  <2>2. LockHeld'
    BY <1>10 DEF SignalCleanup, sigVars, loopVars
  <2>3. LoopAlive'
    BY <1>10 DEF SignalCleanup, sigVars, loopVars
  <2>4. RequestsCounted'
    BY <1>10 DEF SignalCleanup, sigVars, loopVars
  <2> QED BY <2>1, <2>2, <2>3, <2>4
<1>11. CASE JoinSignalThread
  <2>1. LifecycleTypeOK'
    BY <1>11 DEF JoinSignalThread, sigVars, loopVars
  <2>2. LockHeld'
    BY <1>11 DEF JoinSignalThread, sigVars, loopVars
  <2>3. LoopAlive'
    BY <1>11 DEF JoinSignalThread, sigVars, loopVars
  <2>4. RequestsCounted'
    BY <1>11 DEF JoinSignalThread, sigVars, loopVars
  <2> QED BY <2>1, <2>2, <2>3, <2>4
<1>12. ASSUME NEW f \in LuaFlag, LuaRequest(f) PROVE LifecycleInv'
  <2>1. LifecycleTypeOK'
    <3>1. stop_cnt \in 0..2 /\ CountShutdown(f) /\ f \in Flag
      BY <1>12 DEF LuaRequest
    <3>2. /\ stop_cnt' \in 0..3 /\ asked' \in Nat
          /\ stop_cnt' = 3 <=> Aborts(f)
      BY <3>1, CountLimit
    <3>3. stop_cnt' = 3 <=> main' = "exit_mainloop"
      BY <1>12, <3>2 DEF LuaRequest
    <3>4. read' \subseteq Flag /\ main' \in LuaFlag \cup {"exit_mainloop"}
      BY <1>12 DEF LuaRequest
    <3>5. /\ requests' \in 0..MaxRequests
          /\ again' \in BOOLEAN /\ alive' \in BOOLEAN /\ quit_thread' \in BOOLEAN
      BY <1>12 DEF LuaRequest
    <3> QED
      BY <1>12, <3>2, <3>3, <3>4, <3>5 DEF LuaRequest, sigVars
  <2>2. LockHeld'
    BY <1>12 DEF LuaRequest, sigVars, CountShutdown, Aborts, TooManyShutdowns
  <2>3. LoopAlive'
    BY <1>12 DEF LuaRequest, sigVars, CountShutdown, Aborts, TooManyShutdowns
  <2>4. RequestsCounted'
    BY <1>12 DEF LuaRequest, sigVars, CountShutdown, Aborts, TooManyShutdowns
  <2> QED BY <2>1, <2>2, <2>3, <2>4
<1>13. ASSUME NEW f \in LuaFlag, LuaStore(f) PROVE LifecycleInv'
  <2>1. LifecycleTypeOK'
    BY <1>13 DEF LuaStore, sigVars
  <2>2. LockHeld'
    BY <1>13 DEF LuaStore, sigVars
  <2>3. LoopAlive'
    BY <1>13 DEF LuaStore, sigVars
  <2>4. RequestsCounted'
    BY <1>13 DEF LuaStore, sigVars
  <2> QED BY <2>1, <2>2, <2>3, <2>4
<1>14. CASE SigWait
  <2>1. LifecycleTypeOK'
    BY <1>14 DEF SigWait, mainVars, loopVars
  <2>2. LockHeld'
    BY <1>14 DEF SigWait, mainVars, loopVars
  <2>3. LoopAlive'
    BY <1>14 DEF SigWait, mainVars, loopVars
  <2>4. RequestsCounted'
    BY <1>14 DEF SigWait, mainVars, loopVars
  <2> QED BY <2>1, <2>2, <2>3, <2>4
<1>15. CASE SigLock
  <2>1. LifecycleTypeOK'
    BY <1>15 DEF SigLock, mainVars, loopVars
  <2>2. LockHeld'
    BY <1>15 DEF SigLock, mainVars, loopVars
  <2>3. LoopAlive'
    BY <1>15 DEF SigLock, mainVars, loopVars
  <2>4. RequestsCounted'
    BY <1>15 DEF SigLock, mainVars, loopVars
  <2> QED BY <2>1, <2>2, <2>3, <2>4
<1>16. CASE SigTimeout
  <2>1. LifecycleTypeOK'
    BY <1>16 DEF SigTimeout, loopVars
  <2>2. LockHeld'
    BY <1>16 DEF SigTimeout, loopVars
  <2>3. LoopAlive'
    BY <1>16 DEF SigTimeout, loopVars
  <2>4. RequestsCounted'
    BY <1>16 DEF SigTimeout, loopVars
  <2> QED BY <2>1, <2>2, <2>3, <2>4
<1>17. CASE SigAct
  <2>1. LifecycleTypeOK'
    <3>1. CASE signum = "SIGQUIT" \/ ~alive
      BY <1>17, <3>1 DEF SigAct
    <3>2. CASE signum # "SIGQUIT" /\ alive
      <4> DEFINE f == FlagOf(signum)
      <4>1. stop_cnt \in 0..2 /\ CountShutdown(f) /\ f \in Flag
        BY <1>17, <3>2 DEF SigAct, FlagOf
      <4>2. /\ stop_cnt' \in 0..3 /\ asked' \in Nat
            /\ stop_cnt' = 3 <=> Aborts(f)
        BY <4>1, CountLimit
      <4>3. main' = IF Aborts(f) THEN "exit_mainloop" ELSE main
        BY <1>17, <3>2 DEF SigAct
      <4> QED
        BY <1>17, <3>2, <4>2, <4>3 DEF SigAct
    <3> QED
      BY <3>1, <3>2
  <2>2. LockHeld'
    BY <1>17 DEF SigAct, CountShutdown, Aborts, FlagOf, TooManyShutdowns
  <2>3. LoopAlive'
    BY <1>17 DEF SigAct, CountShutdown, Aborts, FlagOf, TooManyShutdowns
  <2>4. RequestsCounted'
    BY <1>17 DEF SigAct, CountShutdown, Aborts, FlagOf, TooManyShutdowns
  <2> QED BY <2>1, <2>2, <2>3, <2>4
<1>18. CASE SigStore
  <2>1. LifecycleTypeOK'
    BY <1>18 DEF SigStore, FlagOf
  <2>2. LockHeld'
    BY <1>18 DEF SigStore, FlagOf
  <2>3. LoopAlive'
    BY <1>18 DEF SigStore, FlagOf
  <2>4. RequestsCounted'
    BY <1>18 DEF SigStore, FlagOf
  <2> QED BY <2>1, <2>2, <2>3, <2>4
<1>19. ASSUME NEW s \in Signal, SendSignal(s) PROVE LifecycleInv'
  <2>1. LifecycleTypeOK'
    BY <1>19 DEF SendSignal, mainVars, sigVars, loopVars
  <2>2. LockHeld'
    BY <1>19 DEF SendSignal, mainVars, sigVars, loopVars
  <2>3. LoopAlive'
    BY <1>19 DEF SendSignal, mainVars, sigVars, loopVars
  <2>4. RequestsCounted'
    BY <1>19 DEF SendSignal, mainVars, sigVars, loopVars
  <2> QED BY <2>1, <2>2, <2>3, <2>4
<1>20. CASE UNCHANGED lifeVars
  BY <1>20 DEF lifeVars
<1> QED
  BY <1>1, <1>2, <1>3, <1>4, <1>5, <1>6, <1>7, <1>8, <1>9, <1>10, <1>11, <1>12, <1>13, <1>14, <1>15, <1>16, <1>17, <1>18, <1>19, <1>20
  DEF LifecycleNext, MainThread, SignalThread

(* The inductive invariant holds in every reachable state. *)
LEMMA LifecycleHolds == LifecycleSpec => []LifecycleInv
BY LifecycleStart, LifecycleStep, PTL DEF LifecycleSpec

-----------------------------------------------------------------------------
(* Every variable keeps its type, for any number of signals and requests,  *)
(* and the count of ignored shutdown requests reaches its limit only with  *)
(* the exit of the process (main/main.c, core/mainloop.c).                 *)
THEOREM LifecycleTypesOK == LifecycleSpec => []LifecycleTypeOK
<1>1. LifecycleInv => LifecycleTypeOK
  BY DEF LifecycleInv
<1> QED
  BY <1>1, LifecycleHolds, PTL

(* The signal thread touches the main loop only while it is allocated,     *)
(* however many reloads and signals meet: signal_lock is the signal        *)
(* thread's whenever it acts, and the main thread's whenever there is no   *)
(* main loop, but for the exit() of asc_lib_exit.                          *)
THEOREM SignalsActOnLiveLoop == LifecycleSpec => []ActsOnLiveLoop
<1>1. LifecycleInv => ActsOnLiveLoop
  BY DEF LifecycleInv, LifecycleTypeOK, LockHeld, LoopAlive, ActsOnLiveLoop, Ended, LuaFlag
<1> QED
  BY <1>1, LifecycleHolds, PTL

(* asc_main_loop_shutdown ends the process only at the fourth request to   *)
(* the same main loop, whatever updates of the flags were lost between     *)
(* the two threads.                                                        *)
THEOREM AbortsAtFourth == LifecycleSpec => []NoEarlyAbort
<1>1. LifecycleInv => NoEarlyAbort
  BY DEF LifecycleInv, LifecycleTypeOK, RequestsCounted, NoEarlyAbort
<1> QED
  BY <1>1, LifecycleHolds, PTL
===============================================================================
