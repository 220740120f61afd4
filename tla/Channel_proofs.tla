---------------------------- MODULE Channel_proofs ----------------------------
(***************************************************************************)
(* Proofs about Channel: for every list of inputs, whatever addresses they *)
(* share and whichever come over HTTP, all delays, any number of clients   *)
(* and any size of their buffers.                                          *)
(***************************************************************************)
EXTENDS Channel, FiniteSetTheorems, NaturalsInduction, WellFoundedInduction,
        TLAPS

(* reports are kept of running inputs only *)
OnlyRunning == \A i \in Input : on_air[i] # "nil" => i \in running

Air == [Input -> {"nil", "yes", "no"}]

InputsOK ==
    /\ running \subseteq Input
    /\ cam \subseteq Cam /\ clear \subseteq running \cap Cam
    /\ users \in [Source -> 0..N]
    /\ SharedUsers

FailoverInv == FailoverTypeOK /\ InputsOK /\ BestFeeds /\ OnlyRunning

(* What on_upstream_ready has to send came after the header's handler was  *)
(* set: nothing is buffered for a client that is not attached, and no      *)
(* request is read from one that is.                                       *)
Served(r) ==
    /\ r.response = "attached" =>
        /\ r.listed
        /\ r.busy <=> r.on_ready = "upstream"
        /\ r.count >= Fill => r.busy
        /\ r.on_read # "request"
    /\ r.response # "attached" => ~r.busy /\ r.count = 0

HttpInv == HttpTypeOK /\ \A c \in Client : Served(conn[c])

(* a receiver in use has a request or waits for the next one *)
InUse(r) ==
    /\ r # Idle
    /\ r.retry <=> r.request = "none"
    /\ r.request = "none" => r.timer = "none"

ReceiverInv ==
    /\ ReceiverTypeOK
    /\ \A s \in Http : IF users[s] = 0 THEN receiver[s] = Idle
                                       ELSE InUse(receiver[s])

Listed == {c \in Client : conn[c].listed}

ClientsInv ==
    /\ others \in 0..MaxOthers
    /\ IsFiniteSet(Listed)
    /\ clients = Permanent + others + Cardinality(Listed)
    /\ clients > 0 <=> 1 \in running

IInv == FailoverInv /\ HttpInv /\ ReceiverInv /\ ClientsInv
-------------------------------------------------------------------------------
(* Sets and numbers                                                        *)

(* Min is what its name says, of a set of inputs.                          *)
LEMMA MinIsLeast ==
    ASSUME NEW S \in SUBSET Nat, S # {}
    PROVE  Min(S) \in S /\ \A y \in S : Min(S) <= y
<1> DEFINE less == OpToRel(<, Nat)
<1>1. IsWellFoundedOn(less, Nat)
    BY NatLessThanWellFounded
<1>2. \A x, y \in Nat : y < x => <<y, x>> \in less
    BY Zenon DEF OpToRel
<1> HIDE DEF less
<1>3. PICK x \in S : \A y \in S : ~(<<y, x>> \in less)
    BY <1>1, WFMin, Zenon
<1>4. S \subseteq Nat /\ \A y \in S : ~(y < x)
    BY <1>2, <1>3, Zenon
<1>5. \A y \in S : x <= y
    BY <1>4
<1>6. QED BY <1>5 DEF Min

(* the larger delay *)
LEMMA MaxOfTwo ==
    ASSUME NEW a \in Nat, NEW b \in Nat
    PROVE  Max({a, b}) \in Nat /\ a <= Max({a, b}) /\ b <= Max({a, b})
<1>1. \E x \in {a, b} : \A y \in {a, b} : x >= y
    OBVIOUS
<1>2. Max({a, b}) \in {a, b} /\ \A y \in {a, b} : Max({a, b}) >= y
    BY <1>1 DEF Max
<1>3. QED BY <1>2

(* the list is not empty *)
LEMMA InputsAreNumbers == N \in Nat /\ 1 \in Input /\ Input \subseteq Nat
<1>1. N \in Nat \ {0}
    BY FailoverAssumption
<1>2. QED BY <1>1 DEF Input

(* A set of inputs is finite, and no larger than the list.                 *)
LEMMA InputsCounted ==
    ASSUME NEW S \in SUBSET Input
    PROVE  IsFiniteSet(S) /\ Cardinality(S) \in 0..N
<1>1. N \in Nat
    BY FailoverAssumption
<1>2. IsFiniteSet(Input) /\ Cardinality(Input) = N
    BY <1>1, FS_Interval DEF Input
<1>3. IsFiniteSet(S) /\ Cardinality(S) <= N
    BY <1>2, FS_Subset
<1>4. QED BY <1>1, <1>3, FS_CardinalityType

(* the users of an address among the inputs S *)
At(S, s) == {i \in S : Of[i] = s}

(* One more input is one more user of its address, and of no other.        *)
LEMMA OneMoreUser ==
    ASSUME NEW S \in SUBSET Input, NEW i \in Input, i \notin S, NEW s \in Source
    PROVE  Cardinality(At(S \cup {i}, s)) =
                IF Of[i] = s THEN Cardinality(At(S, s)) + 1
                             ELSE Cardinality(At(S, s))
<1>1. IsFiniteSet(At(S, s)) /\ i \notin At(S, s)
    BY InputsCounted DEF At
<1>2. CASE Of[i] = s
    <2>1. At(S \cup {i}, s) = At(S, s) \cup {i}
        BY <1>2 DEF At
    <2>2. QED BY <1>1, <1>2, <2>1, FS_AddElement
<1>3. CASE Of[i] # s
    <2>1. At(S \cup {i}, s) = At(S, s)
        BY <1>3 DEF At
    <2>2. QED BY <1>3, <2>1
<1>4. QED BY <1>2, <1>3

(* The inputs that are stopped are so many users less.                     *)
LEMMA FewerUsers ==
    ASSUME NEW S \in SUBSET Input, NEW R \in SUBSET S, NEW s \in Source
    PROVE  Cardinality(At(S \ R, s)) = Cardinality(At(S, s)) - Cardinality(At(R, s))
<1>1. /\ IsFiniteSet(At(S, s)) /\ IsFiniteSet(At(R, s))
      /\ Cardinality(At(S, s)) \in Nat /\ Cardinality(At(R, s)) \in Nat
    BY InputsCounted DEF At
<1>2. /\ At(S \ R, s) = At(S, s) \ At(R, s)
      /\ At(S, s) \cap At(R, s) = At(R, s)
    BY DEF At
<1>3. Cardinality(At(S, s) \ At(R, s))
        = Cardinality(At(S, s)) - Cardinality(At(S, s) \cap At(R, s))
    BY <1>1, FS_Difference, Zenon
<1>4. QED BY <1>2, <1>3
-------------------------------------------------------------------------------
(* Inputs                                                                  *)

(* SharedUsers gives the range of the counts. *)
LEMMA UsersInRange ==
    ASSUME NEW R \in SUBSET Input,
           NEW u, u = [s \in Source |-> u[s]],
           \A s \in Source : u[s] = Cardinality(At(R, s))
    PROVE  u \in [Source -> 0..N]
<1>1. \A s \in Source : At(R, s) \in SUBSET Input
    BY DEF At
<1>2. \A s \in Source : u[s] \in 0..N
    BY <1>1, InputsCounted
<1>3. QED BY <1>2

(* An input that starts is counted at its address.                         *)
LEMMA Started ==
    ASSUME InputsOK, NEW i \in Input \ running, InitInput(i)
    PROVE  InputsOK' /\ running' = running \cup {i} /\ upstream' = i
<1>1. /\ running' = running \cup {i} /\ upstream' = i
      /\ users' = [users EXCEPT ![Of[i]] = @ + 1]
      /\ cam' = cam \ {i} /\ clear' = clear \cup ({i} \cap cam)
    BY DEF InitInput, MakeInput, Used
<1>2. Of[i] \in Source
    BY FailoverAssumption
<1>3. \A s \in Source : users'[s] = Cardinality(At(running', s))
    <2> SUFFICES ASSUME NEW s \in Source
                 PROVE  users'[s] = Cardinality(At(running', s))
        OBVIOUS
    <2>1. users[s] = Cardinality(At(running, s)) /\ users[s] \in Nat
        BY DEF InputsOK, SharedUsers, At
    <2>2. running \in SUBSET Input
        BY DEF InputsOK
    <2>3. PICK R \in SUBSET Input : R = running
        BY <2>2
    <2>4. Cardinality(At(R \cup {i}, s)) =
            IF Of[i] = s THEN Cardinality(At(R, s)) + 1 ELSE Cardinality(At(R, s))
        BY <2>3, OneMoreUser
    <2>5. users'[s] = IF Of[i] = s THEN users[s] + 1 ELSE users[s]
        BY <1>1, <1>2 DEF InputsOK
    <2>6. QED BY <1>1, <2>1, <2>3, <2>4, <2>5
<1>4. users' \in [Source -> 0..N]
    <2>1. users' = [s \in Source |-> users'[s]] /\ running' \in SUBSET Input
        BY <1>1 DEF InputsOK
    <2>2. QED BY <1>3, <2>1, UsersInRange
<1>5. SharedUsers'
    BY <1>3 DEF SharedUsers, At
<1>6. QED BY <1>1, <1>4, <1>5 DEF InputsOK

(* Inputs that stop are counted off, each at its address.                  *)
LEMMA Stopped ==
    ASSUME InputsOK, NEW S \in SUBSET running, KillInputs(S)
    PROVE  InputsOK' /\ running' = running \ S
<1>1. /\ running' = running \ S /\ cam' = cam /\ clear' = clear \ S
      /\ users' = [s \in Source |-> users[s] - Cardinality(At(S, s))]
    BY DEF KillInputs, Freed, At
<1>2. \A s \in Source : users'[s] = Cardinality(At(running', s))
    <2> SUFFICES ASSUME NEW s \in Source
                 PROVE  users'[s] = Cardinality(At(running', s))
        OBVIOUS
    <2>1. users[s] = Cardinality(At(running, s))
        BY DEF InputsOK, SharedUsers, At
    <2>2. PICK R \in SUBSET Input : R = running
        BY DEF InputsOK
    <2>3. Cardinality(At(R \ S, s)) = Cardinality(At(R, s)) - Cardinality(At(S, s))
        BY <2>2, FewerUsers
    <2>4. QED BY <1>1, <2>1, <2>2, <2>3
<1>3. users' \in [Source -> 0..N]
    <2>1. users' = [s \in Source |-> users'[s]] /\ running' \in SUBSET Input
        BY <1>1 DEF InputsOK
    <2>2. QED BY <1>2, <2>1, UsersInRange
<1>4. SharedUsers'
    BY <1>2 DEF SharedUsers, At
<1>5. QED BY <1>1, <1>3, <1>4 DEF InputsOK

(* the inputs that run are the first of the list *)
FirstRun == \A i \in running : 1..i \subseteq running

(* The next input of the list comes after those that run.                  *)
LEMMA NextOfList ==
    ASSUME running \subseteq Input, running # Input, FirstRun,
           NEW m, m = Min(Input \ running)
    PROVE  /\ m \in Input \ running
           /\ \A i \in running \cup {m} : 1..i \subseteq running \cup {m}
<1>1. N \in Nat /\ Input \subseteq Nat
    BY InputsAreNumbers
<1>2. Input \ running # {} /\ Input \ running \in SUBSET Nat
    BY <1>1
<1>3. m \in Input \ running /\ \A y \in Input \ running : m <= y
    BY <1>2, MinIsLeast
<1>4. 1..m \subseteq running \cup {m}
    <2> SUFFICES ASSUME NEW k \in 1..m, k # m
                 PROVE  k \in running
        OBVIOUS
    <2>1. m \in Nat /\ m <= N
        BY <1>1, <1>3 DEF Input
    <2>2. k \in Input /\ ~(m <= k)
        BY <1>1, <2>1 DEF Input
    <2>3. QED BY <1>3, <2>2
<1>5. QED BY <1>3, <1>4 DEF FirstRun

(* The best of the inputs on air.                                          *)
LEMMA BestIsFirst ==
    ASSUME NEW air \in Air, OnAir(air) # {}, NEW best, best = Min(OnAir(air))
    PROVE  /\ best \in Input /\ air[best] = "yes"
           /\ \A i \in Input : air[i] = "yes" => best <= i
<1>1. OnAir(air) \in SUBSET Nat
    BY FailoverAssumption DEF OnAir, Input
<1>2. best \in OnAir(air) /\ \A y \in OnAir(air) : best <= y
    BY <1>1, MinIsLeast
<1>3. QED BY <1>2 DEF OnAir

(* The input that alone is on air is the best.                             *)
LEMMA OnlyOneOnAir ==
    ASSUME NEW b \in Input, NEW air, OnAir(air) = {b}
    PROVE  Min(OnAir(air)) = b
<1>1. {b} \in SUBSET Nat
    BY FailoverAssumption DEF Input
<1>2. Min({b}) \in {b}
    BY <1>1, MinIsLeast
<1>3. QED BY <1>2

DelayRange == 0..Max({Timeout, StartDelay})

(* the delays that are set *)
LEMMA Delays ==
    /\ Timeout \in DelayRange /\ StartDelay \in DelayRange
    /\ DelayRange \subseteq Nat /\ Max({Timeout, StartDelay}) \in Nat
<1>1. Timeout \in Nat /\ StartDelay \in Nat
    BY FailoverAssumption
<1>2. QED BY <1>1, MaxOfTwo DEF DelayRange

(* Whatever is known to be on air, the channel gets the best of it and     *)
(* runs nothing behind it, or starts one input more.  The first input      *)
(* goes on.                                                                *)
LEMMA ReserveKeeps ==
    ASSUME FailoverInv, running # {},
           NEW air \in Air, \A i \in Input : air[i] # "nil" => i \in running,
           NEW wait \in DelayRange, StartReserve(air, wait),
           UNCHANGED <<clients, signal>>
    PROVE  FailoverInv' /\ 1 \in running'
<1>1. /\ running \subseteq Input /\ FirstRun /\ upstream \in running
      /\ active \in 0..N /\ upstream \in 0..N /\ N \in Nat
      /\ signal \subseteq Input /\ clients \in Nat
    BY FailoverAssumption DEF FailoverInv, FailoverTypeOK, BestFeeds, FirstRun
<1>2. CASE OnAir(air) # {}
    <2>1. PICK best : best = Min(OnAir(air))
        OBVIOUS
    <2>2. /\ best \in running /\ air[best] = "yes"
          /\ \A i \in Input : air[i] = "yes" => best <= i
        BY <1>2, <2>1, BestIsFirst
    <2>3. PICK rest \in SUBSET running : rest = {j \in running : j > best}
        OBVIOUS
    <2>4. /\ upstream' = best /\ active' = best /\ delay' = Timeout
          /\ KillInputs(rest)
          /\ on_air' = [i \in Input |-> IF i \in rest THEN "nil" ELSE air[i]]
        BY <1>2, <2>1, <2>3 DEF StartReserve
    <2>5. InputsOK' /\ running' = running \ rest
        BY <2>4, Stopped DEF FailoverInv
    <2>6. on_air' \in Air /\ OnAir(on_air') = {best}
        <3>1. on_air' \in Air
            BY <2>4 DEF Air
        <3>2. \A i \in Input : i > best => i \notin running \/ i \in rest
            BY <2>3
        <3>3. \A i \in Input : on_air'[i] = "yes" <=> i = best
            BY <1>1, <2>2, <2>3, <2>4 DEF Input
        <3>4. QED BY <1>1, <2>2, <3>1, <3>3 DEF OnAir
    <2>7. best \in Input /\ Min(OnAir(on_air')) = best
        BY <1>1, <2>2, <2>6, OnlyOneOnAir
    <2>8. /\ \A i \in running' : 1..i \subseteq running'
          /\ \A j \in running' : j <= best
          /\ best \in running' /\ 1 \in running'
        BY <1>1, <2>2, <2>3, <2>5 DEF Input, FirstRun
    <2>9. BestFeeds'
        BY <1>1, <2>4, <2>6, <2>7, <2>8 DEF BestFeeds, Input
    <2>10. OnlyRunning'
        BY <2>4, <2>5 DEF OnlyRunning
    <2>11. FailoverTypeOK'
        BY <1>1, <2>2, <2>4, <2>5, <2>6, Delays
            DEF FailoverTypeOK, InputsOK, DelayRange, Air, Input
    <2>12. QED BY <2>5, <2>8, <2>9, <2>10, <2>11 DEF FailoverInv
<1>3. CASE OnAir(air) = {}
    <2>1. /\ IF running = Input THEN UNCHANGED <<inputs, upstream>>
                                ELSE InitInput(Min(Input \ running))
          /\ on_air' = air /\ delay' = wait /\ UNCHANGED active
        BY <1>3 DEF StartReserve
    <2>2. PICK m : m = Min(Input \ running)
        OBVIOUS
    <2>3. /\ InputsOK' /\ running \subseteq running' /\ upstream' \in running'
          /\ \A i \in running' : 1..i \subseteq running'
        <3>1. CASE running = Input
            BY <1>1, <2>1, <3>1 DEF FailoverInv, InputsOK, SharedUsers, FirstRun, inputs
        <3>2. CASE running # Input
            <4>1. /\ m \in Input \ running
                  /\ \A i \in running \cup {m} : 1..i \subseteq running \cup {m}
                BY <1>1, <2>2, <3>2, NextOfList
            <4>2. InputsOK' /\ running' = running \cup {m} /\ upstream' = m
                BY <2>1, <2>2, <3>2, <4>1, Started DEF FailoverInv
            <4>3. QED BY <4>1, <4>2
        <3>3. QED BY <3>1, <3>2
    <2>4. BestFeeds' /\ 1 \in running'
        <3>1. running' \subseteq Input
            BY <2>3 DEF InputsOK
        <3>2. 1 \in running' /\ upstream' # 0
            BY <1>1, <2>3, <3>1 DEF Input
        <3>3. OnAir(on_air') = {}
            BY <1>3, <2>1
        <3>4. QED BY <2>3, <3>2, <3>3 DEF BestFeeds
    <2>5. OnlyRunning'
        BY <2>1, <2>3 DEF OnlyRunning
    <2>6. upstream' \in 0..N
        BY <1>1, <2>3 DEF InputsOK, Input
    <2>7. FailoverTypeOK'
        BY <1>1, <2>1, <2>3, <2>6 DEF FailoverTypeOK, InputsOK, DelayRange, Air
    <2>8. QED BY <2>3, <2>4, <2>5, <2>7 DEF FailoverInv
<1>4. QED BY <1>2, <1>3
-------------------------------------------------------------------------------
(* Reports and clients                                                     *)

(* A report that is not heeded takes back what was known of one input; the *)
(* input that is on air is the one that feeds the channel.                 *)
LEMMA ReportKeeps ==
    ASSUME FailoverInv, NEW i \in Input, NEW good \in BOOLEAN, Report(i, good)
    PROVE  /\ FailoverInv' /\ UNCHANGED clients
           /\ 1 \in running /\ 1 \in running'
<1>1. /\ i \in running /\ UNCHANGED <<clients, signal>>
      /\ running \subseteq Input /\ 1 \in running
      /\ on_air \in Air /\ delay \in DelayRange
    <2>1. i \in running /\ UNCHANGED <<clients, signal>>
        BY DEF Report, Due
    <2>2. running \subseteq Input /\ on_air \in Air /\ delay \in DelayRange
        BY DEF FailoverInv, FailoverTypeOK, Air, DelayRange
    <2>3. 1 \in 1..i /\ 1..i \subseteq running
        BY <2>1, FailoverAssumption DEF FailoverInv, BestFeeds, Input
    <2>4. QED BY <2>1, <2>2, <2>3
<1>2. PICK air : air = [on_air EXCEPT ![i] = Verdict(good)]
    OBVIOUS
<1>3. CASE StartReserve(air, delay)
    <2>1. air \in Air /\ \A j \in Input : air[j] # "nil" => j \in running
        <3>1. Verdict(good) \in {"yes", "no"}
            BY DEF Verdict
        <3>2. QED BY <1>1, <1>2, <3>1 DEF Air, FailoverInv, OnlyRunning
    <2>2. QED BY <1>1, <1>3, <2>1, ReserveKeeps
<1>4. CASE /\ delay # 0 /\ delay' = delay - 1
           /\ on_air' = [on_air EXCEPT ![i] = "nil"]
           /\ UNCHANGED <<inputs, active, upstream>>
    <2>1. on_air' \in Air /\ OnAir(on_air') = OnAir(on_air) \ {i}
        BY <1>1, <1>4 DEF Air, OnAir
    <2>2. InputsOK'
        BY <1>4 DEF FailoverInv, InputsOK, SharedUsers, inputs
    <2>3. BestFeeds'
        <3>1. CASE OnAir(on_air') = {}
            BY <1>4, <3>1 DEF FailoverInv, BestFeeds, inputs
        <3>2. CASE OnAir(on_air') # {}
            <4>1. /\ OnAir(on_air) # {} /\ upstream = Min(OnAir(on_air))
                  /\ \A j \in running : j <= upstream
                BY <2>1, <3>2 DEF FailoverInv, BestFeeds
            <4>2. \A j \in OnAir(on_air) : j = upstream
                <5>1. PICK b : b = Min(OnAir(on_air))
                    OBVIOUS
                <5>2. b \in Input /\ \A j \in OnAir(on_air) : b <= j
                    BY <1>1, <4>1, <5>1, BestIsFirst DEF OnAir
                <5>3. OnAir(on_air) \subseteq running
                    BY DEF OnAir, FailoverInv, OnlyRunning
                <5>4. b \in Nat /\ \A j \in OnAir(on_air) : j \in Nat
                    BY <5>2, InputsAreNumbers DEF OnAir
                <5>5. \A j \in OnAir(on_air) : j <= b /\ b <= j
                    BY <4>1, <5>1, <5>2, <5>3
                <5>6. QED BY <4>1, <5>1, <5>4, <5>5
            <4>3. OnAir(on_air') = OnAir(on_air)
                BY <2>1, <3>2, <4>2
            <4>4. QED BY <1>4, <4>1, <4>3 DEF FailoverInv, BestFeeds, inputs
        <3>3. QED BY <3>1, <3>2
    <2>4. OnlyRunning'
        BY <1>1, <1>4 DEF FailoverInv, OnlyRunning, inputs, Air
    <2>5. delay' \in DelayRange
        <3>1. PICK m : m = Max({Timeout, StartDelay})
            OBVIOUS
        <3>2. m \in Nat
            BY <3>1, Delays DEF DelayRange
        <3>3. QED BY <1>1, <1>4, <3>1, <3>2 DEF DelayRange
    <2>6. FailoverTypeOK'
        BY <1>1, <1>4, <2>1, <2>2, <2>5
            DEF FailoverInv, FailoverTypeOK, InputsOK, inputs, Air, DelayRange
    <2>7. QED BY <1>1, <1>4, <2>2, <2>3, <2>4, <2>6 DEF FailoverInv, inputs
<1>5. QED BY <1>2, <1>3, <1>4 DEF Report

(* A stream that gets good or bad changes nothing else. *)
LEMMA TurnKeeps ==
    ASSUME FailoverInv, NEW i \in Input, Turn(i)
    PROVE  FailoverInv' /\ UNCHANGED <<clients, running, users>>
<1>1. /\ UNCHANGED <<running, users, cam, clear>>
      /\ UNCHANGED <<on_air, active, delay, upstream, clients>>
      /\ signal' \subseteq Input
    BY DEF Turn, inputs, FailoverInv, FailoverTypeOK
<1>2. InputsOK' /\ OnlyRunning' /\ BestFeeds'
    BY <1>1 DEF FailoverInv, InputsOK, SharedUsers, OnlyRunning, BestFeeds, OnAir
<1>3. FailoverTypeOK'
    BY <1>1 DEF FailoverInv, FailoverTypeOK
<1>4. QED BY <1>1, <1>2, <1>3 DEF FailoverInv

(* The first client starts the first input; when it runs, it runs.         *)
LEMMA JoinKeeps ==
    ASSUME FailoverInv, Join
    PROVE  FailoverInv' /\ clients' = clients + 1 /\ 1 \in running'
<1>1. /\ clients' = clients + 1
      /\ UNCHANGED <<on_air, active, delay, signal>>
      /\ 1 \in Input /\ running \subseteq Input /\ clients \in Nat
    BY FailoverAssumption DEF Join, FailoverInv, FailoverTypeOK, Input
<1>2. CASE 1 \in running
    <2>1. UNCHANGED <<running, users, cam, clear, upstream>>
        BY <1>2 DEF Join, inputs
    <2>2. InputsOK' /\ OnlyRunning' /\ BestFeeds'
        BY <1>1, <2>1 DEF FailoverInv, InputsOK, SharedUsers, OnlyRunning, BestFeeds, OnAir
    <2>3. FailoverTypeOK'
        BY <1>1, <2>1 DEF FailoverInv, FailoverTypeOK
    <2>4. QED BY <1>1, <1>2, <2>1, <2>2, <2>3 DEF FailoverInv
<1>3. CASE 1 \notin running
    <2>1. running = {}
        BY <1>1, <1>3, FailoverAssumption DEF FailoverInv, BestFeeds, Input
    <2>2. InputsOK' /\ running' = {1} /\ upstream' = 1
        BY <1>1, <1>3, <2>1, Started DEF Join, FailoverInv
    <2>3. OnlyRunning' /\ OnAir(on_air') = {}
        BY <1>1, <2>1 DEF FailoverInv, OnlyRunning, OnAir
    <2>4. BestFeeds'
        BY <2>2, <2>3 DEF BestFeeds
    <2>5. upstream' \in 0..N
        BY <2>2, FailoverAssumption
    <2>6. FailoverTypeOK'
        BY <1>1, <2>2, <2>5 DEF FailoverInv, FailoverTypeOK, InputsOK
    <2>7. QED BY <1>1, <2>2, <2>3, <2>4, <2>6 DEF FailoverInv
<1>4. QED BY <1>2, <1>3

(* The last client stops all.                                              *)
LEMMA LeaveKeeps ==
    ASSUME FailoverInv, clients > 0, 1 \in running, Leave
    PROVE  /\ FailoverInv' /\ clients' = clients - 1
           /\ clients' > 0 <=> 1 \in running'
<1>1. /\ clients' = clients - 1 /\ signal' = signal
      /\ clients' \in Nat /\ N \in Nat /\ on_air \in Air
    BY FailoverAssumption DEF Leave, FailoverInv, FailoverTypeOK, Air
<1>2. CASE clients' > 0
    <2>1. UNCHANGED <<running, users, cam, clear, on_air, delay, active, upstream>>
        BY <1>2 DEF Leave, inputs
    <2>2. InputsOK' /\ OnlyRunning' /\ BestFeeds'
        BY <2>1 DEF FailoverInv, InputsOK, SharedUsers, OnlyRunning, BestFeeds, OnAir
    <2>3. FailoverTypeOK'
        BY <1>1, <2>1 DEF FailoverInv, FailoverTypeOK
    <2>4. QED BY <1>1, <1>2, <2>1, <2>2, <2>3 DEF FailoverInv
<1>3. CASE clients' = 0
    <2>1. /\ KillInputs(running)
          /\ on_air' = [i \in Input |-> IF i \in running THEN "nil" ELSE on_air[i]]
          /\ delay' = StartDelay /\ active' = 0 /\ upstream' = 0
        BY <1>3 DEF Leave
    <2>2. InputsOK' /\ running' = {}
        BY <2>1, Stopped DEF FailoverInv
    <2>3. OnlyRunning' /\ OnAir(on_air') = {} /\ on_air' \in Air
        BY <1>1, <2>1 DEF FailoverInv, OnlyRunning, OnAir, Air
    <2>4. BestFeeds'
        BY <2>1, <2>2, <2>3 DEF BestFeeds
    <2>5. FailoverTypeOK'
        BY <1>1, <2>1, <2>2, <2>3, Delays
            DEF FailoverInv, FailoverTypeOK, InputsOK, Air, DelayRange
    <2>6. QED BY <1>1, <1>3, <2>2, <2>3, <2>4, <2>5 DEF FailoverInv
<1>4. clients' > 0 \/ clients' = 0
    <2>1. clients' \in Nat
        BY <1>1
    <2>2. QED BY <2>1
<1>5. QED BY <1>2, <1>3, <1>4
-------------------------------------------------------------------------------
(* The HTTP server                                                         *)

(* what a step of one client may make of it *)
Fine(r) == r \in Conn /\ Served(r)

(* the numbers that occur in steps of a connection *)
LEMMA Numbers == 0 \in 0..Size /\ ~(0 >= Fill)
BY HttpAssumption

(* the values of client->status *)
LEMMA Statuses == 0 \in 0..3 /\ 1 \in 0..3 /\ 2 \in 0..3 /\ 3 \in 0..3
OBVIOUS

(* A connection that ended has nothing, and one that begins is to be read. *)
LEMMA ClosedFine ==
    Fine(Closed) /\ Fine([Closed EXCEPT !.open = TRUE, !.on_read = "request"])
<1>1. Closed \in Conn
    BY Numbers, Statuses, Zenon DEF Closed, Conn
<1>2. [Closed EXCEPT !.open = TRUE, !.on_read = "request"] \in Conn
    BY <1>1, Zenon DEF Conn
<1>3. /\ Served(Closed)
      /\ Served([Closed EXCEPT !.open = TRUE, !.on_read = "request"])
    BY DEF Closed, Served
<1>4. QED BY <1>1, <1>2, <1>3 DEF Fine

(* a client for whom nothing is buffered, its header's handler set or not *)
Quiet(r) ==
    /\ r.count = 0 /\ r.busy = FALSE
    /\ r.on_ready # "upstream"
    /\ r.response = "attached" => r.listed /\ r.on_read # "request"

(* Such a client is fine. *)
LEMMA QuietFine ==
    ASSUME NEW r \in Conn, Quiet(r)
    PROVE  Fine(r)
BY Numbers, Zenon DEF Quiet, Served, Fine

(* An answer to a request, whichever it is, is sent to a client for whom   *)
(* nothing is buffered.                                                    *)
LEMMA AnswerFine ==
    ASSUME NEW r \in Conn, r.response # "attached", r.count = 0, r.busy = FALSE
    PROVE  /\ Fine(Redirect(r)) /\ Fine(Abort(r))
           /\ \A q \in Called(r) : Fine(q)
<1>1. Fine(Redirect(r))
    <2>1. Redirect(r) \in Conn
        BY Statuses, Zenon DEF Conn, Redirect, Send
    <2>2. Quiet(Redirect(r))
        BY DEF Conn, Redirect, Send, Quiet
    <2>3. QED BY <2>1, <2>2, QuietFine
<1>2. ASSUME NEW q \in Conn, q.response # "attached", q.count = 0, q.busy = FALSE
      PROVE  Fine(Abort(q))
    <2>1. Abort(q) \in Conn
        BY <1>2, Zenon DEF Conn, Abort, Send
    <2>2. Quiet(Abort(q))
        BY <1>2 DEF Conn, Abort, Send, Quiet
    <2>3. QED BY <2>1, <2>2, QuietFine
<1>3. ASSUME NEW q \in Called(r)
      PROVE  Fine(q)
    <2>1. PICK known : known = [r EXCEPT !.status = 3, !.response = "bare", !.listed = TRUE]
        OBVIOUS
    <2>2. PICK other : other = [known EXCEPT !.listed = FALSE]
        OBVIOUS
    <2>3. known \in Conn
        BY <2>1, Statuses, Zenon DEF Conn
    <2>4. other \in Conn
        BY <2>2, <2>3, Zenon DEF Conn
    <2>5. /\ known.count = 0 /\ known.busy = FALSE /\ known.listed = TRUE
          /\ known.response = "bare"
        BY <2>1 DEF Conn
    <2>6. /\ other.count = 0 /\ other.busy = FALSE /\ other.response = "bare"
        BY <2>2, <2>3, <2>5 DEF Conn
    <2>7. Fine(Upstream(known))
        <3>1. Upstream(known) \in Conn
            BY <2>3, Zenon DEF Conn, Upstream, Send
        <3>2. Quiet(Upstream(known))
            BY <2>3, <2>5 DEF Conn, Upstream, Send, Quiet
        <3>3. QED BY <3>1, <3>2, QuietFine
    <2>8. q \in {Abort(other), Abort(known), Upstream(known)}
        BY <1>3, <2>1, <2>2, Zenon DEF Called
    <2>9. QED BY <1>2, <2>3, <2>4, <2>5, <2>6, <2>7, <2>8
<1>4. QED BY <1>1, <1>2, <1>3

(* Every step of the server concerns one client, and leaves it fine. *)
LEMMA HttpStepKeeps ==
    ASSUME HttpInv, NEW c \in Client, HttpStep(c)
    PROVE  HttpInv' /\ \A d \in Client \ {c} : conn'[d] = conn[d]
<1>1. PICK r : r = conn[c]
    OBVIOUS
<1>2. conn \in [Client -> Conn] /\ r \in Conn /\ Served(r)
    BY <1>1 DEF HttpInv, HttpTypeOK
<1>3. SUFFICES \E q : Fine(q) /\ Becomes(c, q)
    BY <1>2 DEF Becomes, HttpInv, HttpTypeOK, Fine
<1>4. CASE Accept(c)
    BY <1>4, ClosedFine DEF Accept
<1>5. CASE Close(c)
    BY <1>5, ClosedFine DEF Close
<1>6. CASE ReadHeader(c) /\ ~Close(c)
    <2>1. PICK head \in BOOLEAN :
            \E q \in Headers([r EXCEPT !.status = 2, !.head = head]) : Becomes(c, q)
        BY <1>1, <1>6 DEF ReadHeader
    <2>2. PICK h : h = [r EXCEPT !.status = 2, !.head = head]
        OBVIOUS
    <2>3. h \in Conn
        BY <1>2, <2>2, Statuses, Zenon DEF Conn
    <2>4. /\ h.response = r.response /\ h.count = r.count /\ h.busy = r.busy
          /\ h.on_read = r.on_read /\ h.listed = r.listed /\ h.on_ready = r.on_ready
        BY <1>2, <2>2 DEF Conn
    <2>5. h.response # "attached" /\ h.count = 0 /\ h.busy = FALSE
        <3>1. r.on_read = "request" /\ r.busy \in BOOLEAN
            BY <1>1, <1>2, <1>6 DEF ReadHeader, Conn
        <3>2. QED BY <1>2, <2>4, <3>1 DEF Served
    <2>6. Fine(h)
        BY <2>3, <2>5, Zenon DEF Fine, Served
    <2>7. \A q \in Headers(h) : Fine(q)
        BY <2>3, <2>5, <2>6, AnswerFine DEF Headers
    <2>8. QED BY <2>1, <2>2, <2>7
<1>7. CASE ReadBody(c) /\ ~Close(c)
    <2>1. r.response # "attached" /\ r.count = 0 /\ r.busy = FALSE
        <3>1. r.on_read = "request" /\ r.busy \in BOOLEAN
            BY <1>1, <1>2, <1>7 DEF ReadBody, Conn
        <3>2. QED BY <1>2, <3>1 DEF Served
    <2>2. \A q \in Called(r) : Fine(q)
        BY <1>2, <2>1, AnswerFine
    <2>3. QED BY <1>1, <1>7, <2>2 DEF ReadBody
<1>8. CASE SendResponse(c) /\ ~Close(c)
    <2>1. PICK a \in {"upstream", "none"}, b \in {"content", "none"} :
            Becomes(c, [r EXCEPT !.on_read = a, !.on_ready = b])
        BY <1>1, <1>8 DEF SendResponse
    <2>2. PICK q : q = [r EXCEPT !.on_read = a, !.on_ready = b]
        OBVIOUS
    <2>3. q \in Conn
        BY <1>2, <2>2, Zenon DEF Conn
    <2>4. /\ q.response = r.response /\ q.count = r.count /\ q.busy = r.busy
          /\ q.on_read = a /\ q.listed = r.listed /\ q.on_ready = b
        BY <1>2, <2>2 DEF Conn
    <2>5. r.on_ready = "response"
        BY <1>1, <1>8 DEF SendResponse
    <2>6. Served(q)
        BY <1>2, <2>4, <2>5, Zenon DEF Served
    <2>7. QED BY <2>1, <2>2, <2>3, <2>6 DEF Fine
<1>9. CASE SendContent(c) \/ UpstreamRead(c) \/ OnError(c)
    BY <1>5, <1>9 DEF SendContent, UpstreamRead, OnError
<1>10. CASE UpstreamReady(c) /\ ~Close(c)
    <2>1. PICK n \in 0..r.count :
            Becomes(c, IF n = r.count
                       THEN [r EXCEPT !.count = 0, !.on_ready = "none", !.busy = FALSE]
                       ELSE [r EXCEPT !.count = @ - n])
        BY <1>1, <1>10 DEF UpstreamReady
    <2>2. r.on_ready = "upstream" /\ r.count \in 0..Size
        BY <1>1, <1>2, <1>10 DEF UpstreamReady, Conn
    <2>3. CASE n = r.count
        <3>1. PICK q : q = [r EXCEPT !.count = 0, !.on_ready = "none", !.busy = FALSE]
            OBVIOUS
        <3>2. q \in Conn
            BY <1>2, <3>1, Numbers, Zenon DEF Conn
        <3>3. Quiet(q)
            BY <1>2, <3>1 DEF Conn, Quiet, Served
        <3>4. QED BY <2>1, <2>3, <3>1, <3>2, <3>3, QuietFine
    <2>4. CASE n # r.count
        <3>1. PICK q : q = [r EXCEPT !.count = r.count - n]
            OBVIOUS
        <3>2. r.count - n \in 0..Size /\ r.count # 0
            BY <2>2, <2>4, HttpAssumption
        <3>3. q \in Conn
            BY <1>2, <3>1, <3>2, Zenon DEF Conn
        <3>4. /\ q.response = r.response /\ q.busy = r.busy /\ q.on_read = r.on_read
              /\ q.listed = r.listed /\ q.on_ready = r.on_ready
            BY <1>2, <3>1 DEF Conn
        <3>5. Served(q)
            BY <1>2, <2>2, <3>2, <3>4, Zenon DEF Served
        <3>6. QED BY <2>1, <2>4, <3>1, <3>3, <3>5 DEF Fine
    <2>5. QED BY <2>3, <2>4
<1>11. QED BY <1>4, <1>5, <1>6, <1>7, <1>8, <1>9, <1>10 DEF HttpStep

(* A packet sets the handler of a socket just when it marks it busy, and   *)
(* an overflow takes both back; nobody's listing changes.                  *)
LEMMA OnTsKeeps ==
    ASSUME HttpInv, OnTs
    PROVE  HttpInv' /\ \A c \in Client : conn'[c].listed = conn[c].listed
<1>1. \A c \in Client : Fine(conn'[c]) /\ conn'[c].listed = conn[c].listed
    <2> SUFFICES ASSUME NEW c \in Client
                 PROVE  Fine(conn'[c]) /\ conn'[c].listed = conn[c].listed
        OBVIOUS
    <2>1. PICK r, q : r = conn[c] /\ q = conn'[c]
        OBVIOUS
    <2>2. r \in Conn /\ Served(r) /\ r.count \in 0..Size
        BY <2>1 DEF HttpInv, HttpTypeOK, Conn
    <2>3. CASE ~Attached(c)
        BY <2>1, <2>2, <2>3 DEF OnTs, Fine
    <2>4. CASE Attached(c) /\ Overflows(r)
        <3>1. q = IF r.busy THEN [r EXCEPT !.count = 0, !.on_ready = "none", !.busy = FALSE]
                            ELSE [r EXCEPT !.count = 0]
            BY <2>1, <2>4 DEF OnTs, Overflow
        <3>2. q \in Conn
            BY <2>2, <3>1, Numbers, Zenon DEF Conn
        <3>3. /\ q.count = 0 /\ q.busy = FALSE /\ q.listed = r.listed
              /\ q.response = r.response /\ q.on_read = r.on_read
              /\ r.busy => q.on_ready = "none"
              /\ ~r.busy => q.on_ready = r.on_ready
            BY <2>2, <3>1 DEF Conn
        <3>4. Quiet(q)
            BY <2>1, <2>2, <2>4, <3>3 DEF Served, Quiet, Attached
        <3>5. QED BY <2>1, <3>2, <3>3, <3>4, QuietFine
    <2>5. CASE Attached(c) /\ ~Overflows(r)
        <3>1. PICK more : more = [r EXCEPT !.count = r.count + 1]
            OBVIOUS
        <3>2. q = IF ~r.busy /\ more.count >= Fill
                  THEN [more EXCEPT !.on_ready = "upstream", !.busy = TRUE]
                  ELSE more
            BY <2>1, <2>5, <3>1 DEF OnTs, Store
        <3>3. r.count + 1 \in 0..Size
            BY <2>2, <2>5, HttpAssumption DEF Overflows
        <3>4. more \in Conn
            BY <2>2, <3>1, <3>3, Zenon DEF Conn
        <3>5. /\ more.count = r.count + 1 /\ more.busy = r.busy
              /\ more.listed = r.listed /\ more.response = r.response
              /\ more.on_read = r.on_read /\ more.on_ready = r.on_ready
            BY <2>2, <3>1 DEF Conn
        <3>6. CASE ~r.busy /\ more.count >= Fill
            <4>1. q = [more EXCEPT !.on_ready = "upstream", !.busy = TRUE]
                BY <3>2, <3>6
            <4>2. q \in Conn
                BY <3>4, <4>1, Zenon DEF Conn
            <4>3. /\ q.busy = TRUE /\ q.listed = r.listed /\ q.response = r.response
                  /\ q.on_read = r.on_read /\ q.on_ready = "upstream"
                BY <3>4, <3>5, <4>1 DEF Conn
            <4>4. Served(q)
                BY <2>1, <2>2, <2>5, <4>3, Zenon DEF Served, Attached
            <4>5. QED BY <2>1, <4>2, <4>3, <4>4 DEF Fine
        <3>7. CASE ~(~r.busy /\ more.count >= Fill)
            <4>1. q = more
                BY <3>2, <3>7
            <4>2. Served(q)
                BY <2>1, <2>2, <2>5, <3>5, <3>7, <4>1, Zenon DEF Served, Attached
            <4>3. QED BY <2>1, <3>4, <3>5, <4>1, <4>2 DEF Fine
        <3>8. QED BY <3>6, <3>7
    <2>6. QED BY <2>3, <2>4, <2>5
<1>2. conn' = [c \in Client |-> conn'[c]]
    BY DEF OnTs
<1>3. QED BY <1>1, <1>2 DEF HttpInv, HttpTypeOK, Fine
-------------------------------------------------------------------------------
(* Receivers                                                               *)

(* what a receiver in use may become *)
Busy(r) == r \in Receiver /\ InUse(r)

(* A request that was made, one that failed, and one that goes on.         *)
LEMMA BusyForms ==
    /\ Idle \in Receiver /\ Busy(Failed)
    /\ \A r \in Requests : Busy(r)
    /\ Busy([Idle EXCEPT !.request = "reading"])
    /\ Busy([Idle EXCEPT !.request = "streaming", !.timer = "activity"])
<1>1. Idle \in Receiver
    BY DEF Idle, Receiver
<1>2. Busy(Failed)
    BY DEF Failed, Idle, Receiver, Busy, InUse
<1>3. ASSUME NEW r \in Requests
      PROVE  Busy(r)
    <2>1. PICK q \in {"unresolved", "connecting"} :
            r = [request |-> q, timer |-> "request", retry |-> FALSE]
        BY <1>3 DEF Requests
    <2>2. QED BY <2>1 DEF Idle, Receiver, Busy, InUse
<1>4. Busy([Idle EXCEPT !.request = "reading"])
    BY DEF Idle, Receiver, Busy, InUse
<1>5. Busy([Idle EXCEPT !.request = "streaming", !.timer = "activity"])
    BY DEF Idle, Receiver, Busy, InUse
<1>6. QED BY <1>1, <1>2, <1>3, <1>4, <1>5

(* Whatever happens to a request, its receiver goes on trying.             *)
LEMMA HttpInputStepKeeps ==
    ASSUME ReceiverInv, NEW s \in Http, HttpInputStep(s), UNCHANGED users
    PROVE  ReceiverInv'
<1>1. PICK r : r = receiver[s]
    OBVIOUS
<1>2. receiver \in [Http -> Receiver] /\ r \in Receiver
    BY <1>1 DEF ReceiverInv, ReceiverTypeOK
<1>3. r # Idle
    <2>1. r.request # "none" \/ r.timer # "none" \/ r.retry = TRUE
        BY <1>1, <1>2 DEF HttpInputStep, OnConnect, OnClose, OnRead, OnStream, OnTimeout,
            Retry, Receiver
    <2>2. QED BY <2>1 DEF Idle
<1>4. users[s] # 0 /\ InUse(r)
    BY <1>1, <1>3 DEF ReceiverInv
<1>5. \E q : Busy(q) /\ Receives(s, q)
    <2>1. CASE OnConnect(s)
        <3>1. PICK q : q = [r EXCEPT !.request = "sent", !.timer = "request"]
            OBVIOUS
        <3>2. r.request = "connecting" /\ r.retry = FALSE
            BY <1>1, <1>2, <1>4, <2>1 DEF OnConnect, InUse, Receiver
        <3>3. q = [request |-> "sent", timer |-> "request", retry |-> FALSE]
            BY <1>2, <3>1, <3>2 DEF Receiver
        <3>4. Busy(q)
            BY <3>3 DEF Idle, Receiver, Busy, InUse
        <3>5. QED BY <1>1, <2>1, <3>1, <3>4 DEF OnConnect
    <2>2. \A q \in Answered : Busy(q)
        BY BusyForms DEF Answered
    <2>3. CASE OnClose(s)
        BY <2>2, <2>3, BusyForms DEF OnClose
    <2>4. CASE OnRead(s)
        BY <2>2, <2>4, BusyForms DEF OnRead
    <2>5. CASE OnStream(s) \/ OnTimeout(s) \/ Retry(s)
        BY <2>5, BusyForms DEF OnStream, OnTimeout, Retry
    <2>6. QED BY <2>1, <2>3, <2>4, <2>5 DEF HttpInputStep
<1>6. PICK q : Busy(q) /\ receiver' = [receiver EXCEPT ![s] = q]
    BY <1>5 DEF Receives
<1>7. receiver' \in [Http -> Receiver]
    BY <1>2, <1>6 DEF Busy
<1>8. ASSUME NEW t \in Http
      PROVE  IF users'[t] = 0 THEN receiver'[t] = Idle ELSE InUse(receiver'[t])
    <2>1. IF users[t] = 0 THEN receiver[t] = Idle ELSE InUse(receiver[t])
        BY DEF ReceiverInv
    <2>2. CASE t = s
        BY <1>2, <1>4, <1>6, <2>2 DEF Busy
    <2>3. CASE t # s
        BY <1>2, <1>6, <2>1, <2>3
    <2>4. QED BY <2>2, <2>3
<1>9. QED BY <1>7, <1>8 DEF ReceiverInv, ReceiverTypeOK

(* The first user makes a request, the last one leaves nothing behind.     *)
LEMMA ReceiversKeep ==
    ASSUME ReceiverInv, users \in [Source -> 0..N], users' \in [Source -> 0..N], Receivers
    PROVE  ReceiverInv'
<1> DEFINE new == {s \in Http : users[s] = 0 /\ users'[s] > 0}
<1>1. PICK first \in [new -> Requests] :
        receiver' = [s \in Http |->
            IF s \in new THEN first[s]
            ELSE IF users'[s] = 0 THEN Idle ELSE receiver[s]]
    BY DEF Receivers
<1>2. ASSUME NEW s \in Http
      PROVE  /\ receiver'[s] \in Receiver
             /\ IF users'[s] = 0 THEN receiver'[s] = Idle ELSE InUse(receiver'[s])
    <2>1. users[s] \in 0..N /\ users'[s] \in 0..N /\ N \in Nat
        BY ChannelAssumption, FailoverAssumption
    <2>2. /\ receiver[s] \in Receiver
          /\ IF users[s] = 0 THEN receiver[s] = Idle ELSE InUse(receiver[s])
        BY DEF ReceiverInv, ReceiverTypeOK
    <2>3. CASE s \in new
        <3>1. receiver'[s] \in Requests /\ users'[s] # 0
            BY <1>1, <2>3
        <3>2. QED BY <3>1, BusyForms DEF Busy
    <2>4. CASE s \notin new /\ users'[s] = 0
        BY <1>1, <2>4, BusyForms
    <2>5. CASE s \notin new /\ users'[s] # 0
        <3>1. users[s] # 0
            BY <2>1, <2>5
        <3>2. QED BY <1>1, <2>2, <2>5, <3>1
    <2>6. QED BY <2>3, <2>4, <2>5
<1>3. receiver' = [s \in Http |-> receiver'[s]]
    BY <1>1
<1>4. QED BY <1>2, <1>3 DEF ReceiverInv, ReceiverTypeOK
-------------------------------------------------------------------------------
(* The channel                                                             *)

(* A new channel runs its first input, for clients that always count, or   *)
(* nothing.                                                                *)
LEMMA InitIInv == Init => IInv
<1> SUFFICES ASSUME Init PROVE IInv
    OBVIOUS
<1>1. /\ clients = Permanent /\ clients \in Nat
      /\ active = 0 /\ delay = StartDelay /\ signal \in SUBSET Input
      /\ on_air = [i \in Input |-> "nil"]
      /\ running = IF clients > 0 THEN {1} ELSE {}
      /\ users = [s \in Source |-> IF clients > 0 /\ Of[1] = s THEN 1 ELSE 0]
      /\ cam = Cam \ running /\ clear = Cam \cap running
      /\ upstream = IF clients > 0 THEN 1 ELSE 0
    BY FailoverAssumption DEF Init, FailoverInit
<1>2. running \subseteq Input
    BY <1>1, InputsAreNumbers
<1>3. \A s \in Source : users[s] = Cardinality(At(running, s))
    <2> SUFFICES ASSUME NEW s \in Source
                 PROVE  users[s] = Cardinality(At(running, s))
        OBVIOUS
    <2>1. CASE clients > 0 /\ Of[1] = s
        <3>1. At(running, s) = {1}
            BY <1>1, <2>1 DEF At
        <3>2. QED BY <1>1, <2>1, <3>1, FS_Singleton
    <2>2. CASE ~(clients > 0 /\ Of[1] = s)
        <3>1. At(running, s) = {}
            BY <1>1, <2>2 DEF At
        <3>2. QED BY <1>1, <2>2, <3>1, FS_EmptySet
    <2>3. QED BY <2>1, <2>2
<1>4. InputsOK
    <2>1. users = [s \in Source |-> users[s]]
        BY <1>1
    <2>2. users \in [Source -> 0..N]
        BY <1>2, <1>3, <2>1, UsersInRange
    <2>3. SharedUsers
        BY <1>3 DEF SharedUsers, At
    <2>4. QED BY <1>1, <1>2, <2>2, <2>3 DEF InputsOK
<1>5. BestFeeds /\ OnlyRunning
    <2>1. OnAir(on_air) = {} /\ OnlyRunning
        BY <1>1 DEF OnAir, OnlyRunning
    <2>2. \A i \in running : 1..i \subseteq running
        BY <1>1
    <2>3. (upstream = 0 <=> running = {}) /\ upstream \in running \cup {0}
        BY <1>1
    <2>4. QED BY <2>1, <2>2, <2>3 DEF BestFeeds
<1>6. FailoverTypeOK
    <2>1. on_air \in Air /\ active \in 0..N /\ upstream \in 0..N
        BY <1>1, FailoverAssumption DEF Air
    <2>2. delay \in DelayRange
        BY <1>1, Delays
    <2>3. QED BY <1>1, <1>4, <2>1, <2>2 DEF FailoverTypeOK, InputsOK, Air, DelayRange
<1>7. HttpInv
    BY ClosedFine DEF Init, HttpInit, HttpInv, HttpTypeOK, Fine
<1>8. ReceiverInv
    <2>1. /\ receiver \in [Http -> Requests \cup {Idle}]
          /\ \A s \in Http : receiver[s] = Idle <=> users[s] = 0
        BY DEF Init
    <2>2. QED BY <2>1, BusyForms DEF ReceiverInv, ReceiverTypeOK, Busy
<1>9. ClientsInv
    <2>1. Listed = {}
        BY DEF Init, HttpInit, Listed, Closed
    <2>2. IsFiniteSet(Listed) /\ Cardinality(Listed) = 0
        BY <2>1, FS_EmptySet
    <2>3. others = 0 /\ 0 \in 0..MaxOthers
        BY ChannelAssumption DEF Init
    <2>4. clients = Permanent + others + Cardinality(Listed)
        BY <1>1, <2>2, <2>3, FailoverAssumption
    <2>5. clients > 0 <=> 1 \in running
        BY <1>1
    <2>6. QED BY <2>2, <2>3, <2>4, <2>5 DEF ClientsInv
<1>10. QED BY <1>4, <1>5, <1>6, <1>7, <1>8, <1>9 DEF IInv, FailoverInv

(* Nothing of the failover changes. *)
LEMMA FailoverStutter ==
    ASSUME FailoverInv, UNCHANGED failoverVars
    PROVE  FailoverInv' /\ UNCHANGED <<clients, running, users>>
<1>1. /\ UNCHANGED <<running, users, cam, clear>>
      /\ UNCHANGED <<on_air, active, delay, upstream, clients, signal>>
    BY DEF failoverVars, inputs
<1>2. InputsOK' /\ OnlyRunning' /\ BestFeeds'
    BY <1>1 DEF FailoverInv, InputsOK, SharedUsers, OnlyRunning, BestFeeds, OnAir
<1>3. FailoverTypeOK'
    BY <1>1 DEF FailoverInv, FailoverTypeOK
<1>4. QED BY <1>1, <1>2, <1>3 DEF FailoverInv

(* Nothing of the receivers changes. *)
LEMMA ReceiverStutter ==
    ASSUME ReceiverInv, UNCHANGED <<receiver, users>>
    PROVE  ReceiverInv'
BY DEF ReceiverInv, ReceiverTypeOK

(* The clients of all kinds are counted; the channel runs while there are any. *)
LEMMA CountNatural ==
    ASSUME IInv
    PROVE  /\ clients \in Nat /\ others \in Nat /\ Permanent \in Nat
           /\ Cardinality(Listed) \in Nat
           /\ clients > 0 <=> 1 \in running
           /\ users \in [Source -> 0..N]
BY FailoverAssumption, ChannelAssumption, FS_CardinalityType
    DEF IInv, FailoverInv, FailoverTypeOK, ClientsInv

(* The connection of a client gets on: whether it begins to count, or      *)
(* ceases to, the callback is called once.                                 *)
LEMMA ServeKeeps ==
    ASSUME IInv, NEW c \in Client, Serve(c)
    PROVE  IInv'
<1>1. HttpInv' /\ \A d \in Client \ {c} : conn'[d] = conn[d]
    BY HttpStepKeeps DEF IInv, Serve
<1>2. others' = others
    BY DEF Serve
<1>3. CASE conn[c].listed = conn'[c].listed /\ UNCHANGED <<failoverVars, receiver>>
    <2>1. Listed' = Listed
        BY <1>1, <1>3 DEF Listed
    <2>2. FailoverInv' /\ UNCHANGED <<clients, running, users>>
        BY <1>3, FailoverStutter DEF IInv
    <2>3. ReceiverInv'
        BY <1>3, <2>2, ReceiverStutter DEF IInv
    <2>4. ClientsInv'
        BY <1>2, <2>1, <2>2 DEF IInv, ClientsInv
    <2>5. QED BY <1>1, <2>2, <2>3, <2>4 DEF IInv
<1>4. CASE ~conn[c].listed /\ conn'[c].listed /\ Join /\ Receivers
    <2>1. Listed' = Listed \cup {c} /\ c \notin Listed
        BY <1>1, <1>4 DEF Listed
    <2>2. FailoverInv' /\ clients' = clients + 1 /\ 1 \in running'
        BY <1>4, JoinKeeps DEF IInv
    <2>3. ReceiverInv'
        <3>1. users' \in [Source -> 0..N]
            BY <2>2 DEF FailoverInv, InputsOK
        <3>2. QED BY <1>4, <3>1, CountNatural, ReceiversKeep DEF IInv
    <2>4. IsFiniteSet(Listed') /\ Cardinality(Listed') = Cardinality(Listed) + 1
        BY <2>1, FS_AddElement DEF IInv, ClientsInv
    <2>5. clients' = Permanent + others' + Cardinality(Listed') /\ clients' > 0
        BY <1>2, <2>2, <2>4, CountNatural DEF IInv, ClientsInv
    <2>6. ClientsInv'
        BY <1>2, <2>2, <2>4, <2>5 DEF IInv, ClientsInv
    <2>7. QED BY <1>1, <2>2, <2>3, <2>6 DEF IInv
<1>5. CASE conn[c].listed /\ ~conn'[c].listed /\ Leave /\ Receivers
    <2>1. Listed' = Listed \ {c} /\ c \in Listed
        BY <1>1, <1>5 DEF Listed
    <2>2. /\ IsFiniteSet(Listed') /\ Cardinality(Listed') = Cardinality(Listed) - 1
          /\ Cardinality(Listed') \in Nat
        <3>1. IsFiniteSet(Listed') /\ Cardinality(Listed') = Cardinality(Listed) - 1
            BY <2>1, FS_RemoveElement DEF IInv, ClientsInv
        <3>2. QED BY <3>1, FS_CardinalityType
    <2>3. clients > 0 /\ 1 \in running
        BY <2>2, CountNatural DEF IInv, ClientsInv
    <2>4. FailoverInv' /\ clients' = clients - 1 /\ (clients' > 0 <=> 1 \in running')
        BY <1>5, <2>3, LeaveKeeps DEF IInv
    <2>5. ReceiverInv'
        <3>1. users' \in [Source -> 0..N]
            BY <2>4 DEF FailoverInv, InputsOK
        <3>2. QED BY <1>5, <3>1, CountNatural, ReceiversKeep DEF IInv
    <2>6. clients' = Permanent + others' + Cardinality(Listed')
        BY <1>2, <2>2, <2>4, CountNatural DEF IInv, ClientsInv
    <2>7. ClientsInv'
        BY <1>2, <2>2, <2>4, <2>6 DEF IInv, ClientsInv
    <2>8. QED BY <1>1, <2>4, <2>5, <2>7 DEF IInv
<1>6. QED BY <1>3, <1>4, <1>5 DEF Serve, OnRequest

(* A step that leaves the connections alone leaves the list of those that  *)
(* count alone.                                                            *)
LEMMA ConnStutter ==
    ASSUME HttpInv, UNCHANGED conn
    PROVE  HttpInv' /\ Listed' = Listed
BY DEF HttpInv, HttpTypeOK, Listed

(* Clients of other servers come and go. *)
LEMMA ElsewhereKeeps ==
    ASSUME IInv, Elsewhere
    PROVE  IInv'
<1>1. HttpInv' /\ Listed' = Listed
    BY ConnStutter DEF IInv, Elsewhere
<1>2. CASE others < MaxOthers /\ others' = others + 1 /\ Join
    <2>1. FailoverInv' /\ clients' = clients + 1 /\ 1 \in running'
        BY <1>2, JoinKeeps DEF IInv
    <2>2. users' \in [Source -> 0..N]
        BY <2>1 DEF FailoverInv, InputsOK
    <2>3. ReceiverInv'
        BY <2>2, CountNatural, ReceiversKeep DEF IInv, Elsewhere
    <2>4. others' \in 0..MaxOthers /\ clients' > 0
        BY <1>2, <2>1, CountNatural, ChannelAssumption
    <2>5. clients' = Permanent + others' + Cardinality(Listed')
        BY <1>1, <1>2, <2>1, CountNatural DEF IInv, ClientsInv
    <2>6. ClientsInv'
        BY <1>1, <2>1, <2>4, <2>5 DEF IInv, ClientsInv
    <2>7. QED BY <1>1, <2>1, <2>3, <2>6 DEF IInv
<1>3. CASE others > 0 /\ others' = others - 1 /\ Leave
    <2>1. clients > 0 /\ 1 \in running
        BY <1>3, CountNatural DEF IInv, ClientsInv
    <2>2. FailoverInv' /\ clients' = clients - 1 /\ (clients' > 0 <=> 1 \in running')
        BY <1>3, <2>1, LeaveKeeps DEF IInv
    <2>3. users' \in [Source -> 0..N]
        BY <2>2 DEF FailoverInv, InputsOK
    <2>4. ReceiverInv'
        BY <2>3, CountNatural, ReceiversKeep DEF IInv, Elsewhere
    <2>5. others' \in 0..MaxOthers
        BY <1>3, CountNatural, ChannelAssumption DEF IInv, ClientsInv
    <2>6. clients' = Permanent + others' + Cardinality(Listed')
        BY <1>1, <1>3, <2>2, CountNatural DEF IInv, ClientsInv
    <2>7. ClientsInv'
        BY <1>1, <2>2, <2>5, <2>6 DEF IInv, ClientsInv
    <2>8. QED BY <1>1, <2>2, <2>4, <2>7 DEF IInv
<1>4. QED BY <1>2, <1>3 DEF Elsewhere

(* Reports neither start the channel nor stop it. *)
LEMMA AnalyzeKeeps ==
    ASSUME IInv, NEW i \in Input, Analyze(i)
    PROVE  IInv'
<1>1. HttpInv' /\ Listed' = Listed /\ others' = others
    BY ConnStutter DEF IInv, Analyze
<1>2. PICK good \in BOOLEAN : Report(i, good)
    <2>1. Good(i) \in BOOLEAN
        BY DEF Good
    <2>2. QED BY <2>1 DEF Analyze
<1>3. FailoverInv' /\ clients' = clients /\ 1 \in running /\ 1 \in running'
    BY <1>2, ReportKeeps DEF IInv
<1>4. users' \in [Source -> 0..N]
    BY <1>3 DEF FailoverInv, InputsOK
<1>5. ReceiverInv'
    BY <1>4, CountNatural, ReceiversKeep DEF IInv, Analyze
<1>6. ClientsInv'
    BY <1>1, <1>3 DEF IInv, ClientsInv
<1>7. QED BY <1>1, <1>3, <1>5, <1>6 DEF IInv

(* What neither starts nor stops anything, nor serves a client. *)
LEMMA OthersKeep ==
    ASSUME IInv,
           \/ \E i \in Input : World(i)
           \/ \E s \in Http : Receive(s)
           \/ UNCHANGED vars
    PROVE  IInv'
<1>1. HttpInv' /\ Listed' = Listed /\ others' = others
    <2>1. UNCHANGED <<conn, others>>
        BY DEF World, Receive, Alone, vars
    <2>2. QED BY <2>1, ConnStutter DEF IInv
<1>2. FailoverInv' /\ UNCHANGED <<clients, running, users>>
    BY TurnKeeps, FailoverStutter DEF IInv, World, Receive, Alone, vars
<1>3. ReceiverInv'
    BY <1>2, ReceiverStutter, HttpInputStepKeeps DEF IInv, World, Receive, vars
<1>4. ClientsInv'
    BY <1>1, <1>2 DEF IInv, ClientsInv
<1>5. QED BY <1>1, <1>2, <1>3, <1>4 DEF IInv

(* A packet reaches those that are attached. *)
LEMMA PacketKeeps ==
    ASSUME IInv, Packet
    PROVE  IInv'
<1>1. HttpInv' /\ \A c \in Client : conn'[c].listed = conn[c].listed
    BY OnTsKeeps DEF IInv, Packet
<1>2. Listed' = Listed
    BY <1>1 DEF Listed
<1>3. FailoverInv' /\ UNCHANGED <<clients, running, users>>
    BY FailoverStutter DEF IInv, Packet
<1>4. ReceiverInv'
    BY <1>3, ReceiverStutter DEF IInv, Packet
<1>5. ClientsInv'
    BY <1>2, <1>3 DEF IInv, ClientsInv, Packet
<1>6. QED BY <1>1, <1>3, <1>4, <1>5 DEF IInv

(* Every step keeps the invariant. *)
LEMMA StepIInv == IInv /\ [Next]_vars => IInv'
BY ServeKeeps, ElsewhereKeeps, AnalyzeKeeps, OthersKeep, PacketKeeps DEF Next

(* The invariant holds of every behaviour. *)
LEMMA Invariant == Spec => []IInv
BY InitIInv, StepIInv, PTL DEF Spec
-------------------------------------------------------------------------------
(* Types: a receiver's users are no more than the inputs, a buffer does    *)
(* not overflow, and the delay that is counted down does not pass zero.    *)
THEOREM TypesOK == Spec => []TypeOK
<1>1. IInv => TypeOK
    BY DEF IInv, TypeOK, FailoverInv, HttpInv, ReceiverInv, ClientsInv
<1>2. QED BY <1>1, Invariant, PTL

(* The best input that is known to be on air feeds the channel, and the    *)
(* inputs that run are the first of the list, of any length (stream.lua:   *)
(* start_reserve, on_analyze_channel).                                     *)
THEOREM BestInputFeeds == Spec => []BestFeeds
<1>1. IInv => BestFeeds
    BY DEF IInv, FailoverInv
<1>2. QED BY <1>1, Invariant, PTL

(* Users of receivers and clients of the channel are counted exactly       *)
(* (base.lua: init_input_module, stream.lua: http_output_on_request).      *)
THEOREM AllAreCounted == Spec => []Counted
<1>1. IInv => Counted
    BY DEF IInv, FailoverInv, InputsOK, ClientsInv, HttpInv, Served, Counted,
        Listed, Attached
<1>2. QED BY <1>1, Invariant, PTL

(* No buffer that is full enough waits without a handler, and no receiver  *)
(* in use without a request or a timer (upstream.c: on_ts; base.lua:       *)
(* init_input_module.http).                                                *)
THEOREM NothingStalls == Spec => []NoStall
<1>1. ASSUME IInv
      PROVE  NoStall
    <2>1. ASSUME NEW c \in Client, Attached(c)
          PROVE  /\ conn[c].busy <=> conn[c].on_ready = "upstream"
                 /\ conn[c].count >= Fill => conn[c].busy
        BY <1>1, <2>1 DEF IInv, HttpInv, Served, Attached
    <2>2. ASSUME NEW s \in Http
          PROVE  /\ users[s] = 0 <=> receiver[s] = Idle
                 /\ users[s] > 0 => receiver[s].retry # (receiver[s].request # "none")
                 /\ receiver[s].request = "none" => receiver[s].timer = "none"
        <3>1. IF users[s] = 0 THEN receiver[s] = Idle ELSE InUse(receiver[s])
            BY <1>1 DEF IInv, ReceiverInv
        <3>2. CASE users[s] = 0
            BY <3>1, <3>2 DEF Idle
        <3>3. CASE users[s] # 0
            <4>1. receiver[s].retry \in BOOLEAN
                BY <1>1 DEF IInv, ReceiverInv, ReceiverTypeOK, Receiver
            <4>2. QED BY <3>1, <3>3, <4>1, Zenon DEF InUse
        <3>4. QED BY <3>2, <3>3
    <2>3. QED BY <2>1, <2>2 DEF NoStall
<1>2. QED BY <1>1, Invariant, PTL
===============================================================================
