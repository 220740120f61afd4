---------------------------- MODULE Workers_proofs ----------------------------
(***************************************************************************)
(* Proofs about Workers: for any set of clients, orphans among them or     *)
(* not, and a job queue of any size, flushed or not.                       *)
(***************************************************************************)
EXTENDS Workers, FiniteSetTheorems, SequenceTheorems, NaturalsInduction,
        WellFoundedInduction, TLAPS

Job == {ReadJob(c) : c \in Client} \cup {ExitJob(c) : c \in Client}

(* The clients whose thread is not joined yet.                             *)
Live == {c \in Client : thread[c] # "none"}

Stages == {"none", "loop", "block", "return", "dead"}

Places == {"lua", "jobs", "read", "lua_close", "core_destroy", "stopped", "crashed"}

Closings == [at : {"none", "join", "prune"}, c : Client \cup {NoClient}, del : BOOLEAN]

Types ==
    /\ thread \in [Client -> Stages]
    /\ jobs \in Seq(Job)
    /\ Len(jobs) <= JobQueueSize
    /\ lost \subseteq Client
    /\ main \in Places
    /\ reading \in Client \cup {NoClient}
    /\ closing \in Closings
    /\ callbacks \in Seq(Client \cup {NoClient})

Flags ==
    /\ mod \in [Client -> BOOLEAN]
    /\ run \in [Client -> BOOLEAN]
    /\ out \in [Client -> BOOLEAN]

(* The list and the wake up pipe know of every thread, and of no other.    *)
Listed ==
    /\ list \in Seq(Client)
    /\ Jobs(list) = Live
    /\ wake_cnt = Cardinality(Live)

(* A thread has a module and a buffer, and the buffer goes with it.        *)
Owned ==
    /\ \A c \in Client : thread[c] # "none" => mod[c] /\ out[c]
    /\ \A c \in Client : out[c] => \/ thread[c] # "none"
                                   \/ closing.at = "prune" /\ closing.c = c

(* on_thread_close works on a module that is still there and that no call  *)
(* below it is about to free; it waits only for a thread that is there,    *)
(* and frees the buffer only after it.                                     *)
Closes ==
    /\ closing.at = "none" => closing = NotClosing
    /\ closing.at # "none" => /\ closing.c \in Client
                              /\ mod[closing.c]
                              /\ closing.c \notin Jobs(callbacks)
    /\ closing.at = "join" => thread[closing.c] # "none"
    /\ closing.at = "prune" => thread[closing.c] = "none"

(* Each module that is freed when a callback returns is freed by one of    *)
(* them only, and has neither thread nor buffer then.                      *)
Frees ==
    /\ \A i, j \in DOMAIN callbacks :
           callbacks[i] = callbacks[j] => i = j \/ callbacks[i] = NoClient
    /\ \A c \in Client :
           c \in Jobs(callbacks) => mod[c] /\ thread[c] = "none" /\ ~out[c]

(* The buffer on_thread_read works on is there, or gone for good.          *)
Reads == reading # NoClient => main = "read" /\ out[reading]

(* Once Lua is closed no Lua code runs and only orphans are left.          *)
Stops ==
    /\ main \in {"core_destroy", "stopped", "crashed"} => callbacks = <<>>
    /\ main = "core_destroy" => \A c \in Client \ Orphan : ~mod[c]
    /\ main = "stopped" => list = <<>>
    /\ main \in {"stopped", "crashed"} => closing = NotClosing

IInv ==
    /\ Types /\ Flags /\ Listed
    /\ Owned /\ Closes /\ Frees /\ Reads /\ RefsLive /\ Stops
-------------------------------------------------------------------------------
(* The queue and the list                                                  *)

(* A set of numbers has a least one.                                       *)
LEMMA HasLeast ==
    ASSUME NEW S \in SUBSET Nat, S # {}
    PROVE  \E x \in S : \A y \in S : x <= y
<1> DEFINE less == OpToRel(<, Nat)
<1>1. IsWellFoundedOn(less, Nat)
    BY NatLessThanWellFounded
<1>2. \A x, y \in Nat : y < x => <<y, x>> \in less
    BY Zenon DEF OpToRel
<1> HIDE DEF less
<1>3. PICK x \in S : \A y \in S : ~(<<y, x>> \in less)
    BY <1>1, WFMin, Zenon
<1>4. S \subseteq Nat /\ \A y \in S : ~(y < x)
    BY <1>2, <1>3, Zenon
<1>5. QED BY <1>4

(* kept[i] is what is left of the first i elements of q, for i up to n.    *)
Keeps(kept, q, T, n) ==
    kept = [i \in 0..n |->
               IF i = 0 THEN <<>>
               ELSE IF q[i] \in T THEN kept[i - 1] ELSE Append(kept[i - 1], q[i])]

(* Its values, one by one.                                                 *)
LEMMA KeepsValues ==
    ASSUME NEW kept, NEW q, NEW T, NEW n \in Nat, Keeps(kept, q, T, n)
    PROVE  /\ kept[0] = <<>>
           /\ \A i \in 1..n :
                 kept[i] = IF q[i] \in T THEN kept[i - 1]
                           ELSE Append(kept[i - 1], q[i])
<1>1. \A i \in 0..n : kept[i] =
               IF i = 0 THEN <<>>
               ELSE IF q[i] \in T THEN kept[i - 1] ELSE Append(kept[i - 1], q[i])
    BY Zenon DEF Keeps
<1>2. QED BY <1>1

(* There is such a function.                                               *)
LEMMA KeepsExists ==
    ASSUME NEW q, NEW T
    PROVE  \A n \in Nat : \E kept : Keeps(kept, q, T, n)
<1> DEFINE bad == {n \in Nat : ~ \E kept : Keeps(kept, q, T, n)}
<1>1. SUFFICES ASSUME bad # {} PROVE FALSE
    OBVIOUS
<1>2. PICK n \in bad : \A m \in bad : n <= m
    BY <1>1, HasLeast
<1>3. CASE n = 0
    <2>1. Keeps([i \in 0..0 |-> <<>>], q, T, 0)
        BY DEF Keeps
    <2>2. QED BY <1>2, <1>3, <2>1
<1>4. CASE n # 0
    <2>1. n - 1 \in Nat /\ n - 1 \notin bad
        BY <1>2, <1>4
    <2>2. PICK g : Keeps(g, q, T, n - 1)
        BY <2>1
    <2>3. DEFINE last == IF q[n] \in T THEN g[n - 1] ELSE Append(g[n - 1], q[n])
                 h == [i \in 0..n |-> IF i = n THEN last ELSE g[i]]
    <2>4. h[0] = <<>> /\ h[n] = last /\ h[n - 1] = g[n - 1]
        BY <1>2, <1>4, <2>1, <2>2, KeepsValues
    <2>5. \A i \in 1..(n - 1) : h[i] = IF q[i] \in T THEN h[i - 1]
                                       ELSE Append(h[i - 1], q[i])
        BY <1>2, <1>4, <2>1, <2>2, KeepsValues
    <2>6. Keeps(h, q, T, n)
        <3> HIDE DEF h, last
        <3>1. h = [i \in 0..n |-> h[i]]
            BY DEF h
        <3>2. \A i \in 0..n : h[i] = IF i = 0 THEN <<>>
                              ELSE IF q[i] \in T THEN h[i - 1]
                                                 ELSE Append(h[i - 1], q[i])
            BY <1>2, <1>4, <2>4, <2>5 DEF last
        <3>3. QED BY <3>1, <3>2 DEF Keeps
    <2>7. QED BY <1>2, <2>6
<1>5. QED BY <1>3, <1>4

(* Without leaves the elements that are not in T, and no other.            *)
LEMMA WithoutLeaves ==
    ASSUME NEW S, NEW q \in Seq(S), NEW T
    PROVE  /\ Without(q, T) \in Seq(S)
           /\ Len(Without(q, T)) <= Len(q)
           /\ Jobs(Without(q, T)) = Jobs(q) \ T
<1> DEFINE g == CHOOSE f : Keeps(f, q, T, Len(q))
<1>1. Keeps(g, q, T, Len(q))
    BY KeepsExists
<1>2. Without(q, T) = g[Len(q)]
    BY DEF Without, Keeps
<1> HIDE DEF g
<1>3. /\ g[0] = <<>>
      /\ \A i \in 1..Len(q) :
            g[i] = IF q[i] \in T THEN g[i - 1] ELSE Append(g[i - 1], q[i])
    BY <1>1, KeepsValues
<1> DEFINE good(n) ==
        /\ g[n] \in Seq(S)
        /\ Len(g[n]) <= n
        /\ \A i \in 1..Len(g[n]) :
              \E j \in 1..n : g[n][i] = q[j] /\ q[j] \notin T
        /\ \A j \in 1..n : q[j] \notin T =>
              \E i \in 1..Len(g[n]) : g[n][i] = q[j]
    bad == {n \in 0..Len(q) : ~good(n)}
<1>4. good(0)
    BY <1>3
<1>5. ASSUME NEW n \in 1..Len(q), good(n - 1)
      PROVE  good(n)
    <2>1. CASE q[n] \in T
        <3>1. g[n] = g[n - 1]
            BY <1>3, <2>1
        <3>2. QED BY <1>5, <2>1, <3>1
    <2>2. CASE q[n] \notin T
        <3>1. g[n] = Append(g[n - 1], q[n]) /\ q[n] \in S
            <4>1. q[n] \in S
                BY ElementOfSeq
            <4>2. QED BY <1>3, <2>2, <4>1
        <3> DEFINE h == g[n - 1]
        <3>2. /\ h \in Seq(S)
              /\ Len(h) <= n - 1
              /\ \A i \in 1..Len(h) :
                    \E j \in 1..(n - 1) : h[i] = q[j] /\ q[j] \notin T
              /\ \A j \in 1..(n - 1) : q[j] \notin T =>
                    \E i \in 1..Len(h) : h[i] = q[j]
            BY <1>5
        <3> HIDE DEF h
        <3>3. /\ Append(h, q[n]) \in Seq(S)
              /\ Len(Append(h, q[n])) = Len(h) + 1
              /\ \A i \in 1..Len(h) : Append(h, q[n])[i] = h[i]
              /\ Append(h, q[n])[Len(h) + 1] = q[n]
            BY <3>1, <3>2
        <3>4. ASSUME NEW i \in 1..(Len(h) + 1)
              PROVE  \E j \in 1..n : Append(h, q[n])[i] = q[j] /\ q[j] \notin T
            <4>1. CASE i = Len(h) + 1
                BY <2>2, <3>3, <4>1
            <4>2. CASE i \in 1..Len(h)
                BY <3>2, <3>3, <4>2
            <4>3. QED BY <3>2, <4>1, <4>2
        <3>5. ASSUME NEW j \in 1..n, q[j] \notin T
              PROVE  \E i \in 1..(Len(h) + 1) : Append(h, q[n])[i] = q[j]
            <4>1. Len(h) \in Nat
                BY <3>2
            <4>2. CASE j = n
                BY <3>3, <4>1, <4>2
            <4>3. CASE j \in 1..(n - 1)
                BY <3>2, <3>3, <3>5, <4>1, <4>3
            <4>4. QED BY <4>2, <4>3
        <3>6. g[n] = Append(h, q[n])
            BY <3>1 DEF h
        <3> DEFINE p == Append(h, q[n])
        <3>7. /\ p \in Seq(S)
              /\ Len(p) = Len(h) + 1
              /\ \A i \in 1..Len(p) : \E j \in 1..n : p[i] = q[j] /\ q[j] \notin T
              /\ \A j \in 1..n : q[j] \notin T => \E i \in 1..Len(p) : p[i] = q[j]
            BY <3>3, <3>4, <3>5
        <3>8. g[n] = p
            BY <3>6
        <3> HIDE DEF p
        <3>9. Len(p) <= n
            BY <3>2, <3>7
        <3>10. QED BY <3>7, <3>8, <3>9
    <2>3. QED BY <2>1, <2>2
<1> HIDE DEF good
<1>6. bad = {}
    <2>1. SUFFICES ASSUME bad # {} PROVE FALSE
        OBVIOUS
    <2> bad \in SUBSET Nat
        OBVIOUS
    <2>2. PICK n \in bad : \A m \in bad : n <= m
        <3> HIDE DEF bad
        <3>1. QED BY <2>1, HasLeast
    <2>3. n # 0
        BY <1>4, <2>2
    <2>4. n \in 1..Len(q) /\ good(n - 1)
        BY <2>2, <2>3
    <2>5. QED BY <1>5, <2>2, <2>4
<1>7. good(Len(q))
    BY <1>6
<1> DEFINE w == g[Len(q)]
<1>8. /\ w \in Seq(S)
      /\ Len(w) <= Len(q)
      /\ \A i \in 1..Len(w) : \E j \in 1..Len(q) : w[i] = q[j] /\ q[j] \notin T
      /\ \A j \in 1..Len(q) : q[j] \notin T => \E i \in 1..Len(w) : w[i] = q[j]
    BY <1>7 DEF good
<1> HIDE DEF w
<1>9. Jobs(w) = Jobs(q) \ T
    <2>1. DOMAIN q = 1..Len(q) /\ DOMAIN w = 1..Len(w)
        BY <1>8, LenProperties
    <2>2. /\ Jobs(q) = {q[i] : i \in 1..Len(q)}
          /\ Jobs(w) = {w[i] : i \in 1..Len(w)}
        BY <2>1, Zenon DEF Jobs
    <2>3. \A x \in Jobs(w) : x \in Jobs(q) /\ x \notin T
        BY <1>8, <2>2
    <2>4. \A x \in Jobs(q) : x \notin T => x \in Jobs(w)
        BY <1>8, <2>2
    <2>5. QED BY <2>3, <2>4
<1>10. QED BY <1>2, <1>8, <1>9 DEF w

(* A new element at the end.                                               *)
LEMMA AppendAdds ==
    ASSUME NEW S, NEW q \in Seq(S), NEW x \in S
    PROVE  /\ Append(q, x) \in Seq(S)
           /\ Len(Append(q, x)) = Len(q) + 1
           /\ Jobs(Append(q, x)) = Jobs(q) \cup {x}
<1>1. /\ Append(q, x) \in Seq(S)
      /\ Len(Append(q, x)) = Len(q) + 1
      /\ \A i \in 1..Len(q) : Append(q, x)[i] = q[i]
      /\ Append(q, x)[Len(q) + 1] = x
      /\ Len(q) \in Nat
    OBVIOUS
<1> DEFINE p == Append(q, x)
<1>2. p \in Seq(S)
    BY <1>1
<1> HIDE DEF p
<1>3. DOMAIN q = 1..Len(q) /\ DOMAIN p = 1..Len(p)
    BY <1>2, LenProperties
<1>4. /\ Len(p) = Len(q) + 1
      /\ \A i \in 1..Len(q) : p[i] = q[i]
      /\ p[Len(q) + 1] = x
    BY <1>1 DEF p
<1>5. Jobs(p) \subseteq Jobs(q) \cup {x}
    BY <1>1, <1>3, <1>4 DEF Jobs
<1>6. Jobs(q) \cup {x} \subseteq Jobs(p)
    BY <1>1, <1>3, <1>4 DEF Jobs
<1>7. QED BY <1>1, <1>5, <1>6 DEF p

(* asc_job_queue: a full queue is flushed, another gets the job.           *)
LEMMA QueuedAdds ==
    ASSUME NEW S, NEW q \in Seq(S), NEW job \in S, Len(q) <= JobQueueSize
    PROVE  /\ Queued(q, job) \in Seq(S)
           /\ Len(Queued(q, job)) <= JobQueueSize
           /\ Jobs(Queued(q, job)) \subseteq Jobs(q) \cup {job}
<1>1. CASE Overflows(q)
    <2>1. Queued(q, job) = <<>>
        BY <1>1 DEF Queued
    <2>2. <<>> \in Seq(S) /\ Len(<<>>) = 0
        BY EmptySeq
    <2>3. Jobs(<<>>) = {}
        BY DEF Jobs
    <2>4. QED BY <2>1, <2>2, <2>3, JobQueueSizeAssumption
<1>2. CASE ~Overflows(q)
    <2>1. Queued(q, job) = Append(q, job)
        BY <1>2 DEF Queued
    <2>2. Len(q) + 1 <= JobQueueSize
        BY <1>2, JobQueueSizeAssumption DEF Overflows
    <2>3. QED BY <2>1, <2>2, AppendAdds
<1>3. QED BY <1>1, <1>2

(* The first element, and the rest.                                        *)
LEMMA Popped ==
    ASSUME NEW S, NEW q \in Seq(S), q # <<>>
    PROVE  /\ Head(q) \in S
           /\ Head(q) \in Jobs(q)
           /\ Tail(q) \in Seq(S)
           /\ Len(Tail(q)) <= Len(q)
           /\ Jobs(Tail(q)) \subseteq Jobs(q)
<1>1. /\ Head(q) \in S /\ Tail(q) \in Seq(S)
      /\ Len(q) \in Nat /\ Len(q) > 0
      /\ Len(Tail(q)) = Len(q) - 1
      /\ \A i \in 1..Len(Tail(q)) : Tail(q)[i] = q[i + 1]
    BY HeadTailProperties, EmptySeq
<1>2. Head(q) = q[1]
    BY <1>1
<1>3. /\ DOMAIN q = 1..Len(q)
      /\ DOMAIN Tail(q) = 1..Len(Tail(q))
    BY <1>1, LenProperties
<1>4. Head(q) \in Jobs(q)
    BY <1>1, <1>2, <1>3 DEF Jobs
<1>5. Jobs(Tail(q)) \subseteq Jobs(q)
    BY <1>1, <1>3 DEF Jobs
<1>6. QED BY <1>1, <1>4, <1>5

(* What tells one job from another.                                        *)
LEMMA JobsDiffer ==
    /\ \A c : ReadJob(c).arg = c /\ ReadJob(c).proc = "on_thread_read"
    /\ \A c : ExitJob(c).arg = c /\ ExitJob(c).proc = "on_thread_exit"
    /\ \A c, d : ReadJob(d).owner = ReadJob(c).owner => d = c
    /\ \A c, d : ExitJob(d).owner = ExitJob(c).owner => d = c
    /\ \A c, d : ReadJob(d).owner # ExitJob(c).owner
<1>1. /\ \A c : ReadJob(c).arg = c /\ ReadJob(c).proc = "on_thread_read"
      /\ \A c : ExitJob(c).arg = c /\ ExitJob(c).proc = "on_thread_exit"
      /\ \A c : ReadJob(c).owner = <<"output", c>>
      /\ \A c : ExitJob(c).owner = <<"thread", c>>
    BY DEF ReadJob, ExitJob
<1>2. \A c, d : <<"output", d>> = <<"output", c>> => d = c
    OBVIOUS
<1>3. \A c, d : <<"thread", d>> = <<"thread", c>> => d = c
    OBVIOUS
<1>4. \A c, d : <<"output", d>> # <<"thread", c>>
    OBVIOUS
<1>5. ASSUME NEW c, NEW d, ReadJob(d).owner = ReadJob(c).owner PROVE d = c
    <2>1. <<"output", d>> = <<"output", c>>
        BY <1>1, <1>5, Zenon
    <2>2. QED BY <1>2, <2>1, Zenon
<1>6. ASSUME NEW c, NEW d, ExitJob(d).owner = ExitJob(c).owner PROVE d = c
    <2>1. <<"thread", d>> = <<"thread", c>>
        BY <1>1, <1>6, Zenon
    <2>2. QED BY <1>3, <2>1, Zenon
<1>7. ASSUME NEW c, NEW d, ReadJob(d).owner = ExitJob(c).owner PROVE FALSE
    <2>1. <<"output", d>> = <<"thread", c>>
        BY <1>1, <1>7, Zenon
    <2>2. QED BY <1>4, <2>1, Zenon
<1>8. QED BY <1>1, <1>5, <1>6, <1>7, Zenon

(* asc_job_prune with the buffer as the owner removes its read jobs, with  *)
(* the thread as the owner its exit jobs.                                  *)
LEMMA PrunedLeaves ==
    ASSUME NEW q \in Seq(Job), NEW c \in Client
    PROVE  /\ Pruned(q, ReadJob(c).owner) \in Seq(Job)
           /\ Len(Pruned(q, ReadJob(c).owner)) <= Len(q)
           /\ Jobs(Pruned(q, ReadJob(c).owner)) = Jobs(q) \ {ReadJob(c)}
           /\ Pruned(q, ExitJob(c).owner) \in Seq(Job)
           /\ Len(Pruned(q, ExitJob(c).owner)) <= Len(q)
           /\ Jobs(Pruned(q, ExitJob(c).owner)) = Jobs(q) \ {ExitJob(c)}
<1> DEFINE R == {job \in Jobs(q) : job.owner = ReadJob(c).owner}
           E == {job \in Jobs(q) : job.owner = ExitJob(c).owner}
<1>1. Pruned(q, ReadJob(c).owner) = Without(q, R)
    BY DEF Pruned
<1>2. Pruned(q, ExitJob(c).owner) = Without(q, E)
    BY DEF Pruned
<1>3. Jobs(q) \subseteq Job
    BY ElementOfSeq DEF Jobs
<1>4. R = Jobs(q) \cap {ReadJob(c)}
    <2>1. \A job \in Job : job.owner = ReadJob(c).owner <=> job = ReadJob(c)
        <3>1. \A d : ReadJob(d).owner = ReadJob(c).owner <=> ReadJob(d) = ReadJob(c)
            BY JobsDiffer, Zenon
        <3>2. \A d : ExitJob(d).owner # ReadJob(c).owner
            BY JobsDiffer, Zenon
        <3>3. QED BY <3>1, <3>2, Zenon DEF Job
    <2>2. QED BY <1>3, <2>1, Zenon
<1>5. E = Jobs(q) \cap {ExitJob(c)}
    <2>1. \A job \in Job : job.owner = ExitJob(c).owner <=> job = ExitJob(c)
        <3>1. \A d : ExitJob(d).owner = ExitJob(c).owner <=> ExitJob(d) = ExitJob(c)
            BY JobsDiffer, Zenon
        <3>2. \A d : ReadJob(d).owner # ExitJob(c).owner
            BY JobsDiffer, Zenon
        <3>3. QED BY <3>1, <3>2, Zenon DEF Job
    <2>2. QED BY <1>3, <2>1, Zenon
<1> HIDE DEF R, E
<1>6. /\ Without(q, R) \in Seq(Job)
      /\ Len(Without(q, R)) <= Len(q)
      /\ Jobs(Without(q, R)) = Jobs(q) \ R
    BY WithoutLeaves
<1>7. /\ Without(q, E) \in Seq(Job)
      /\ Len(Without(q, E)) <= Len(q)
      /\ Jobs(Without(q, E)) = Jobs(q) \ E
    BY WithoutLeaves
<1>8. QED BY <1>1, <1>2, <1>4, <1>5, <1>6, <1>7
-------------------------------------------------------------------------------
(* How often a job is in the queue                                         *)

(* the places, up to the n-th, where x stands                              *)
Hits(q, n, x) == {i \in 1..n : q[i] = x}

Times(q, x) == Cardinality(Hits(q, Len(q), x))

(* There are as many as have been counted.                                 *)
LEMMA HitsFinite ==
    ASSUME NEW q, NEW n \in Nat, NEW x
    PROVE  IsFiniteSet(Hits(q, n, x)) /\ Cardinality(Hits(q, n, x)) \in 0..n
<1>1. IsFiniteSet(1..n) /\ Cardinality(1..n) = n
    BY FS_Interval
<1>2. Hits(q, n, x) \subseteq 1..n
    BY DEF Hits
<1>3. /\ IsFiniteSet(Hits(q, n, x))
      /\ Cardinality(Hits(q, n, x)) <= n
    BY <1>1, <1>2, FS_Subset
<1>4. Cardinality(Hits(q, n, x)) \in Nat
    BY <1>3, FS_CardinalityType
<1>5. QED BY <1>3, <1>4

(* One place more.                                                         *)
LEMMA HitsNext ==
    ASSUME NEW q, NEW n \in Nat, NEW x
    PROVE  Cardinality(Hits(q, n + 1, x)) =
               Cardinality(Hits(q, n, x)) + (IF q[n + 1] = x THEN 1 ELSE 0)
<1> DEFINE H == Hits(q, n, x)
<1>1. IsFiniteSet(H) /\ Cardinality(H) \in Nat
    BY HitsFinite
<1>2. CASE q[n + 1] = x
    <2>1. Hits(q, n + 1, x) = H \cup {n + 1} /\ n + 1 \notin H
        BY <1>2 DEF Hits
    <2> HIDE DEF H
    <2>2. Cardinality(H \cup {n + 1}) = Cardinality(H) + 1
        BY <1>1, <2>1, FS_AddElement
    <2>3. QED BY <1>2, <2>1, <2>2 DEF H
<1>3. CASE q[n + 1] # x
    <2>1. Hits(q, n + 1, x) = H
        BY <1>3 DEF Hits
    <2>2. QED BY <1>1, <1>3, <2>1
<1>4. QED BY <1>2, <1>3

(* The same elements are counted alike.                                    *)
LEMMA HitsSame ==
    ASSUME NEW q, NEW p, NEW n \in Nat, NEW x, \A i \in 1..n : p[i] = q[i]
    PROVE  Hits(p, n, x) = Hits(q, n, x)
BY DEF Hits

(* A job is in the queue if it is there once or more.                      *)
LEMMA TimesOf ==
    ASSUME NEW S, NEW q \in Seq(S), NEW x
    PROVE  /\ Times(q, x) \in Nat
           /\ x \in Jobs(q) <=> Times(q, x) # 0
<1>1. Len(q) \in Nat /\ DOMAIN q = 1..Len(q)
    OBVIOUS
<1>2. IsFiniteSet(Hits(q, Len(q), x)) /\ Times(q, x) \in Nat
    BY <1>1, HitsFinite DEF Times
<1>3. Times(q, x) = 0 <=> Hits(q, Len(q), x) = {}
    BY <1>2, FS_EmptySet DEF Times
<1>4. Hits(q, Len(q), x) = {} <=> x \notin Jobs(q)
    BY <1>1 DEF Hits, Jobs
<1>5. QED BY <1>2, <1>3, <1>4

(* A job that is added is there once more.                                 *)
LEMMA TimesAppend ==
    ASSUME NEW S, NEW q \in Seq(S), NEW y \in S, NEW x
    PROVE  Times(Append(q, y), x) = Times(q, x) + (IF y = x THEN 1 ELSE 0)
<1> DEFINE p == Append(q, y)
<1>1. /\ Len(q) \in Nat /\ Len(p) = Len(q) + 1
      /\ \A i \in 1..Len(q) : p[i] = q[i]
      /\ p[Len(q) + 1] = y
    OBVIOUS
<1> HIDE DEF p
<1>2. Hits(p, Len(q), x) = Hits(q, Len(q), x)
    BY <1>1, HitsSame
<1>3. Cardinality(Hits(p, Len(q) + 1, x)) =
          Cardinality(Hits(p, Len(q), x)) + (IF p[Len(q) + 1] = x THEN 1 ELSE 0)
    BY <1>1, HitsNext
<1>4. QED BY <1>1, <1>2, <1>3 DEF Times, p

(* A job that is taken from the front is there once less.                  *)
LEMMA TimesTail ==
    ASSUME NEW S, NEW q \in Seq(S), q # <<>>, NEW x
    PROVE  Times(q, x) = Times(Tail(q), x) + (IF Head(q) = x THEN 1 ELSE 0)
<1> DEFINE t == Tail(q)
           T == Hits(t, Len(t), x)
           H == Hits(q, Len(q), x)
           f == [i \in T |-> i + 1]
<1>1. /\ Len(q) \in Nat \ {0} /\ Len(t) = Len(q) - 1 /\ Head(q) = q[1]
      /\ \A i \in 1..Len(t) : t[i] = q[i + 1]
    BY HeadTailProperties, EmptySeq
<1> HIDE DEF t
<1>2. f \in [T -> H \ {1}]
    <2>1. ASSUME NEW i \in T
          PROVE  i + 1 \in H \ {1}
        BY <1>1 DEF Hits
    <2>2. QED BY <2>1
<1>3. \A i, k \in T : f[i] = f[k] => i = k
    BY DEF Hits
<1>4. ASSUME NEW k \in H \ {1}
      PROVE  \E i \in T : f[i] = k
    <2>1. k - 1 \in T
        BY <1>1 DEF Hits
    <2>2. f[k - 1] = k
        BY <2>1 DEF Hits
    <2>3. QED BY <2>1, <2>2
<1>5. /\ IsFiniteSet(T) /\ Cardinality(T) \in Nat
      /\ IsFiniteSet(H) /\ Cardinality(H) \in Nat
    BY <1>1, HitsFinite
<1>6. 1 \in H <=> Head(q) = x
    BY <1>1 DEF Hits
<1> HIDE DEF T, H, f
<1>7. f \in Bijection(T, H \ {1})
    BY <1>2, <1>3, <1>4 DEF Bijection, Injection, Surjection, IsInjective
<1>8. Cardinality(H \ {1}) = Cardinality(T)
    BY <1>5, <1>7, FS_Bijection DEF ExistsBijection
<1>9. Cardinality(H \ {1}) = IF 1 \in H THEN Cardinality(H) - 1 ELSE Cardinality(H)
    BY <1>5, FS_RemoveElement
<1>10. QED BY <1>5, <1>6, <1>8, <1>9 DEF Times, T, H, t

(* Without leaves a job that is not in T as often as it was there.         *)
LEMMA WithoutTimes ==
    ASSUME NEW S, NEW q \in Seq(S), NEW T, NEW x, x \notin T
    PROVE  Times(Without(q, T), x) = Times(q, x)
<1> DEFINE g == CHOOSE f : Keeps(f, q, T, Len(q))
<1>1. Keeps(g, q, T, Len(q))
    BY KeepsExists
<1>2. Without(q, T) = g[Len(q)]
    BY DEF Without, Keeps
<1> HIDE DEF g
<1>3. /\ g[0] = <<>>
      /\ \A i \in 1..Len(q) :
            g[i] = IF q[i] \in T THEN g[i - 1] ELSE Append(g[i - 1], q[i])
    BY <1>1, KeepsValues
<1> DEFINE good(n) == g[n] \in Seq(S) /\ Times(g[n], x) = Cardinality(Hits(q, n, x))
           bad == {n \in 0..Len(q) : ~good(n)}
<1>4. good(0)
    <2>1. <<>> \in Seq(S) /\ Len(<<>>) = 0
        BY EmptySeq
    <2>2. Hits(<<>>, 0, x) = {} /\ Hits(q, 0, x) = {}
        BY DEF Hits
    <2>3. QED BY <1>3, <2>1, <2>2 DEF Times
<1>5. ASSUME NEW n \in 1..Len(q), good(n - 1)
      PROVE  good(n)
    <2> DEFINE h == g[n - 1]
    <2>1. /\ h \in Seq(S) /\ Times(h, x) = Cardinality(Hits(q, n - 1, x))
          /\ q[n] \in S
        BY <1>5, ElementOfSeq
    <2>2. g[n] = IF q[n] \in T THEN h ELSE Append(h, q[n])
        BY <1>3
    <2>3. Cardinality(Hits(q, n, x)) =
              Cardinality(Hits(q, n - 1, x)) + (IF q[n] = x THEN 1 ELSE 0)
        <3>1. n - 1 \in Nat /\ (n - 1) + 1 = n
            OBVIOUS
        <3>2. QED BY <3>1, HitsNext
    <2>4. Cardinality(Hits(q, n - 1, x)) \in Nat
        <3>1. n - 1 \in Nat
            OBVIOUS
        <3>2. QED BY <3>1, HitsFinite
    <2> HIDE DEF h
    <2>5. CASE q[n] \in T
        BY <2>1, <2>2, <2>3, <2>4, <2>5
    <2>6. CASE q[n] \notin T
        <3>1. /\ Append(h, q[n]) \in Seq(S)
              /\ Times(Append(h, q[n]), x) = Times(h, x) + (IF q[n] = x THEN 1 ELSE 0)
            BY <2>1, TimesAppend
        <3>2. QED BY <2>1, <2>2, <2>3, <2>6, <3>1
    <2>7. QED BY <2>5, <2>6
<1> HIDE DEF good
<1>6. bad = {}
    <2>1. SUFFICES ASSUME bad # {} PROVE FALSE
        OBVIOUS
    <2> bad \in SUBSET Nat
        OBVIOUS
    <2>2. PICK n \in bad : \A m \in bad : n <= m
        <3> HIDE DEF bad
        <3>1. QED BY <2>1, HasLeast
    <2>3. n # 0
        BY <1>4, <2>2
    <2>4. n \in 1..Len(q) /\ good(n - 1)
        BY <2>2, <2>3
    <2>5. QED BY <1>5, <2>2, <2>4
<1>7. good(Len(q))
    BY <1>6
<1>8. QED BY <1>2, <1>7 DEF good, Times

(* asc_job_prune takes the jobs of its owner, and leaves every other job   *)
(* as often as it was there.                                               *)
LEMMA PrunedTimes ==
    ASSUME NEW q \in Seq(Job), NEW c \in Client, NEW d \in Client
    PROVE  /\ Times(Pruned(q, ReadJob(c).owner), ReadJob(d)) =
                  IF d = c THEN 0 ELSE Times(q, ReadJob(d))
           /\ Times(Pruned(q, ReadJob(c).owner), ExitJob(d)) = Times(q, ExitJob(d))
           /\ Times(Pruned(q, ExitJob(c).owner), ExitJob(d)) =
                  IF d = c THEN 0 ELSE Times(q, ExitJob(d))
           /\ Times(Pruned(q, ExitJob(c).owner), ReadJob(d)) = Times(q, ReadJob(d))
<1> DEFINE R == {job \in Jobs(q) : job.owner = ReadJob(c).owner}
           E == {job \in Jobs(q) : job.owner = ExitJob(c).owner}
<1>1. /\ Pruned(q, ReadJob(c).owner) = Without(q, R)
      /\ Pruned(q, ExitJob(c).owner) = Without(q, E)
    BY DEF Pruned
<1>2. /\ d # c => ReadJob(d) \notin R /\ ExitJob(d) \notin E
      /\ ExitJob(d) \notin R /\ ReadJob(d) \notin E
    BY JobsDiffer, Zenon
<1>3. /\ Pruned(q, ReadJob(c).owner) \in Seq(Job)
      /\ Pruned(q, ExitJob(c).owner) \in Seq(Job)
      /\ ReadJob(c) \notin Jobs(Pruned(q, ReadJob(c).owner))
      /\ ExitJob(c) \notin Jobs(Pruned(q, ExitJob(c).owner))
    BY PrunedLeaves
<1>4. /\ Times(Pruned(q, ReadJob(c).owner), ReadJob(c)) = 0
      /\ Times(Pruned(q, ExitJob(c).owner), ExitJob(c)) = 0
    BY <1>3, TimesOf
<1> HIDE DEF R, E
<1>5. /\ d # c => Times(Without(q, R), ReadJob(d)) = Times(q, ReadJob(d))
      /\ d # c => Times(Without(q, E), ExitJob(d)) = Times(q, ExitJob(d))
      /\ Times(Without(q, R), ExitJob(d)) = Times(q, ExitJob(d))
      /\ Times(Without(q, E), ReadJob(d)) = Times(q, ReadJob(d))
    BY <1>2, WithoutTimes
<1>6. QED BY <1>1, <1>4, <1>5, Zenon

(* The innermost callback returns: another is left only if it has another  *)
(* module to free, or none.                                                *)
LEMMA Returned ==
    ASSUME NEW S, NEW q \in Seq(S), q # <<>>,
           \A i, j \in DOMAIN q : q[i] = q[j] => i = j \/ q[i] = NoClient
    PROVE  LET p == SubSeq(q, 1, Len(q) - 1)
           IN  /\ p \in Seq(S)
               /\ q[Len(q)] \in S /\ q[Len(q)] \in Jobs(q)
               /\ \A i, j \in DOMAIN p : p[i] = p[j] => i = j \/ p[i] = NoClient
               /\ \A x \in Jobs(p) : x \in Jobs(q) /\ (x = q[Len(q)] => x = NoClient)
<1> DEFINE p == SubSeq(q, 1, Len(q) - 1)
           n == Len(q)
<1>1. n \in Nat \ {0} /\ DOMAIN q = 1..n
    BY EmptySeq
<1>2. \A i \in 1..n : q[i] \in S
    BY <1>1
<1>3. /\ p \in Seq(S) /\ Len(p) = n - 1
      /\ \A i \in 1..(n - 1) : p[i] = q[i]
    BY <1>1, <1>2, SubSeqProperties
<1> HIDE DEF p
<1>4. DOMAIN p = 1..(n - 1)
    BY <1>3, LenProperties
<1> HIDE DEF n
<1>5. \A i, j \in DOMAIN p : p[i] = p[j] => i = j \/ p[i] = NoClient
    BY <1>1, <1>3, <1>4
<1>6. ASSUME NEW x \in Jobs(p) PROVE x \in Jobs(q) /\ (x = q[n] => x = NoClient)
    <2>1. PICK i \in 1..(n - 1) : x = p[i]
        BY <1>4, <1>6 DEF Jobs
    <2>2. x = q[i] /\ i \in DOMAIN q /\ n \in DOMAIN q /\ i # n
        BY <1>1, <1>3, <2>1
    <2>3. QED BY <2>2 DEF Jobs
<1>7. q[n] \in S /\ q[n] \in Jobs(q)
    BY <1>1, <1>2 DEF Jobs
<1>8. QED BY <1>3, <1>5, <1>6, <1>7 DEF p, n

(* A callback is called, with a module to free that no other frees.        *)
LEMMA Called ==
    ASSUME NEW S, NEW q \in Seq(S), NEW x \in S, x = NoClient \/ x \notin Jobs(q),
           \A i, j \in DOMAIN q : q[i] = q[j] => i = j \/ q[i] = NoClient
    PROVE  LET p == Append(q, x)
           IN  \A i, j \in DOMAIN p : p[i] = p[j] => i = j \/ p[i] = NoClient
<1> DEFINE p == Append(q, x)
           n == Len(q)
<1>1. n \in Nat /\ DOMAIN q = 1..n
    OBVIOUS
<1>2. /\ p \in Seq(S) /\ Len(p) = n + 1
      /\ \A i \in 1..n : p[i] = q[i]
      /\ p[n + 1] = x
    OBVIOUS
<1> HIDE DEF p
<1>3. DOMAIN p = 1..(n + 1)
    BY <1>2, LenProperties
<1>4. \A i \in 1..n : q[i] # x \/ x = NoClient
    BY <1>1 DEF Jobs
<1> HIDE DEF n
<1>5. ASSUME NEW i \in DOMAIN p, NEW j \in DOMAIN p, p[i] = p[j], i # j
      PROVE  p[i] = NoClient
    <2>1. CASE i \in 1..n /\ j \in 1..n
        BY <1>1, <1>2, <1>5, <2>1
    <2>2. CASE i = n + 1 \/ j = n + 1
        BY <1>1, <1>2, <1>3, <1>4, <1>5, <2>2
    <2>3. QED BY <1>1, <1>3, <1>5, <2>1, <2>2
<1>6. QED BY <1>5 DEF p
-------------------------------------------------------------------------------
(* Steps                                                                   *)

(* A set of clients is finite.                                             *)
LEMMA ClientsAreFinite ==
    ASSUME NEW S \in SUBSET Client
    PROVE  /\ IsFiniteSet(S)
           /\ Cardinality(S) \in 0..Cardinality(Client)
<1>1. IsFiniteSet(Client)
    BY ClientAssumption
<1>2. IsFiniteSet(S) /\ Cardinality(S) <= Cardinality(Client)
    BY <1>1, FS_Subset
<1>3. Cardinality(S) \in Nat /\ Cardinality(Client) \in Nat
    BY <1>1, <1>2, FS_CardinalityType
<1>4. QED BY <1>2, <1>3

(* The type invariant follows.                                             *)
LEMMA IInvTyped == IInv => TypeOK
<1> SUFFICES ASSUME IInv PROVE TypeOK
    OBVIOUS
<1>1. Jobs(jobs) \subseteq Job
    BY ElementOfSeq DEF IInv, Types, Jobs
<1>2. Jobs(list) \subseteq Client
    BY DEF IInv, Listed, Live
<1>3. wake_cnt \in 0..Cardinality(Client)
    <2>1. Live \subseteq Client
        BY DEF Live
    <2>2. QED BY <2>1, ClientsAreFinite DEF IInv, Listed
<1>4. Jobs(callbacks) \subseteq Client \cup {NoClient}
    BY ElementOfSeq DEF IInv, Types, Jobs
<1>5. QED
    BY <1>1, <1>2, <1>3, <1>4
    DEF IInv, Types, Flags, TypeOK, Job, Places, Stages, Closings

(* So does that no thread is left behind.                                  *)
LEMMA IInvNoStray == IInv => NoStrayThread
<1> SUFFICES ASSUME IInv PROVE NoStrayThread
    OBVIOUS
<1>1. ASSUME main = "core_destroy", NEW c \in Jobs(list)
      PROVE  mod[c] /\ c \in Orphan
    <2>1. c \in Client /\ thread[c] # "none"
        BY DEF IInv, Listed, Live
    <2>2. mod[c]
        BY <2>1 DEF IInv, Owned
    <2>3. QED BY <1>1, <2>1, <2>2 DEF IInv, Stops
<1>2. ASSUME main = "stopped" PROVE \A c \in Client : thread[c] = "none"
    <2>1. list = <<>> /\ Jobs(<<>>) = {}
        BY <1>2 DEF IInv, Stops, Jobs
    <2>2. QED BY <2>1 DEF IInv, Listed, Live
<1>3. QED BY <1>1, <1>2 DEF NoStrayThread

(* The beginning.                                                          *)
LEMMA InitHolds == Init => IInv
<1> SUFFICES ASSUME Init PROVE IInv
    OBVIOUS
<1>1. /\ <<>> \in Seq(Job) /\ <<>> \in Seq(Client) /\ <<>> \in Seq(Client \cup {NoClient})
      /\ Len(<<>>) = 0
    BY EmptySeq
<1>2. Jobs(<<>>) = {} /\ DOMAIN <<>> = {}
    BY DEF Jobs
<1>3. closing \in Closings /\ closing = NotClosing /\ closing.at = "none"
    BY DEF Init, Closings, NotClosing
<1>4. Types
    BY <1>1, <1>3, JobQueueSizeAssumption DEF Init, Types, Stages, Places
<1>5. Flags
    BY DEF Init, Flags
<1>6. Listed
    <2>1. Live = {}
        BY DEF Init, Live
    <2>2. Cardinality(Live) = 0
        BY <2>1, FS_EmptySet
    <2>3. QED BY <1>1, <1>2, <2>1, <2>2 DEF Init, Listed
<1>7. Owned
    BY DEF Init, Owned
<1>8. Closes /\ Frees
    BY <1>2, <1>3 DEF Init, Closes, Frees
<1>9. Reads /\ Stops /\ RefsLive
    BY <1>2 DEF Init, Reads, Stops, RefsLive
<1>10. QED BY <1>4, <1>5, <1>6, <1>7, <1>8, <1>9 DEF IInv

(* The main thread goes on to another place while it closes nothing and is *)
(* below no callback.                                                      *)
LEMMA Moves ==
    ASSUME IInv, NEW w \in {"lua", "jobs", "lua_close", "core_destroy", "crashed"},
           main' = w, reading' = NoClient, closing = NotClosing, callbacks = <<>>,
           w = "core_destroy" => \A c \in Client \ Orphan : ~mod[c],
           UNCHANGED <<mod, thread, run, out, jobs, lost, list, wake_cnt, closing,
                       callbacks>>
    PROVE  IInv'
<1>1. Types'
    BY DEF IInv, Types, Places
<1>2. Flags'
    BY DEF IInv, Flags
<1>3. Listed'
    BY DEF IInv, Listed, Live
<1>4. Owned' /\ Closes' /\ Frees'
    BY DEF IInv, Owned, Closes, Frees
<1>5. Reads' /\ Stops'
    BY DEF Reads, Stops
<1>6. RefsLive'
    BY DEF IInv, RefsLive
<1>7. QED BY <1>1, <1>2, <1>3, <1>4, <1>5, <1>6 DEF IInv

(* A thread moves on, and may queue its job: the read job while it runs,   *)
(* the exit job as the last thing it does.                                 *)
LEMMA ThreadMoves ==
    ASSUME IInv, NEW c \in Client,
           NEW w \in {"loop", "block", "return", "dead"},
           thread[c] \in {"loop", "block", "return"},
           thread' = [thread EXCEPT ![c] = w],
           \/ jobs' = jobs
           \/ jobs' = Queued(jobs, ReadJob(c))
           \/ jobs' = Queued(jobs, ExitJob(c)) /\ w = "dead",
           lost' \subseteq Client,
           UNCHANGED <<mod, run, out, list, wake_cnt, main, reading, closing,
                       callbacks>>
    PROVE  IInv'
<1>1. /\ jobs' \in Seq(Job)
      /\ Len(jobs') <= JobQueueSize
      /\ Jobs(jobs') \subseteq Jobs(jobs) \cup {ReadJob(c), ExitJob(c)}
      /\ ExitJob(c) \in Jobs(jobs') => ExitJob(c) \in Jobs(jobs) \/ w = "dead"
    <2>1. /\ jobs \in Seq(Job) /\ Len(jobs) <= JobQueueSize
          /\ ReadJob(c) \in Job /\ ExitJob(c) \in Job
        BY DEF IInv, Types, Job
    <2>2. ReadJob(c) # ExitJob(c)
        BY JobsDiffer
    <2>3. CASE jobs' = jobs
        BY <2>1, <2>3
    <2>4. CASE jobs' = Queued(jobs, ReadJob(c))
        <3>1. /\ Queued(jobs, ReadJob(c)) \in Seq(Job)
              /\ Len(Queued(jobs, ReadJob(c))) <= JobQueueSize
              /\ Jobs(Queued(jobs, ReadJob(c))) \subseteq Jobs(jobs) \cup {ReadJob(c)}
            BY <2>1, QueuedAdds
        <3>2. QED BY <2>2, <2>4, <3>1
    <2>5. CASE jobs' = Queued(jobs, ExitJob(c)) /\ w = "dead"
        BY <2>1, <2>5, QueuedAdds
    <2>6. QED BY <2>3, <2>4, <2>5
<1>2. /\ thread' \in [Client -> Stages]
      /\ thread'[c] = w
      /\ \A d \in Client : d # c => thread'[d] = thread[d]
      /\ \A d \in Client : thread'[d] = "none" <=> thread[d] = "none"
    BY DEF IInv, Types, Stages
<1>3. Types'
    BY <1>1, <1>2 DEF IInv, Types
<1>4. Flags'
    BY DEF IInv, Flags
<1>5. Live' = Live
    BY <1>2 DEF Live
<1>6. Listed'
    BY <1>5 DEF IInv, Listed
<1>7. Owned'
    BY <1>2 DEF IInv, Owned
<1>8. Closes' /\ Frees'
    BY <1>2 DEF IInv, Closes, Frees
<1>9. Reads' /\ Stops'
    BY DEF IInv, Reads, Stops
<1>10. RefsLive'
    <2>1. \A d : ReadJob(d) = ReadJob(c) => d = c
        BY JobsDiffer
    <2>2. \A d : ExitJob(d) = ExitJob(c) => d = c
        BY JobsDiffer
    <2>3. \A d, e : ReadJob(d) # ExitJob(e)
        BY JobsDiffer
    <2>4. mod[c] /\ out[c]
        BY DEF IInv, Owned
    <2>5. ASSUME NEW d \in Client, ReadJob(d) \in Jobs(jobs')
          PROVE  mod[d] /\ out[d]
        <3>1. ReadJob(d) \in Jobs(jobs) \/ d = c
            BY <1>1, <2>1, <2>3, <2>5
        <3>2. QED BY <2>4, <3>1 DEF IInv, RefsLive
    <2>6. ASSUME NEW d \in Client, ExitJob(d) \in Jobs(jobs')
          PROVE  mod[d] /\ thread'[d] = "dead"
        <3>1. CASE d = c
            BY <1>1, <1>2, <2>4, <2>6, <3>1 DEF IInv, RefsLive
        <3>2. CASE d # c
            <4>1. ExitJob(d) \in Jobs(jobs)
                BY <1>1, <2>2, <2>3, <2>6, <3>2
            <4>2. QED BY <1>2, <3>2, <4>1 DEF IInv, RefsLive
        <3>3. QED BY <3>1, <3>2
    <2>7. QED BY <2>5, <2>6 DEF RefsLive
<1>11. QED BY <1>3, <1>4, <1>6, <1>7, <1>8, <1>9, <1>10 DEF IInv

(* on_thread_close begins, on a module that has a thread.                  *)
LEMMA CloseBegins ==
    ASSUME IInv, NEW c \in Client, NEW del \in BOOLEAN,
           thread[c] # "none", OnThreadClose(c, del),
           main \notin {"stopped", "crashed"},
           jobs' \in Seq(Job), Len(jobs') <= JobQueueSize,
           Jobs(jobs') \subseteq Jobs(jobs), closing.at = "none",
           UNCHANGED <<mod, thread, out, lost, list, wake_cnt, main, reading,
                       callbacks>>
    PROVE  IInv'
<1>1. /\ run' = [run EXCEPT ![c] = FALSE]
      /\ closing' = [at |-> "join", c |-> c, del |-> del]
    BY DEF OnThreadClose
<1>2. closing' \in Closings /\ closing'.at = "join" /\ closing'.c = c
    BY <1>1 DEF Closings
<1>3. Types'
    BY <1>2 DEF IInv, Types
<1>4. Flags'
    BY <1>1 DEF IInv, Flags
<1>5. Listed'
    BY DEF IInv, Listed, Live
<1>6. Owned'
    BY <1>2 DEF IInv, Owned
<1>7. Closes'
    <2>1. mod[c] /\ c \notin Jobs(callbacks)
        BY DEF IInv, Owned, Frees
    <2>2. QED BY <1>2, <2>1 DEF Closes
<1>8. Frees' /\ Reads' /\ Stops'
    BY DEF IInv, Frees, Reads, Stops
<1>9. RefsLive'
    BY DEF IInv, RefsLive
<1>10. QED BY <1>3, <1>4, <1>5, <1>6, <1>7, <1>8, <1>9 DEF IInv
-------------------------------------------------------------------------------
(* Every action keeps the invariant.                                       *)

(* The background thread.                                                  *)
LEMMA ThreadKeeps == ASSUME IInv, NEW c \in Client, Thread(c) PROVE IInv'
<1>1. lost' \subseteq Client
    BY DEF IInv, Types, Thread, ThreadBlock, ThreadWrite, ThreadReturn, ThreadExit, Queue
<1>2. CASE ThreadBlock(c)
    BY <1>1, <1>2, ThreadMoves DEF ThreadBlock
<1>3. CASE ThreadWrite(c)
    BY <1>1, <1>3, ThreadMoves DEF ThreadWrite, Queue
<1>4. CASE ThreadReturn(c)
    BY <1>1, <1>4, ThreadMoves DEF ThreadReturn
<1>5. CASE ThreadExit(c)
    BY <1>1, <1>5, ThreadMoves DEF ThreadExit, Queue
<1>6. QED BY <1>2, <1>3, <1>4, <1>5 DEF Thread

(* A module that is created had no thread, so that nothing queued names it *)
(* when the new thread begins.                                             *)
LEMMA ModuleInitKeeps == ASSUME IInv, NEW c \in Client, ModuleInit(c) PROVE IInv'
<1>1. /\ ~mod[c]
      /\ mod' = [mod EXCEPT ![c] = TRUE]
      /\ run' = [run EXCEPT ![c] = TRUE]
      /\ out' = [out EXCEPT ![c] = TRUE]
      /\ thread' = [thread EXCEPT ![c] = "loop"]
      /\ list' = Append(list, c)
      /\ wake_cnt' = wake_cnt + 1
      /\ UNCHANGED <<jobs, lost, main, reading, closing, callbacks>>
      /\ closing = NotClosing
    BY DEF ModuleInit, InLua
<1>2. thread[c] = "none" /\ c \notin Jobs(callbacks)
    BY <1>1 DEF IInv, Owned, Frees
<1>3. main \notin {"core_destroy", "stopped", "crashed"}
    BY DEF ModuleInit, InLua, IInv, Stops
<1>4. /\ thread' \in [Client -> Stages] /\ thread'[c] = "loop"
      /\ \A d \in Client : d # c => thread'[d] = thread[d]
    BY <1>1 DEF IInv, Types, Stages
<1>5. /\ mod' \in [Client -> BOOLEAN] /\ mod'[c]
      /\ out' \in [Client -> BOOLEAN] /\ out'[c]
      /\ run' \in [Client -> BOOLEAN]
      /\ \A d \in Client : d # c => mod'[d] = mod[d] /\ out'[d] = out[d]
    BY <1>1 DEF IInv, Flags
<1>6. Types' /\ Flags'
    BY <1>1, <1>4, <1>5 DEF IInv, Types, Flags
<1>7. Listed'
    <2>1. Live' = Live \cup {c}
        BY <1>4 DEF Live
    <2>2. c \notin Live
        BY <1>2 DEF Live
    <2>3. IsFiniteSet(Live)
        BY ClientsAreFinite DEF Live
    <2>4. Cardinality(Live') = Cardinality(Live) + 1
        BY <2>1, <2>2, <2>3, FS_AddElement
    <2>5. list' \in Seq(Client) /\ Jobs(list') = Jobs(list) \cup {c}
        BY <1>1, AppendAdds DEF IInv, Listed
    <2>6. QED BY <1>1, <2>1, <2>4, <2>5 DEF IInv, Listed
<1>8. Owned'
    BY <1>1, <1>4, <1>5 DEF IInv, Owned
<1>9. Closes'
    BY <1>1 DEF Closes, NotClosing
<1>10. Frees'
    BY <1>1, <1>2, <1>4, <1>5 DEF IInv, Frees
<1>11. Reads'
    <2>1. reading \in Client \cup {NoClient}
        BY DEF IInv, Types
    <2>2. QED BY <1>1, <1>5, <2>1 DEF IInv, Reads
<1>12. Stops'
    BY <1>1, <1>3 DEF IInv, Stops
<1>13. RefsLive'
    BY <1>1, <1>4, <1>5 DEF IInv, RefsLive
<1>14. QED BY <1>6, <1>7, <1>8, <1>9, <1>10, <1>11, <1>12, <1>13 DEF IInv

(* A module that has a thread is closed first; one that has none has no    *)
(* buffer either, so that no read job names it.                            *)
LEMMA ModuleDestroyKeeps ==
    ASSUME IInv, NEW c \in Client, ModuleDestroy(c)
    PROVE  IInv'
<1>1. /\ mod[c] /\ c \notin Jobs(callbacks)
      /\ closing = NotClosing /\ closing.at = "none"
      /\ UNCHANGED <<thread, out, jobs, lost, list, wake_cnt, main, reading, callbacks>>
    BY DEF ModuleDestroy, InLua, NotClosing
<1>2. main \notin {"core_destroy", "stopped", "crashed"}
    BY DEF ModuleDestroy, InLua, IInv, Stops
<1>3. CASE thread[c] # "none"
    <2>1. OnThreadClose(c, TRUE) /\ UNCHANGED mod
        BY <1>3 DEF ModuleDestroy
    <2>2. jobs \in Seq(Job) /\ Len(jobs) <= JobQueueSize
        BY DEF IInv, Types
    <2>3. QED BY <1>1, <1>2, <1>3, <2>1, <2>2, CloseBegins
<1>4. CASE thread[c] = "none"
    <2>1. mod' = [mod EXCEPT ![c] = FALSE] /\ UNCHANGED <<run, closing>>
        BY <1>4 DEF ModuleDestroy
    <2>2. ~out[c]
        BY <1>1, <1>4 DEF IInv, Owned
    <2>3. mod' \in [Client -> BOOLEAN] /\ \A d \in Client : d # c => mod'[d] = mod[d]
        BY <2>1 DEF IInv, Flags
    <2>4. Types' /\ Flags'
        BY <1>1, <2>1, <2>3 DEF IInv, Types, Flags
    <2>5. Listed'
        BY <1>1 DEF IInv, Listed, Live
    <2>6. Owned'
        BY <1>1, <1>4, <2>1, <2>3 DEF IInv, Owned
    <2>7. Closes' /\ Frees'
        BY <1>1, <2>1, <2>3 DEF IInv, Closes, Frees
    <2>8. Reads' /\ Stops'
        BY <1>1, <1>2, <2>1 DEF IInv, Reads, Stops
    <2>9. RefsLive'
        BY <1>1, <1>4, <2>2, <2>3 DEF IInv, RefsLive
    <2>10. QED BY <2>4, <2>5, <2>6, <2>7, <2>8, <2>9 DEF IInv
<1>5. QED BY <1>3, <1>4

(* asc_thread_join: the thread that ended leaves the list, and its exit    *)
(* job the queue.                                                          *)
LEMMA JoinKeeps == ASSUME IInv, Join PROVE IInv'
<1> DEFINE c == closing.c
<1>1. /\ c \in Client /\ mod[c] /\ c \notin Jobs(callbacks)
      /\ thread[c] = "dead"
      /\ thread' = [thread EXCEPT ![c] = "none"]
      /\ list' = Without(list, {c})
      /\ jobs' = Pruned(jobs, ExitJob(c).owner)
      /\ lost' = lost \ {c}
      /\ wake_cnt' = wake_cnt - 1
      /\ closing' = [closing EXCEPT !.at = "prune"]
      /\ UNCHANGED <<mod, run, out, main, reading, callbacks>>
      /\ closing.at = "join"
    BY DEF Join, IInv, Closes
<1>2. closing' \in Closings /\ closing'.at = "prune" /\ closing'.c = c
    <2>1. closing \in Closings
        BY DEF IInv, Types
    <2>2. closing' \in Closings
        BY <1>1, <2>1, Zenon DEF Closings
    <2>3. QED BY <1>1, <2>1, <2>2 DEF Closings
<1> HIDE DEF c
<1>3. /\ jobs' \in Seq(Job) /\ Len(jobs') <= JobQueueSize
      /\ Jobs(jobs') = Jobs(jobs) \ {ExitJob(c)}
    <2>1. jobs \in Seq(Job) /\ Len(jobs) <= JobQueueSize
        BY DEF IInv, Types
    <2>2. /\ jobs' \in Seq(Job) /\ Len(jobs') <= Len(jobs)
          /\ Jobs(jobs') = Jobs(jobs) \ {ExitJob(c)}
        BY <1>1, <2>1, PrunedLeaves
    <2>3. QED BY <2>1, <2>2, JobQueueSizeAssumption
<1>4. /\ thread' \in [Client -> Stages]
      /\ thread'[c] = "none"
      /\ \A d \in Client : d # c => thread'[d] = thread[d]
    BY <1>1 DEF IInv, Types, Stages
<1>5. Types'
    BY <1>1, <1>2, <1>3, <1>4 DEF IInv, Types
<1>6. Flags'
    BY <1>1 DEF IInv, Flags
<1>7. Listed'
    <2>1. c \in Live /\ Live' = Live \ {c}
        BY <1>1, <1>4 DEF Live
    <2>2. IsFiniteSet(Live)
        BY ClientsAreFinite DEF Live
    <2>3. Cardinality(Live') = Cardinality(Live) - 1
        BY <2>1, <2>2, FS_RemoveElement
    <2>4. list' \in Seq(Client) /\ Jobs(list') = Jobs(list) \ {c}
        BY <1>1, WithoutLeaves DEF IInv, Listed
    <2>5. QED BY <1>1, <2>1, <2>3, <2>4 DEF IInv, Listed
<1>8. Owned'
    BY <1>1, <1>2, <1>4 DEF IInv, Owned
<1>9. Closes'
    BY <1>1, <1>2, <1>4 DEF Closes
<1>10. Frees' /\ Reads'
    BY <1>1, <1>4 DEF IInv, Frees, Reads
<1>11. Stops'
    <2>1. main \notin {"stopped", "crashed"}
        BY <1>1 DEF IInv, Stops, NotClosing
    <2>2. QED BY <1>1, <2>1 DEF IInv, Stops
<1>12. RefsLive'
    <2>1. \A d : ReadJob(d) \in Jobs(jobs') => ReadJob(d) \in Jobs(jobs)
        BY <1>3
    <2>2. \A d : ExitJob(d) \in Jobs(jobs') => ExitJob(d) \in Jobs(jobs) /\ d # c
        BY <1>3
    <2>3. QED BY <1>1, <1>4, <2>1, <2>2 DEF IInv, RefsLive
<1>13. QED
    BY <1>5, <1>6, <1>7, <1>8, <1>9, <1>10, <1>11, <1>12 DEF IInv

(* The rest of on_thread_close: the read jobs leave the queue before the   *)
(* buffer they name is freed.  The module is freed at once, or after the   *)
(* callback of the end of the file.                                        *)
LEMMA PruneOutputKeeps == ASSUME IInv, PruneOutput PROVE IInv'
<1> DEFINE c == closing.c
           freed == IF closing.del THEN c ELSE NoClient
<1>1. /\ c \in Client /\ mod[c] /\ c \notin Jobs(callbacks)
      /\ thread[c] = "none"
      /\ jobs' = IF out[c] THEN Pruned(jobs, ReadJob(c).owner) ELSE jobs
      /\ out' = [out EXCEPT ![c] = FALSE]
      /\ reading' = IF reading = c THEN NoClient ELSE reading
      /\ closing' = NotClosing
      /\ UNCHANGED <<thread, run, lost, list, wake_cnt, main>>
      /\ closing.at = "prune"
    BY DEF PruneOutput, IInv, Closes
<1>2. \/ c \notin Orphan /\ callbacks' = Append(callbacks, freed) /\ UNCHANGED mod
      \/ mod' = [mod EXCEPT ![c] = @ /\ ~closing.del] /\ UNCHANGED callbacks
    BY DEF PruneOutput
<1>3. closing' \in Closings /\ closing'.at = "none"
    BY <1>1 DEF Closings, NotClosing
<1>4. freed \in {c, NoClient}
    OBVIOUS
<1> HIDE DEF c, freed
<1>5. /\ jobs' \in Seq(Job) /\ Len(jobs') <= JobQueueSize
      /\ Jobs(jobs') = Jobs(jobs) \ {ReadJob(c)}
    <2>1. jobs \in Seq(Job) /\ Len(jobs) <= JobQueueSize
        BY DEF IInv, Types
    <2>2. CASE out[c]
        <3>1. /\ jobs' \in Seq(Job) /\ Len(jobs') <= Len(jobs)
              /\ Jobs(jobs') = Jobs(jobs) \ {ReadJob(c)}
            BY <1>1, <2>1, <2>2, PrunedLeaves
        <3>2. QED BY <2>1, <3>1, JobQueueSizeAssumption
    <2>3. CASE ~out[c]
        <3>1. jobs' = jobs
            BY <1>1, <2>3
        <3>2. ReadJob(c) \notin Jobs(jobs)
            BY <1>1, <2>3 DEF IInv, RefsLive
        <3>3. QED BY <2>1, <3>1, <3>2
    <2>4. QED BY <2>2, <2>3
<1>6. /\ mod' \in [Client -> BOOLEAN]
      /\ \A d \in Client : d # c => mod'[d] = mod[d]
      /\ \A d \in Client : mod'[d] => mod[d]
    <2>1. mod \in [Client -> BOOLEAN]
        BY DEF IInv, Flags
    <2>2. CASE UNCHANGED mod
        BY <2>1, <2>2
    <2>3. CASE mod' = [mod EXCEPT ![c] = @ /\ ~closing.del]
        <3>1. (mod[c] /\ ~closing.del) \in BOOLEAN
            BY Zenon
        <3>2. QED BY <1>1, <2>1, <2>3, <3>1, Zenon
    <2>4. QED BY <1>2, <2>2, <2>3
<1>7. /\ out' \in [Client -> BOOLEAN] /\ ~out'[c]
      /\ \A d \in Client : d # c => out'[d] = out[d]
    BY <1>1 DEF IInv, Flags
<1>8. /\ callbacks' \in Seq(Client \cup {NoClient})
      /\ Jobs(callbacks') \subseteq Jobs(callbacks) \cup {c, NoClient}
      /\ c \in Jobs(callbacks') => c \notin Orphan /\ UNCHANGED mod
      /\ \A i, j \in DOMAIN callbacks' :
             callbacks'[i] = callbacks'[j] => i = j \/ callbacks'[i] = NoClient
      /\ callbacks' # callbacks => c \notin Orphan
    <2>1. /\ callbacks \in Seq(Client \cup {NoClient})
          /\ \A i, j \in DOMAIN callbacks :
                 callbacks[i] = callbacks[j] => i = j \/ callbacks[i] = NoClient
        BY DEF IInv, Types, Frees
    <2>2. CASE UNCHANGED callbacks
        BY <1>1, <2>1, <2>2
    <2>3. CASE c \notin Orphan /\ callbacks' = Append(callbacks, freed) /\ UNCHANGED mod
        <3>1. freed \in Client \cup {NoClient} /\ (freed = NoClient \/ freed \notin Jobs(callbacks))
            BY <1>1, <1>4
        <3>2. /\ callbacks' \in Seq(Client \cup {NoClient})
              /\ Jobs(callbacks') = Jobs(callbacks) \cup {freed}
            BY <2>1, <2>3, <3>1, AppendAdds
        <3>3. \A i, j \in DOMAIN callbacks' :
                  callbacks'[i] = callbacks'[j] => i = j \/ callbacks'[i] = NoClient
            BY <2>1, <2>3, <3>1, Called
        <3>4. QED BY <1>4, <2>3, <3>2, <3>3
    <2>4. QED BY <1>2, <2>2, <2>3
<1>9. Types' /\ Flags'
    BY <1>1, <1>3, <1>5, <1>6, <1>7, <1>8 DEF IInv, Types, Flags
<1>10. Listed'
    BY <1>1 DEF IInv, Listed, Live
<1>11. Owned'
    BY <1>1, <1>6, <1>7 DEF IInv, Owned, c
<1>12. Closes'
    BY <1>1, <1>3 DEF Closes
<1>13. Frees'
    <2>1. ASSUME NEW d \in Client, d \in Jobs(callbacks')
          PROVE  mod'[d] /\ thread'[d] = "none" /\ ~out'[d]
        <3>1. CASE d = c
            BY <1>1, <1>7, <1>8, <2>1, <3>1
        <3>2. CASE d # c
            <4>1. d \in Jobs(callbacks)
                BY <1>8, <2>1, <3>2, ClientAssumption
            <4>2. QED BY <1>1, <1>6, <1>7, <3>2, <4>1 DEF IInv, Frees
        <3>3. QED BY <3>1, <3>2
    <2>2. QED BY <1>8, <2>1 DEF Frees
<1>14. Reads'
    <2>1. reading \in Client \cup {NoClient}
        BY DEF IInv, Types
    <2>2. CASE reading = c
        BY <1>1, <2>2 DEF Reads
    <2>3. CASE reading # c
        BY <1>1, <1>7, <2>1, <2>3 DEF IInv, Reads
    <2>4. QED BY <2>2, <2>3
<1>15. Stops'
    <2>1. main \notin {"stopped", "crashed"}
        BY <1>1 DEF IInv, Stops, NotClosing
    <2>2. main = "core_destroy" => UNCHANGED callbacks
        BY <1>1, <1>2 DEF IInv, Stops
    <2>3. QED BY <1>1, <1>6, <2>1, <2>2 DEF IInv, Stops
<1>16. RefsLive'
    <2>1. \A d : ReadJob(d) \in Jobs(jobs') => ReadJob(d) \in Jobs(jobs) /\ d # c
        BY <1>5
    <2>2. \A d : ExitJob(d) \in Jobs(jobs') => ExitJob(d) \in Jobs(jobs)
        BY <1>5
    <2>3. ExitJob(c) \notin Jobs(jobs)
        BY <1>1 DEF IInv, RefsLive
    <2>4. QED BY <1>1, <1>6, <1>7, <2>1, <2>2, <2>3 DEF IInv, RefsLive
<1>17. QED
    BY <1>9, <1>10, <1>11, <1>12, <1>13, <1>14, <1>15, <1>16 DEF IInv

(* A callback returns: the module that is freed then has neither thread    *)
(* nor buffer, and no other callback is going to free it.                  *)
LEMMA CallbackReturnKeeps == ASSUME IInv, CallbackReturn PROVE IInv'
<1> DEFINE c == callbacks[Len(callbacks)]
<1>1. /\ closing = NotClosing /\ callbacks # <<>>
      /\ mod' = [d \in Client |-> mod[d] /\ d # c]
      /\ callbacks' = SubSeq(callbacks, 1, Len(callbacks) - 1)
      /\ UNCHANGED <<thread, run, out, jobs, lost, list, wake_cnt, main, reading,
                     closing>>
    BY DEF CallbackReturn
<1>2. /\ callbacks' \in Seq(Client \cup {NoClient})
      /\ c \in Client \cup {NoClient} /\ c \in Jobs(callbacks)
      /\ \A i, j \in DOMAIN callbacks' :
             callbacks'[i] = callbacks'[j] => i = j \/ callbacks'[i] = NoClient
      /\ \A x \in Jobs(callbacks') : x \in Jobs(callbacks) /\ (x = c => x = NoClient)
    <2>1. /\ callbacks \in Seq(Client \cup {NoClient})
          /\ \A i, j \in DOMAIN callbacks :
                 callbacks[i] = callbacks[j] => i = j \/ callbacks[i] = NoClient
        BY DEF IInv, Types, Frees
    <2>2. QED BY <1>1, <2>1, Returned
<1> HIDE DEF c
<1>3. c \in Client => thread[c] = "none" /\ ~out[c]
    BY <1>2 DEF IInv, Frees
<1>4. /\ mod' \in [Client -> BOOLEAN]
      /\ \A d \in Client : d # c => (mod'[d] <=> mod[d])
      /\ \A d \in Client : mod'[d] => mod[d]
    <2>1. \A d \in Client : (mod[d] /\ d # c) \in BOOLEAN
        BY Zenon
    <2>2. QED BY <1>1, <2>1, Zenon
<1>5. Types' /\ Flags'
    BY <1>1, <1>2, <1>4 DEF IInv, Types, Flags
<1>6. Listed'
    BY <1>1 DEF IInv, Listed, Live
<1>7. Owned'
    BY <1>1, <1>3, <1>4, Zenon DEF IInv, Owned
<1>8. Closes'
    BY <1>1 DEF Closes, NotClosing
<1>9. Frees'
    <2>1. ASSUME NEW d \in Client, d \in Jobs(callbacks')
          PROVE  mod'[d] /\ thread'[d] = "none" /\ ~out'[d]
        <3>1. d # NoClient
            BY ClientAssumption
        <3>2. d \in Jobs(callbacks) /\ d # c
            BY <1>2, <2>1, <3>1
        <3>3. mod[d] /\ thread[d] = "none" /\ ~out[d]
            BY <3>2 DEF IInv, Frees
        <3>4. QED BY <1>1, <1>4, <3>2, <3>3
    <2>2. QED BY <1>2, <2>1 DEF Frees
<1>10. Reads'
    BY <1>1 DEF IInv, Reads
<1>11. Stops'
    BY <1>1, <1>4 DEF IInv, Stops
<1>12. RefsLive'
    BY <1>1, <1>3, <1>4, Zenon DEF IInv, RefsLive
<1>13. QED
    BY <1>5, <1>6, <1>7, <1>8, <1>9, <1>10, <1>11, <1>12 DEF IInv

(* run_jobs: what the job names is there, as no reference was left behind. *)
LEMMA RunJobKeeps == ASSUME IInv, RunJob PROVE IInv'
<1> DEFINE job == Head(jobs)
           c == job.arg
<1>1. /\ jobs # <<>> /\ jobs' = Tail(jobs) /\ main = "jobs"
      /\ closing = NotClosing /\ closing.at = "none" /\ callbacks = <<>>
      /\ UNCHANGED <<mod, thread, out, lost, list, wake_cnt, callbacks>>
    BY DEF RunJob, At, NotClosing
<1>2. /\ job \in Job /\ job \in Jobs(jobs)
      /\ jobs' \in Seq(Job) /\ Len(jobs') <= JobQueueSize
      /\ Jobs(jobs') \subseteq Jobs(jobs)
    <2>1. jobs \in Seq(Job) /\ Len(jobs) <= JobQueueSize
        BY DEF IInv, Types
    <2>2. /\ job \in Job /\ job \in Jobs(jobs)
          /\ jobs' \in Seq(Job) /\ Len(jobs') <= Len(jobs)
          /\ Jobs(jobs') \subseteq Jobs(jobs)
        BY <1>1, <2>1, Popped
    <2>3. QED BY <2>1, <2>2, JobQueueSizeAssumption
<1>3. \/ /\ job.proc = "on_thread_read" /\ reading' = c /\ main' = "read"
         /\ UNCHANGED <<run, closing>>
      \/ /\ job.proc = "on_thread_exit"
         /\ OnThreadClose(c, c \in Orphan)
         /\ UNCHANGED <<main, reading>>
    BY DEF RunJob
<1> HIDE DEF job, c
<1>4. CASE job.proc = "on_thread_read"
    <2>1. PICK d \in Client : job = ReadJob(d)
        <3>1. \A d : ExitJob(d).proc # "on_thread_read"
            BY JobsDiffer
        <3>2. QED BY <1>2, <1>4, <3>1, Zenon DEF Job
    <2>2. c = d
        BY <2>1, JobsDiffer DEF c
    <2>3. mod[d] /\ out[d]
        BY <1>2, <2>1 DEF IInv, RefsLive
    <2>4. reading' = d /\ main' = "read" /\ UNCHANGED <<run, closing>>
        BY <1>3, <1>4, <2>2
    <2>5. Types' /\ Flags'
        BY <1>1, <1>2, <2>4 DEF IInv, Types, Flags, Places
    <2>6. Listed'
        BY <1>1 DEF IInv, Listed, Live
    <2>7. Owned' /\ Closes' /\ Frees'
        BY <1>1, <2>4 DEF IInv, Owned, Closes, Frees
    <2>8. Reads' /\ Stops'
        BY <1>1, <2>3, <2>4 DEF Reads, Stops
    <2>9. RefsLive'
        BY <1>1, <1>2 DEF IInv, RefsLive
    <2>10. QED BY <2>5, <2>6, <2>7, <2>8, <2>9 DEF IInv
<1>5. CASE job.proc # "on_thread_read"
    <2>1. PICK d \in Client : job = ExitJob(d)
        <3>1. \A d : ReadJob(d).proc = "on_thread_read"
            BY JobsDiffer
        <3>2. QED BY <1>2, <1>5, <3>1, Zenon DEF Job
    <2>2. c = d
        BY <2>1, JobsDiffer DEF c
    <2>3. thread[d] = "dead"
        BY <1>2, <2>1 DEF IInv, RefsLive
    <2>4. OnThreadClose(d, d \in Orphan) /\ UNCHANGED <<main, reading>>
        BY <1>3, <1>5, <2>2
    <2>5. (d \in Orphan) \in BOOLEAN
        OBVIOUS
    <2>6. QED BY <1>1, <1>2, <2>3, <2>4, <2>5, CloseBegins
<1>6. QED BY <1>4, <1>5

(* asc_thread_core_destroy closes the first thread of the list.            *)
LEMMA JoinStrayKeeps == ASSUME IInv, JoinStray PROVE IInv'
<1> DEFINE c == Head(list)
<1>1. /\ list # <<>> /\ main = "core_destroy" /\ closing.at = "none"
      /\ OnThreadClose(c, c \in Orphan)
      /\ UNCHANGED <<mod, thread, out, jobs, lost, list, wake_cnt, main, reading,
                     callbacks>>
    BY DEF JoinStray, At, NotClosing
<1>2. c \in Client /\ thread[c] # "none"
    <2>1. c \in Client /\ c \in Jobs(list)
        BY <1>1, Popped DEF IInv, Listed
    <2>2. QED BY <2>1 DEF IInv, Listed, Live
<1> HIDE DEF c
<1>3. jobs' \in Seq(Job) /\ Len(jobs') <= JobQueueSize /\ jobs' = jobs
    BY <1>1 DEF IInv, Types
<1>4. (c \in Orphan) \in BOOLEAN
    OBVIOUS
<1>5. QED BY <1>1, <1>2, <1>3, <1>4, CloseBegins

(* asc_main_loop_destroy: no thread is left that could queue a job.        *)
LEMMA MainLoopDestroyKeeps == ASSUME IInv, MainLoopDestroy PROVE IInv'
<1>1. /\ main = "core_destroy" /\ list = <<>>
      /\ callbacks = <<>> /\ closing = NotClosing
      /\ jobs' = <<>> /\ wake_cnt' = 0 /\ main' = "stopped"
      /\ UNCHANGED <<mod, thread, run, out, lost, list, reading, closing, callbacks>>
    BY DEF MainLoopDestroy, At
<1>2. <<>> \in Seq(Job) /\ Len(<<>>) = 0 /\ Jobs(<<>>) = {}
    BY EmptySeq DEF Jobs
<1>3. reading = NoClient
    BY <1>1 DEF IInv, Reads
<1>4. Types' /\ Flags'
    BY <1>1, <1>2, JobQueueSizeAssumption DEF IInv, Types, Flags, Places
<1>5. Listed'
    <2>1. Live = {} /\ Live' = Live
        BY <1>1, <1>2 DEF IInv, Listed, Live
    <2>2. Cardinality(Live) = 0
        BY <2>1, FS_EmptySet
    <2>3. QED BY <1>1, <2>1, <2>2 DEF IInv, Listed
<1>6. Owned' /\ Closes' /\ Frees'
    BY <1>1 DEF IInv, Owned, Closes, Frees
<1>7. Reads' /\ Stops'
    BY <1>1, <1>3 DEF Reads, Stops
<1>8. RefsLive'
    BY <1>1, <1>2 DEF RefsLive
<1>9. QED BY <1>4, <1>5, <1>6, <1>7, <1>8 DEF IInv

(* The main thread, from one place to the next.                            *)
LEMMA GoesKeeps ==
    ASSUME IInv,
           \/ StartJobs \/ ReadReturn \/ ReadFreed \/ JobsDone
           \/ LuaClose \/ LuaClosed \/ Restart
    PROVE  IInv'
<1>1. main # "read" => reading = NoClient
    BY DEF IInv, Reads
<1>2. CASE StartJobs \/ JobsDone \/ LuaClose \/ LuaClosed \/ Restart
    BY <1>1, <1>2, Moves DEF StartJobs, JobsDone, LuaClose, LuaClosed, Restart, At, Goto
<1>3. CASE ReadReturn
    BY <1>3, Moves DEF ReadReturn, At
<1>4. CASE ReadFreed
    BY <1>4, Moves DEF ReadFreed, At, Goto
<1>5. QED BY <1>2, <1>3, <1>4

(* A step that changes nothing.                                            *)
LEMMA WorkersStutter == ASSUME IInv, UNCHANGED vars PROVE IInv'
<1>1. UNCHANGED <<mod, thread, run, out, jobs, lost, list, wake_cnt, main, reading,
                  closing, callbacks>>
    BY DEF vars
<1>2. Types' /\ Flags' /\ Owned' /\ RefsLive'
    BY <1>1 DEF IInv, Types, Flags, Owned, RefsLive
<1>3. Listed'
    BY <1>1 DEF IInv, Listed, Live
<1>4. Closes' /\ Frees' /\ Reads' /\ Stops'
    BY <1>1 DEF IInv, Closes, Frees, Reads, Stops
<1>5. QED BY <1>2, <1>3, <1>4 DEF IInv

(* Every step keeps the invariant.                                         *)
LEMMA StepKeeps == IInv /\ [Next]_vars => IInv'
<1> SUFFICES ASSUME IInv, [Next]_vars PROVE IInv'
    OBVIOUS
<1>1. ASSUME NEW c \in Client, ModuleInit(c) PROVE IInv'
    BY <1>1, ModuleInitKeeps
<1>2. ASSUME NEW c \in Client, ModuleDestroy(c) PROVE IInv'
    BY <1>2, ModuleDestroyKeeps
<1>3. CASE Join
    BY <1>3, JoinKeeps
<1>4. CASE PruneOutput
    BY <1>4, PruneOutputKeeps
<1>5. CASE CallbackReturn
    BY <1>5, CallbackReturnKeeps
<1>6. CASE RunJob
    BY <1>6, RunJobKeeps
<1>7. CASE JoinStray
    BY <1>7, JoinStrayKeeps
<1>8. CASE MainLoopDestroy
    BY <1>8, MainLoopDestroyKeeps
<1>9. CASE \/ StartJobs \/ ReadReturn \/ ReadFreed \/ JobsDone
           \/ LuaClose \/ LuaClosed \/ Restart
    BY <1>9, GoesKeeps
<1>10. ASSUME NEW c \in Client, Thread(c) PROVE IInv'
    BY <1>10, ThreadKeeps
<1>11. CASE Crashed \/ UNCHANGED vars
    BY <1>11, WorkersStutter DEF Crashed
<1>12. QED
    BY <1>1, <1>2, <1>3, <1>4, <1>5, <1>6, <1>7, <1>8, <1>9, <1>10, <1>11
    DEF Next, Main

(* The inductive invariant holds in every reachable state.                 *)
LEMMA Invariant == Spec => []IInv
<1>1. QED BY InitHolds, StepKeeps, PTL DEF Spec
-------------------------------------------------------------------------------
(* Reports of exits                                                        *)

(* An exit is reported once, unless it is being dealt with or the report   *)
(* was flushed; what was flushed waits to be joined all the same.          *)
Counted ==
    \A c \in Client :
        /\ c \in lost => thread[c] = "dead"
        /\ thread[c] = "dead" /\ ~Reaping(c) =>
               Times(jobs, ExitJob(c)) = IF c \in lost THEN 0 ELSE 1

(* ExitReported counts places in the same way.                             *)
LEMMA CountedReports == IInv /\ Counted => ExitReported
<1> SUFFICES ASSUME IInv, Counted PROVE ExitReported
    OBVIOUS
<1>1. DOMAIN jobs = 1..Len(jobs)
    BY DEF IInv, Types
<1>2. \A c : {i \in DOMAIN jobs : jobs[i] = ExitJob(c)} = Hits(jobs, Len(jobs), ExitJob(c))
    BY <1>1, Zenon DEF Hits
<1>3. \A c : Cardinality({i \in DOMAIN jobs : jobs[i] = ExitJob(c)}) = Times(jobs, ExitJob(c))
    BY <1>2, Zenon DEF Times
<1>4. QED BY <1>3, Zenon DEF Counted, ExitReported

(* Nothing is in the empty queue.                                          *)
LEMMA TimesEmpty == \A x : Times(<<>>, x) = 0
<1>1. \A x : Hits(<<>>, Len(<<>>), x) = {}
    BY DEF Hits
<1>2. QED BY <1>1, FS_EmptySet DEF Times

(* While the queue and the threads stay, nothing is lost when the main     *)
(* thread turns to a client.                                               *)
LEMMA QueueStays ==
    ASSUME Counted, UNCHANGED <<jobs, lost, thread>>,
           closing.at # "join" \/ UNCHANGED closing
    PROVE  Counted'
BY DEF Counted, Reaping

(* A flush: every report that is due has been in the queue, or is the job  *)
(* that did not fit.                                                       *)
LEMMA FlushCounts ==
    ASSUME IInv, Counted, NEW c \in Client, NEW job \in {ReadJob(c), ExitJob(c)},
           Overflows(jobs), Queue(job), UNCHANGED closing,
           NEW w \in Stages, thread' = [thread EXCEPT ![c] = w],
           thread[c] # "dead", w = "dead" => job = ExitJob(c),
           job = ExitJob(c) => w = "dead"
    PROVE  Counted'
<1>1. /\ jobs' = <<>>
      /\ lost' = lost \cup {d \in Client : ExitJob(d) \in Jobs(jobs) \cup {job}}
      /\ jobs \in Seq(Job)
    BY DEF Queue, Queued, IInv, Types
<1>2. /\ thread'[c] = w
      /\ \A d \in Client : d # c => thread'[d] = thread[d]
    BY DEF IInv, Types
<1>3. \A d \in Client : job = ExitJob(d) => d = c
    BY JobsDiffer
<1>4. \A x : Times(jobs', x) = 0
    BY <1>1, TimesEmpty
<1>5. ASSUME NEW d \in Client, d \in lost' PROVE thread'[d] = "dead"
    <2>1. CASE d \in lost
        BY <1>2, <2>1 DEF Counted
    <2>2. CASE ExitJob(d) \in Jobs(jobs)
        BY <1>2, <2>2 DEF IInv, RefsLive
    <2>3. CASE ExitJob(d) = job
        BY <1>2, <1>3, <2>3
    <2>4. QED BY <1>1, <1>5, <2>1, <2>2, <2>3
<1>6. ASSUME NEW d \in Client, thread'[d] = "dead", ~Reaping(d)'
      PROVE  d \in lost'
    <2>1. CASE d = c
        BY <1>1, <1>2, <1>6, <2>1
    <2>2. CASE d # c
        <3>1. Times(jobs, ExitJob(d)) = IF d \in lost THEN 0 ELSE 1
            BY <1>2, <1>6, <2>2 DEF Counted, Reaping
        <3>2. d \in lost \/ ExitJob(d) \in Jobs(jobs)
            BY <1>1, <3>1, TimesOf
        <3>3. QED BY <1>1, <3>2
    <2>3. QED BY <2>1, <2>2
<1>7. QED BY <1>4, <1>5, <1>6 DEF Counted

(* A block, with a read job or without.                                    *)
LEMMA WriteCounts ==
    ASSUME IInv, Counted, NEW c \in Client, ThreadWrite(c)
    PROVE  Counted'
<1>1. /\ thread[c] = "block" /\ thread' = [thread EXCEPT ![c] = "loop"]
      /\ UNCHANGED closing
      /\ thread \in [Client -> Stages]
      /\ jobs \in Seq(Job)
    BY DEF ThreadWrite, IInv, Types
<1>2. \A d \in Client : thread'[d] = "dead" <=> thread[d] = "dead"
    BY <1>1
<1>3. CASE UNCHANGED <<jobs, lost>>
    BY <1>1, <1>2, <1>3 DEF Counted, Reaping
<1>4. CASE Queue(ReadJob(c)) /\ Overflows(jobs)
    <2>1. ReadJob(c) # ExitJob(c)
        BY JobsDiffer
    <2>2. "loop" \in Stages
        BY DEF Stages
    <2>3. QED BY <1>1, <1>4, <2>1, <2>2, FlushCounts
<1>5. CASE Queue(ReadJob(c)) /\ ~Overflows(jobs)
    <2>1. jobs' = Append(jobs, ReadJob(c)) /\ lost' = lost
        BY <1>5 DEF Queue, Queued
    <2>2. ReadJob(c) \in Job /\ \A d \in Client : ReadJob(c) # ExitJob(d)
        BY JobsDiffer DEF Job
    <2>3. \A d \in Client : Times(jobs, ExitJob(d)) \in Nat
        BY <1>1, TimesOf
    <2>4. \A d \in Client : Times(jobs', ExitJob(d)) = Times(jobs, ExitJob(d))
        BY <1>1, <2>1, <2>2, <2>3, TimesAppend
    <2>5. QED BY <1>1, <1>2, <2>1, <2>4 DEF Counted, Reaping
<1>6. QED BY <1>3, <1>4, <1>5 DEF ThreadWrite

(* The report of an exit: there is none yet of a thread that still runs.   *)
LEMMA ExitCounts ==
    ASSUME IInv, Counted, NEW c \in Client, ThreadExit(c)
    PROVE  Counted'
<1>1. /\ thread[c] = "return" /\ thread' = [thread EXCEPT ![c] = "dead"]
      /\ UNCHANGED closing /\ Queue(ExitJob(c))
      /\ thread \in [Client -> Stages]
      /\ jobs \in Seq(Job)
    BY DEF ThreadExit, IInv, Types
<1>2. CASE Overflows(jobs)
    <2>1. "dead" \in Stages
        BY DEF Stages
    <2>2. QED BY <1>1, <1>2, <2>1, FlushCounts
<1>3. CASE ~Overflows(jobs)
    <2>1. jobs' = Append(jobs, ExitJob(c)) /\ lost' = lost
        BY <1>1, <1>3 DEF Queue, Queued
    <2>2. ExitJob(c) \in Job /\ \A d \in Client : ExitJob(c) = ExitJob(d) => c = d
        BY JobsDiffer DEF Job
    <2>3. Times(jobs, ExitJob(c)) = 0 /\ c \notin lost
        <3>1. ExitJob(c) \notin Jobs(jobs)
            BY <1>1 DEF IInv, RefsLive
        <3>2. QED BY <1>1, <3>1, TimesOf DEF Counted
    <2>4. \A d \in Client : Times(jobs, ExitJob(d)) \in Nat
        BY <1>1, TimesOf
    <2>5. \A d \in Client :
              Times(jobs', ExitJob(d)) = IF d = c THEN 1 ELSE Times(jobs, ExitJob(d))
        <3>1. \A d \in Client :
                  Times(jobs', ExitJob(d)) =
                      Times(jobs, ExitJob(d)) + (IF ExitJob(c) = ExitJob(d) THEN 1 ELSE 0)
            BY <1>1, <2>1, <2>2, TimesAppend
        <3>2. QED BY <2>2, <2>3, <2>4, <3>1
    <2>6. thread'[c] = "dead" /\ \A d \in Client : d # c => thread'[d] = thread[d]
        BY <1>1
    <2>7. QED BY <1>1, <2>1, <2>3, <2>5, <2>6 DEF Counted, Reaping
<1>4. QED BY <1>2, <1>3

(* asc_thread_join prunes the report of the thread it has waited for, and  *)
(* no other.                                                               *)
LEMMA JoinCounts ==
    ASSUME IInv, Counted, Join
    PROVE  Counted'
<1> DEFINE c == closing.c
<1>1. /\ c \in Client /\ closing.at = "join" /\ jobs \in Seq(Job)
      /\ jobs' = Pruned(jobs, ExitJob(c).owner) /\ lost' = lost \ {c}
      /\ thread' = [thread EXCEPT ![c] = "none"]
      /\ thread \in [Client -> Stages]
    BY DEF Join, IInv, Types, Closes
<1>2. \A d \in Client : d # c => ~Reaping(d)
    BY DEF Reaping
<1> HIDE DEF c
<1>3. \A d \in Client :
          Times(jobs', ExitJob(d)) = IF d = c THEN 0 ELSE Times(jobs, ExitJob(d))
    BY <1>1, PrunedTimes
<1>4. thread'[c] = "none" /\ \A d \in Client : d # c => thread'[d] = thread[d]
    BY <1>1
<1>5. QED BY <1>1, <1>2, <1>3, <1>4 DEF Counted

(* The jobs that name the buffer are pruned: no report is among them.      *)
LEMMA PruneCounts ==
    ASSUME IInv, Counted, PruneOutput
    PROVE  Counted'
<1> DEFINE c == closing.c
<1>1. /\ c \in Client /\ closing.at = "prune" /\ jobs \in Seq(Job)
      /\ jobs' = IF out[c] THEN Pruned(jobs, ReadJob(c).owner) ELSE jobs
      /\ UNCHANGED <<thread, lost>>
    BY DEF PruneOutput, IInv, Types, Closes
<1> HIDE DEF c
<1>2. \A d \in Client : Times(jobs', ExitJob(d)) = Times(jobs, ExitJob(d))
    BY <1>1, PrunedTimes
<1>3. \A d \in Client : ~Reaping(d)
    BY <1>1 DEF Reaping
<1>4. QED BY <1>1, <1>2, <1>3 DEF Counted

(* A job is taken: if it is the report of an exit, on_thread_close starts  *)
(* to wait for that thread.                                                *)
LEMMA RunJobCounts ==
    ASSUME IInv, Counted, RunJob
    PROVE  Counted'
<1> DEFINE job == Head(jobs)
<1>1. /\ closing.at # "join" /\ jobs # <<>> /\ jobs \in Seq(Job) /\ jobs' = Tail(jobs)
      /\ UNCHANGED <<thread, lost>>
    BY DEF RunJob, IInv, Types, At, NotClosing
<1>2. /\ job \in Job /\ job \in Jobs(jobs) /\ Tail(jobs) \in Seq(Job)
    BY <1>1, Popped
<1>3. job.proc = "on_thread_exit" => OnThreadClose(job.arg, job.arg \in Orphan)
    BY DEF RunJob
<1> HIDE DEF job
<1>4. ASSUME NEW x
      PROVE  /\ Times(jobs, x) = Times(jobs', x) + (IF job = x THEN 1 ELSE 0)
             /\ Times(jobs', x) \in Nat
    BY <1>1, <1>2, TimesTail, TimesOf DEF job
<1>5. ASSUME NEW d \in Client, thread[d] = "dead", ~Reaping(d)'
      PROVE  Times(jobs', ExitJob(d)) = IF d \in lost THEN 0 ELSE 1
    <2>1. Times(jobs, ExitJob(d)) = IF d \in lost THEN 0 ELSE 1
        BY <1>1, <1>5 DEF Counted, Reaping
    <2>2. job # ExitJob(d)
        <3>1. SUFFICES ASSUME job = ExitJob(d) PROVE FALSE
            OBVIOUS
        <3>2. job.arg = d /\ job.proc = "on_thread_exit"
            BY <3>1, JobsDiffer
        <3>3. closing'.at = "join" /\ closing'.c = d
            BY <1>3, <1>5, <3>2 DEF OnThreadClose
        <3>4. QED BY <1>5, <3>3 DEF Reaping
    <2>3. QED BY <1>4, <2>1, <2>2
<1>6. QED BY <1>1, <1>5 DEF Counted

(* Nothing is lost or doubled, whoever makes the step, but in a flush.     *)
LEMMA CountedStep == IInv /\ Counted /\ [Next]_vars => Counted'
<1> SUFFICES ASSUME IInv, Counted, [Next]_vars PROVE Counted'
    OBVIOUS
<1>1. ASSUME NEW c \in Client, ModuleInit(c) PROVE Counted'
    <2>1. /\ UNCHANGED <<jobs, lost, closing>> /\ thread' = [thread EXCEPT ![c] = "loop"]
          /\ thread \in [Client -> Stages] /\ thread[c] = "none"
        BY <1>1 DEF ModuleInit, IInv, Types, Owned
    <2>2. \A d \in Client : thread'[d] = "dead" <=> thread[d] = "dead"
        BY <2>1
    <2>3. QED BY <2>1, <2>2 DEF Counted, Reaping
<1>2. ASSUME NEW c \in Client, ModuleDestroy(c) PROVE Counted'
    BY <1>2, QueueStays DEF ModuleDestroy, InLua, NotClosing
<1>3. CASE Join
    BY <1>3, JoinCounts
<1>4. CASE PruneOutput
    BY <1>4, PruneCounts
<1>5. CASE RunJob
    BY <1>5, RunJobCounts
<1>6. CASE MainLoopDestroy
    <2>1. list = <<>> /\ jobs' = <<>> /\ UNCHANGED <<thread, lost>>
        BY <1>6 DEF MainLoopDestroy
    <2>2. Live = {}
        BY <2>1 DEF IInv, Listed, Jobs
    <2>3. \A d \in Client : thread[d] # "dead"
        BY <2>2 DEF Live
    <2>4. QED BY <2>1, <2>3 DEF Counted
<1>7. CASE \/ CallbackReturn \/ JoinStray \/ StartJobs \/ ReadReturn \/ ReadFreed
           \/ JobsDone \/ LuaClose \/ LuaClosed \/ Restart
    <2>1. closing.at # "join"
        BY <1>7 DEF CallbackReturn, JoinStray, StartJobs, ReadReturn, ReadFreed, JobsDone,
                    LuaClose, LuaClosed, Restart, At, NotClosing
    <2>2. UNCHANGED <<jobs, lost, thread>>
        BY <1>7 DEF CallbackReturn, JoinStray, StartJobs, ReadReturn, ReadFreed, JobsDone,
                    LuaClose, LuaClosed, Restart, Goto
    <2>3. QED BY <2>1, <2>2, QueueStays
<1>8. ASSUME NEW c \in Client, ThreadBlock(c) \/ ThreadReturn(c) PROVE Counted'
    <2>1. /\ UNCHANGED <<jobs, lost, closing>> /\ thread[c] = "loop"
          /\ \E w \in {"block", "return"} : thread' = [thread EXCEPT ![c] = w]
          /\ thread \in [Client -> Stages]
        BY <1>8 DEF ThreadBlock, ThreadReturn, IInv, Types
    <2>2. \A d \in Client : thread'[d] = "dead" <=> thread[d] = "dead"
        BY <2>1
    <2>3. QED BY <2>1, <2>2 DEF Counted, Reaping
<1>9. ASSUME NEW c \in Client, ThreadWrite(c) PROVE Counted'
    BY <1>9, WriteCounts
<1>10. ASSUME NEW c \in Client, ThreadExit(c) PROVE Counted'
    BY <1>10, ExitCounts
<1>11. CASE Crashed \/ UNCHANGED vars
    BY <1>11, QueueStays DEF Crashed, vars
<1>12. QED
    BY <1>1, <1>2, <1>3, <1>4, <1>5, <1>6, <1>7, <1>8, <1>9, <1>10, <1>11
    DEF Next, Main, Thread

(* So it holds at every step. *)
LEMMA CountedHolds == Spec => []Counted
<1>1. Init => Counted
    <2> SUFFICES ASSUME Init PROVE Counted
        OBVIOUS
    <2>1. lost = {} /\ \A c \in Client : thread[c] = "none"
        BY DEF Init
    <2>2. QED BY <2>1 DEF Counted
<1>2. IInv /\ Counted /\ [Next]_vars => Counted'
    BY CountedStep
<1>3. QED BY <1>1, <1>2, Invariant, PTL DEF Spec
-------------------------------------------------------------------------------
(* Theorems                                                                *)

(* Type correctness: the queue never holds more than JobQueueSize jobs and *)
(* names only clients, and the wake up pipe is counted once per thread.    *)
THEOREM TypesOK == Spec => []TypeOK
<1>1. QED BY Invariant, IInvTyped, PTL

(* Whatever order threads, jobs, destruction and restart come in, however  *)
(* deep closes are nested in the end-of-file callbacks of others, and even *)
(* when asc_job_queue flushes a full queue: a queued job names only memory *)
(* that is still allocated.                                                *)
THEOREM JobsNameTheLiving == Spec => []RefsLive
<1>1. IInv => RefsLive
    BY DEF IInv
<1>2. QED BY <1>1, Invariant, PTL

(* No thread outlives the module whose memory it uses, and none is left    *)
(* when the main loop is freed.                                            *)
THEOREM NoThreadOutlives == Spec => []NoStrayThread
<1>1. QED BY Invariant, IInvNoStray, PTL

(* In a queue of any size, whether it is flushed or not, each thread that  *)
(* has ended is reported once, or not at all if a flush took its report:   *)
(* no report is pruned with another's jobs, queued twice, or left behind   *)
(* for the next thread of the same memory.                                 *)
THEOREM ExitsAreReported == Spec => []ExitReported
    BY CountedReports, Invariant, CountedHolds, PTL

(* A step of the thread manager is a step of WorkerLife or none: a thread  *)
(* is started where none is, ends once, and is reaped only after it ended; *)
(* only ended threads are forgotten, and nothing of this happens after a   *)
(* crash.                                                                  *)
LEMMA LifeStep ==
    IInv /\ Counted /\ [Next]_vars /\ Counted' => [Life!Next]_(Life!vars)
<1> SUFFICES ASSUME IInv, Counted, [Next]_vars, Counted' PROVE [Life!Next]_(Life!vars)
    OBVIOUS
<1>1. thread \in [Client -> Stages]
    BY DEF IInv, Types
<1>2. CASE UNCHANGED <<thread, lost>> /\ ((main # "crashed")' <=> main # "crashed")
    BY <1>2, Zenon DEF life, Life!vars
<1>3. ASSUME NEW c \in Client, ModuleInit(c) PROVE Life!Start(c)
    <2>1. /\ thread[c] = "none" /\ thread' = [thread EXCEPT ![c] = "loop"]
          /\ UNCHANGED <<main, lost>>
        BY <1>3 DEF ModuleInit, IInv, Owned
    <2>2. main # "crashed"
        BY <1>3 DEF ModuleInit, InLua, IInv, Stops
    <2>3. QED BY <1>1, <2>1, <2>2 DEF Life!Start, Life!Moves, life
<1>4. CASE Join
    <2>1. /\ closing.c \in Client /\ thread[closing.c] = "dead"
          /\ thread' = [thread EXCEPT ![closing.c] = "none"]
          /\ lost' = lost \ {closing.c} /\ UNCHANGED main
        BY <1>4 DEF Join, IInv, Closes
    <2>2. main # "crashed"
        BY <1>4 DEF Join, IInv, Stops, NotClosing
    <2>3. Life!Reap(closing.c)
        BY <1>1, <2>1, <2>2 DEF Life!Reap, Life!Moves, life
    <2>4. QED BY <2>1, <2>3 DEF Life!Next
<1>5. ASSUME NEW c \in Client, ThreadBlock(c) \/ ThreadReturn(c)
      PROVE  UNCHANGED Life!vars
    BY <1>1, <1>5 DEF ThreadBlock, ThreadReturn, life, Life!vars
<1>6. ASSUME lost \subseteq lost', UNCHANGED main PROVE Life!Forgets
    <2>1. lost' \subseteq Client
        BY StepKeeps DEF IInv, Types
    <2>2. \A c \in lost' : c \in Client /\ thread'[c] = "dead"
        BY <2>1 DEF Counted
    <2>3. QED BY <1>6, <2>2 DEF Life!Forgets, life
<1>7. ASSUME NEW c \in Client, ThreadWrite(c) PROVE Life!Forget
    <2>1. /\ thread[c] = "block" /\ thread' = [thread EXCEPT ![c] = "loop"]
          /\ main # "crashed" /\ UNCHANGED main /\ lost \subseteq lost'
        BY <1>7 DEF ThreadWrite, Queue
    <2>2. UNCHANGED life
        BY <1>1, <2>1 DEF life
    <2>3. QED BY <1>6, <2>1, <2>2 DEF Life!Forget
<1>8. ASSUME NEW c \in Client, ThreadExit(c) PROVE Life!Finish(c)
    <2>1. /\ thread[c] = "return" /\ thread' = [thread EXCEPT ![c] = "dead"]
          /\ main # "crashed" /\ UNCHANGED main /\ lost \subseteq lost'
        BY <1>8 DEF ThreadExit, Queue
    <2>2. Life!Moves(c, "running", "finished")
        BY <1>1, <2>1 DEF Life!Moves, life
    <2>3. QED BY <1>6, <2>1, <2>2 DEF Life!Finish
<1>9. CASE ReadFreed
    <2>1. main = "read" /\ main' = "crashed" /\ UNCHANGED <<thread, lost>>
        BY <1>9 DEF ReadFreed, At, Goto
    <2>2. QED BY <2>1 DEF Life!Next, Life!Crash, life
<1>10. \/ UNCHANGED <<thread, lost>> /\ ((main # "crashed")' <=> main # "crashed")
       \/ Join \/ ReadFreed
       \/ \E c \in Client : ModuleInit(c) \/ Thread(c)
    BY DEF Next, Main, vars, ModuleDestroy, PruneOutput, CallbackReturn, StartJobs, RunJob,
           ReadReturn, JobsDone, LuaClose, LuaClosed, JoinStray, MainLoopDestroy, Restart,
           Crashed, Goto, At
<1>11. QED BY <1>2, <1>3, <1>4, <1>5, <1>7, <1>8, <1>9, <1>10 DEF Thread, Life!Next

(* The thread manager implements the safety part of WorkerLife: initial    *)
(* states map to initial states, every step to a step or a stutter.  (That *)
(* an ended thread is reaped in the end is left to the run's LifeSpec.)    *)
THEOREM ImplementsLife == Spec => Life!Init /\ [][Life!Next]_(Life!vars)
<1>1. Init => Life!Init
    BY DEF Init, Life!Init, life
<1>2. QED BY <1>1, Invariant, CountedHolds, LifeStep, PTL DEF Spec
=============================================================================
