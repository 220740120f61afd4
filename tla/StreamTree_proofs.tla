-------------------------- MODULE StreamTree_proofs --------------------------
(***************************************************************************)
(* Proofs about StreamTree, for any number of modules and pids: the types, *)
(* the links of the tree, the balance of the counters, and that a counter  *)
(* is never asked to go below zero.                                        *)
(*                                                                         *)
(* The four depend on each other.  A leave that is forwarded finds a       *)
(* positive counter because the counter is balanced and the child that     *)
(* forwards it was counted; but the module whose counters have been set    *)
(* aside by an attach or a destroy must not be reached again from below.   *)
(* So the invariant also says that the tree has no cycle, and that a       *)
(* pending call has only moved upwards.                                    *)
(***************************************************************************)
EXTENDS StreamTree, FiniteSetTheorems, NaturalsInduction, WellFoundedInduction,
        TLAPS

(* no module is its own ancestor *)
Acyclic == \A c \in Module : NotAbove(c, parent[c])

(* while an attach or a destroy of a module is under way, the pending call *)
(* is at that module or above it                                           *)
CallAbove ==
    call # NoCall /\ task # NoTask =>
        call.mod = task.mod \/ NotAbove(task.mod, call.mod)

(* the modules that a task names exist, and a module to be attached does   *)
(* not become its own ancestor                                             *)
TaskFits ==
    task # NoTask =>
        /\ alive[task.mod]
        /\ task.op = "attach" =>
               /\ task.to # NoModule => alive[task.to]
               /\ NotAbove(task.mod, task.to)

IInv ==
    /\ TypeOK
    /\ TreeLinked
    /\ Balanced
    /\ NoDoubleLeave
    /\ Acyclic
    /\ CallAbove
    /\ TaskFits

-----------------------------------------------------------------------------
(* The two forms of a call and of a task *)

(* a call that joins or leaves names a module and a pid *)
LEMMA CallForm ==
    ASSUME TypeOK, NEW op \in {"join", "leave"}, call.op = op
    PROVE  \E m \in Module, p \in Pid : call = [op |-> op, mod |-> m, pid |-> p]
BY DEF TypeOK, Calls, NoCall

(* a task that attaches or destroys names its module *)
LEMMA TaskForm ==
    ASSUME TypeOK, task # NoTask
    PROVE  /\ task \in Tasks
           /\ task.mod \in Module /\ task.to \in Module \cup {NoModule}
BY DEF TypeOK, Tasks, NoTask

(* the next step of a call goes to a module that is neither opaque nor the *)
(* end of the tree, or the call is over                                    *)
LEMMA ForwardForm ==
    ASSUME NEW op \in {"join", "leave"}, NEW m \in Module, NEW p \in Pid
    PROVE  /\ Forward(op, m, p) \in Calls \cup {NoCall}
           /\ Forward(op, m, p) # NoCall =>
                  /\ parent[m] \in Module \ Opaque
                  /\ Forward(op, m, p) = [op |-> op, mod |-> parent[m], pid |-> p]
BY DEF Forward, Calls

(* a pending request counts once, and only where it is pending *)
LEMMA PendingType ==
    ASSUME NEW op, NEW m, NEW p
    PROVE  Pending(op, m, p) \in {0, 1}
BY DEF Pending

(* the counters set aside are numbers *)
LEMMA SavedType ==
    ASSUME TypeOK, NEW m \in Module, NEW p \in Pid
    PROVE  Saved(m, p) \in Nat
BY StreamAssumption DEF Saved, TypeOK

-----------------------------------------------------------------------------
(* What a module is asked for *)

(* the children that want a pid are finite in number, and fewer than a     *)
(* counter can hold                                                        *)
LEMMA WantingFinite ==
    ASSUME NEW m, NEW p
    PROVE  /\ IsFiniteSet(Wanting(m, p))
           /\ Cardinality(Wanting(m, p)) \in Nat
           /\ Cardinality(Module) \in Nat
           /\ Cardinality(Wanting(m, p)) <= Cardinality(Module)
<1>1. Wanting(m, p) \in SUBSET Module
    BY DEF Wanting
<1>2. QED BY <1>1, StreamAssumption, FS_Subset, FS_CardinalityType

(* the requests for a pid never fill a counter *)
LEMMA DemandBound ==
    ASSUME TypeOK, NEW m \in Module, NEW p \in Pid
    PROVE  Demand(m, p) \in Nat /\ Demand(m, p) < CountSize
<1>1. own[m][p] \in 0..MaxOwn
    BY DEF TypeOK
<1>2. QED BY <1>1, WantingFinite, StreamAssumption DEF Demand

(* a child that wants the pid is counted *)
LEMMA ChildCounts ==
    ASSUME TypeOK, NEW m \in Module, NEW p \in Pid, NEW c \in Module,
           parent[c] = m, m \notin Opaque, pid_list[c][p] > 0
    PROVE  Demand(m, p) >= 1
<1>1. c \in Wanting(m, p)
    BY DEF Wanting
<1>2. Cardinality(Wanting(m, p)) # 0
    BY <1>1, WantingFinite, FS_EmptySet
<1>3. own[m][p] \in 0..MaxOwn
    BY DEF TypeOK
<1>4. QED BY <1>2, <1>3, WantingFinite, StreamAssumption DEF Demand

(* the children that want the pid stay the same *)
LEMMA WantingSame ==
    ASSUME NEW m, NEW p,
           \A c \in Module : (parent[c] = m /\ pid_list[c][p] > 0)
                             <=> (parent'[c] = m /\ pid_list'[c][p] > 0)
    PROVE  Wanting(m, p)' = Wanting(m, p)
BY DEF Wanting

(* a module that begins to want the pid adds one to what its parent is     *)
(* asked for, and to nothing else                                          *)
LEMMA DemandGrows ==
    ASSUME TypeOK, NEW m \in Module, NEW p \in Pid,
           parent' = parent, own' = own,
           \A c \in Module, q \in Pid :
               pid_list'[c][q] = pid_list[c][q] + IF c = m /\ q = p THEN 1 ELSE 0,
           NEW a \in Module, NEW b \in Pid
    PROVE  Demand(a, b)' = Demand(a, b)
               + (IF b = p /\ pid_list[m][p] = 0 /\ parent[m] = a /\ a \notin Opaque
                  THEN 1 ELSE 0)
<1>1. own[a][b] \in Nat /\ \A c \in Module : pid_list[c][b] \in Nat
    BY StreamAssumption DEF TypeOK
<1>2. CASE b = p /\ pid_list[m][p] = 0 /\ parent[m] = a
    <2>1. m \notin Wanting(a, b)
        BY <1>2 DEF Wanting
    <2>2. Wanting(a, b)' = Wanting(a, b) \cup {m}
        BY <1>1, <1>2 DEF Wanting
    <2>3. Cardinality(Wanting(a, b)') = Cardinality(Wanting(a, b)) + 1
        BY <2>1, <2>2, WantingFinite, FS_AddElement
    <2>4. QED BY <1>1, <1>2, <2>3, WantingFinite DEF Demand
<1>3. CASE ~(b = p /\ pid_list[m][p] = 0 /\ parent[m] = a)
    <2>1. Wanting(a, b)' = Wanting(a, b)
        BY <1>1, <1>3 DEF Wanting
    <2>2. QED BY <1>1, <1>3, <2>1, WantingFinite DEF Demand
<1>4. QED BY <1>2, <1>3

(* a module that no longer wants the pid takes one away from what its      *)
(* parent is asked for, and from nothing else                              *)
LEMMA DemandShrinks ==
    ASSUME TypeOK, NEW m \in Module, NEW p \in Pid,
           parent' = parent, own' = own, pid_list[m][p] > 0,
           \A c \in Module, q \in Pid :
               pid_list'[c][q] = pid_list[c][q] - IF c = m /\ q = p THEN 1 ELSE 0,
           NEW a \in Module, NEW b \in Pid
    PROVE  Demand(a, b)' = Demand(a, b)
               - (IF b = p /\ pid_list[m][p] = 1 /\ parent[m] = a /\ a \notin Opaque
                  THEN 1 ELSE 0)
<1>1. own[a][b] \in Nat /\ \A c \in Module : pid_list[c][b] \in Nat
    BY StreamAssumption DEF TypeOK
<1>2. CASE b = p /\ pid_list[m][p] = 1 /\ parent[m] = a
    <2>1. m \in Wanting(a, b)
        BY <1>2 DEF Wanting
    <2>2. Wanting(a, b)' = Wanting(a, b) \ {m}
        BY <1>1, <1>2 DEF Wanting
    <2>3. Cardinality(Wanting(a, b)') = Cardinality(Wanting(a, b)) - 1
        BY <2>1, <2>2, WantingFinite, FS_RemoveElement
    <2>4. QED BY <1>1, <1>2, <2>3, WantingFinite DEF Demand
<1>3. CASE ~(b = p /\ pid_list[m][p] = 1 /\ parent[m] = a)
    <2>1. Wanting(a, b)' = Wanting(a, b)
        BY <1>1, <1>3 DEF Wanting
    <2>2. QED BY <1>1, <1>3, <2>1, WantingFinite DEF Demand
<1>4. QED BY <1>2, <1>3

-----------------------------------------------------------------------------
(* The shape of the tree *)

(* what a module is not above is another module *)
LEMMA NotAboveNotSame ==
    ASSUME NEW c \in Module, NEW m \in Module, NotAbove(c, m)
    PROVE  c # m
BY StreamAssumption DEF NotAbove

(* going up from a pending call never comes to the module of the task *)
LEMMA CallClimbs ==
    ASSUME TypeOK, Acyclic, CallAbove, task # NoTask, call # NoCall,
           call.mod \in Module, parent[call.mod] \in Module
    PROVE  NotAbove(task.mod, parent[call.mod]) /\ parent[call.mod] # task.mod
<1>1. task.mod \in Module
    BY TaskForm
<1>2. NotAbove(task.mod, parent[call.mod])
    <2>1. CASE call.mod = task.mod
        BY <2>1 DEF Acyclic
    <2>2. CASE NotAbove(task.mod, call.mod)
        <3>1. PICK S \in SUBSET Module :
                  /\ call.mod \in S /\ task.mod \notin S
                  /\ \A x \in S : parent[x] \in S \cup {NoModule}
            BY <2>2, StreamAssumption DEF NotAbove
        <3>2. parent[call.mod] \in S
            BY <3>1, StreamAssumption
        <3>3. QED BY <3>1, <3>2 DEF NotAbove
    <2>3. QED BY <2>1, <2>2 DEF CallAbove
<1>3. QED BY <1>1, <1>2, NotAboveNotSame

(* hanging a module below one that it is not above makes no cycle *)
LEMMA LinkAcyclic ==
    ASSUME TypeOK, Acyclic, NEW c \in Module, NEW m \in Module \cup {NoModule},
           NotAbove(c, m), parent' = [parent EXCEPT ![c] = m]
    PROVE  Acyclic'
<1> SUFFICES ASSUME NEW x \in Module, parent'[x] # NoModule
             PROVE  \E S \in SUBSET Module :
                        /\ parent'[x] \in S /\ x \notin S
                        /\ \A y \in S : parent'[y] \in S \cup {NoModule}
    BY DEF Acyclic, NotAbove
<1> DEFINE Closed(S) == \A y \in S : parent[y] \in S \cup {NoModule}
<1>1. ASSUME m # NoModule
      PROVE  \E S \in SUBSET Module : m \in S /\ c \notin S /\ Closed(S)
    BY <1>1 DEF NotAbove
<1>2. CASE x = c
    <2>1. parent'[x] = m
        BY <1>2 DEF TypeOK
    <2>2. PICK S \in SUBSET Module : m \in S /\ c \notin S /\ Closed(S)
        BY <1>1, <2>1
    <2>3. \A y \in S : parent'[y] \in S \cup {NoModule}
        BY <2>2 DEF TypeOK
    <2>4. QED BY <1>2, <2>1, <2>2, <2>3
<1>3. CASE x # c
    <2>1. parent'[x] = parent[x]
        BY <1>3 DEF TypeOK
    <2>2. PICK T \in SUBSET Module : parent[x] \in T /\ x \notin T /\ Closed(T)
        BY <2>1 DEF Acyclic, NotAbove
    <2>3. CASE c \notin T
        <3>1. \A y \in T : parent'[y] \in T \cup {NoModule}
            BY <2>2, <2>3 DEF TypeOK
        <3>2. QED BY <2>1, <2>2, <3>1
    <2>4. CASE m = NoModule
        <3>1. \A y \in T : parent'[y] \in T \cup {NoModule}
            BY <2>2, <2>4 DEF TypeOK
        <3>2. QED BY <2>1, <2>2, <3>1
    <2>5. CASE c \in T /\ m # NoModule
        <3>1. PICK S \in SUBSET Module : m \in S /\ c \notin S /\ Closed(S)
            BY <1>1, <2>5
        <3>2. CASE x \in S
            <4>1. parent[x] \in S \cap T
                BY <2>1, <2>2, <3>1, <3>2
            <4>2. \A y \in S \cap T : parent'[y] \in (S \cap T) \cup {NoModule}
                BY <2>2, <3>1 DEF TypeOK
            <4>3. QED BY <2>1, <2>2, <4>1, <4>2
        <3>3. CASE x \notin S
            <4>1. \A y \in S \cup T : parent'[y] \in (S \cup T) \cup {NoModule}
                BY <2>2, <3>1 DEF TypeOK
            <4>2. QED BY <2>1, <2>2, <3>3, <4>1
        <3>4. QED BY <3>2, <3>3
    <2>6. QED BY <2>3, <2>4, <2>5
<1>4. QED BY <1>2, <1>3

-----------------------------------------------------------------------------
(* The steps.  A request begins when nothing is pending. *)

(* An empty tree. *)
LEMMA InitIInv == Init => IInv
<1> SUFFICES ASSUME Init PROVE IInv
    OBVIOUS
<1> USE StreamAssumption DEF Init
<1>1. TypeOK
    <2>1. 0 \in 0..(CountSize - 1) /\ 0 \in 0..MaxOwn
        BY FS_CardinalityType
    <2>2. pid_list \in [Module -> [Pid -> 0..(CountSize - 1)]]
        BY <2>1
    <2>3. own \in [Module -> [Pid -> 0..MaxOwn]]
        BY <2>1
    <2>4. saved \in [Pid -> 0..(CountSize - 1)]
        BY <2>1 DEF Nothing
    <2>5. children \in [Module -> SUBSET Module]
        OBVIOUS
    <2>6. QED BY <2>2, <2>3, <2>4, <2>5 DEF TypeOK
<1>2. TreeLinked
    <2>1. \A m \in Module : children[m] = {} /\ parent[m] = NoModule
        OBVIOUS
    <2>2. \A m \in Module : {c \in Module : parent[c] = m} = {}
        BY <2>1
    <2>3. QED BY <2>1, <2>2 DEF TreeLinked
<1>3. Balanced
    <2> SUFFICES ASSUME NEW m \in Module, NEW p \in Pid
                 PROVE  BalancedAt(m, p)
        BY DEF Balanced
    <2>1. Wanting(m, p) = {}
        BY StreamAssumption DEF Init, Wanting
    <2>2. Cardinality(Wanting(m, p)) = 0
        BY <2>1, FS_EmptySet
    <2>3. QED BY <2>2 DEF Init, BalancedAt, Demand, Saved, Pending, NoCall
<1>4. NoDoubleLeave /\ CallAbove /\ TaskFits
    BY DEF Init, NoDoubleLeave, CallAbove, TaskFits, NoCall, NoTask
<1>5. Acyclic
    BY DEF Init, Acyclic, NotAbove
<1>6. QED BY <1>1, <1>2, <1>3, <1>4, <1>5 DEF IInv

(* what a module is asked for depends on the requests and the links only *)
LEMMA DemandSame ==
    ASSUME NEW m, NEW p, own[m][p]' = own[m][p],
           parent' = parent, pid_list' = pid_list
    PROVE  Demand(m, p)' = Demand(m, p)
BY WantingSame DEF Demand

(* the shape of the tree depends on the links only *)
LEMMA AcyclicSame == ASSUME Acyclic, parent' = parent PROVE Acyclic'
BY DEF Acyclic, NotAbove

(* module_stream_init: the new module has no parent, no child, no count. *)
LEMMA StreamInitStep ==
    ASSUME IInv, NEW m \in Module, StreamInit(m) PROVE IInv'
<1>1. TypeOK' /\ TreeLinked'
    BY DEF IInv, TypeOK, TreeLinked, StreamInit
<1>2. Balanced'
    BY DemandSame DEF IInv, Balanced, BalancedAt, Saved, Pending, StreamInit
<1>3. Acyclic'
    BY AcyclicSame DEF IInv, StreamInit
<1>4. NoDoubleLeave' /\ CallAbove' /\ TaskFits'
    BY DEF NoDoubleLeave, CallAbove, TaskFits, StreamInit, Idle, NoCall
<1>5. QED BY <1>1, <1>2, <1>3, <1>4 DEF IInv

(* A module asks for a pid for itself. *)
LEMMA JoinStep ==
    ASSUME IInv, NEW m \in Module, NEW p \in Pid, Join(m, p) PROVE IInv'
<1>1. TypeOK'
    BY StreamAssumption DEF IInv, TypeOK, Join, Calls
<1>2. Balanced'
    <2> SUFFICES ASSUME NEW a \in Module, NEW b \in Pid
                 PROVE  BalancedAt(a, b)'
        BY DEF Balanced
    <2>1. /\ Wanting(a, b)' = Wanting(a, b)
          /\ Saved(a, b)' = Saved(a, b)
        BY WantingSame DEF Join, Saved
    <2>2. /\ Pending("join", a, b) = 0 /\ Pending("leave", a, b) = 0
          /\ Pending("leave", a, b)' = 0
          /\ Pending("join", a, b)' = IF a = m /\ b = p THEN 1 ELSE 0
        BY DEF Join, Idle, NoCall, Pending
    <2>3. own'[a][b] = own[a][b] + IF a = m /\ b = p THEN 1 ELSE 0
        BY StreamAssumption DEF Join, IInv, TypeOK
    <2>4. /\ pid_list[a][b] \in Nat /\ pid_list'[a][b] = pid_list[a][b]
          /\ own[a][b] \in Nat
        BY StreamAssumption DEF Join, IInv, TypeOK
    <2>5. BalancedAt(a, b)
        BY DEF IInv, Balanced
    <2>6. QED BY <2>1, <2>2, <2>3, <2>4, <2>5, WantingFinite, SavedType
              DEF BalancedAt, Demand, IInv
<1>3. Acyclic'
    BY AcyclicSame DEF IInv, Join
<1>4. TreeLinked' /\ NoDoubleLeave' /\ CallAbove' /\ TaskFits'
    BY DEF IInv, TreeLinked, NoDoubleLeave, CallAbove, TaskFits, Join, Idle
<1>5. QED BY <1>1, <1>2, <1>3, <1>4 DEF IInv

(* A module gives up a pid it asked for. *)
LEMMA LeaveStep ==
    ASSUME IInv, NEW m \in Module, NEW p \in Pid, Leave(m, p) PROVE IInv'
<1>1. TypeOK'
    BY StreamAssumption DEF IInv, TypeOK, Leave, Calls
<1>2. \A a \in Module, b \in Pid :
          /\ Saved(a, b) = 0 /\ Saved(a, b)' = 0
          /\ Pending("join", a, b) = 0 /\ Pending("leave", a, b) = 0
          /\ Pending("join", a, b)' = 0
          /\ Pending("leave", a, b)' = IF a = m /\ b = p THEN 1 ELSE 0
    BY DEF Leave, Idle, NoCall, Pending, Saved
<1>3. Balanced'
    <2> SUFFICES ASSUME NEW a \in Module, NEW b \in Pid
                 PROVE  BalancedAt(a, b)'
        BY DEF Balanced
    <2>1. Wanting(a, b)' = Wanting(a, b)
        BY WantingSame DEF Leave
    <2>2. own'[a][b] = own[a][b] - IF a = m /\ b = p THEN 1 ELSE 0
        BY StreamAssumption DEF Leave, IInv, TypeOK
    <2>3. /\ pid_list[a][b] \in Nat /\ pid_list'[a][b] = pid_list[a][b]
          /\ own[a][b] \in Nat
        BY StreamAssumption DEF Leave, IInv, TypeOK
    <2>4. BalancedAt(a, b)
        BY DEF IInv, Balanced
    <2>5. QED BY <1>2, <2>1, <2>2, <2>3, <2>4, WantingFinite
              DEF BalancedAt, Demand
<1>4. NoDoubleLeave'
    <2>1. BalancedAt(m, p)
        BY DEF IInv, Balanced
    <2>2. own[m][p] \in Nat /\ own[m][p] > 0 /\ pid_list[m][p] \in Nat
        BY StreamAssumption DEF Leave, IInv, TypeOK
    <2>3. pid_list[m][p] > 0
        BY <1>2, <2>1, <2>2, WantingFinite DEF BalancedAt, Demand
    <2>4. QED BY <2>3 DEF NoDoubleLeave, Leave
<1>5. Acyclic'
    BY AcyclicSame DEF IInv, Leave
<1>6. TreeLinked' /\ CallAbove' /\ TaskFits'
    BY DEF IInv, TreeLinked, CallAbove, TaskFits, Leave, Idle
<1>7. QED BY <1>1, <1>3, <1>4, <1>5, <1>6 DEF IInv

(* module_stream_attach begins: the requests below are to be moved. *)
LEMMA AttachStep ==
    ASSUME IInv, NEW c \in Module, NEW m \in Module \cup {NoModule}, Attach(c, m)
    PROVE  IInv'
<1>1. TypeOK'
    BY StreamAssumption DEF IInv, TypeOK, Attach, Tasks, Nothing
<1>2. Balanced'
    <2>1. \A a \in Module, b \in Pid : Saved(a, b)' = 0 /\ Saved(a, b) = 0
        BY DEF Attach, Saved, Idle, Nothing
    <2>2. QED BY <2>1, DemandSame DEF IInv, Balanced, BalancedAt, Pending, Attach
<1>3. Acyclic'
    BY AcyclicSame DEF IInv, Attach
<1>4. TreeLinked' /\ NoDoubleLeave' /\ CallAbove'
    BY DEF IInv, TreeLinked, NoDoubleLeave, CallAbove, Attach, Idle, NoCall
<1>5. TaskFits'
    BY DEF TaskFits, Attach, NotAbove
<1>6. QED BY <1>1, <1>2, <1>3, <1>4, <1>5 DEF IInv

(* module_stream_destroy begins. *)
LEMMA DestroyStep ==
    ASSUME IInv, NEW m \in Module, Destroy(m) PROVE IInv'
<1>1. TypeOK'
    BY StreamAssumption DEF IInv, TypeOK, Destroy, Tasks, Nothing
<1>2. Balanced'
    <2>1. \A a \in Module, b \in Pid : Saved(a, b)' = 0 /\ Saved(a, b) = 0
        BY DEF Destroy, Saved, Idle, Nothing
    <2>2. QED BY <2>1, DemandSame DEF IInv, Balanced, BalancedAt, Pending, Destroy
<1>3. Acyclic'
    BY AcyclicSame DEF IInv, Destroy
<1>4. TreeLinked' /\ NoDoubleLeave' /\ CallAbove' /\ TaskFits'
    BY DEF IInv, TreeLinked, NoDoubleLeave, CallAbove, TaskFits, Destroy, Idle, NoCall
<1>5. QED BY <1>1, <1>2, <1>3, <1>4 DEF IInv

-----------------------------------------------------------------------------
(* One invocation of module_demux_join or module_demux_leave *)

(* module_demux_join at one module of the climb. *)
LEMMA DemuxJoinStep == ASSUME IInv, DemuxJoin PROVE IInv'
<1>0. PICK m \in Module, p \in Pid : call = [op |-> "join", mod |-> m, pid |-> p]
    BY CallForm DEF DemuxJoin, IInv
<1> DEFINE up == parent[m]
<1>1. /\ call # NoCall /\ call.op = "join" /\ call.mod = m /\ call.pid = p
    BY <1>0 DEF NoCall
<1>2. /\ BalancedAt(m, p) /\ Pending("join", m, p) = 1
      /\ Pending("leave", m, p) = 0
    BY <1>1 DEF IInv, Balanced, Pending
<1>3. pid_list[m][p] \in 0..(CountSize - 1) /\ up \in Module \cup {NoModule}
    BY <1>1 DEF IInv, TypeOK
<1>4. /\ pid_list[m][p] + 1 < CountSize
      /\ (pid_list[m][p] + 1) % CountSize = pid_list[m][p] + 1
    <2>1. pid_list[m][p] + 1 < CountSize
        BY <1>1, <1>2, <1>3, SavedType, DemandBound, StreamAssumption
           DEF BalancedAt, IInv
    <2>2. \A n \in Nat : n < CountSize => n % CountSize = n
        BY StreamAssumption
    <2>3. pid_list[m][p] + 1 \in Nat
        BY <1>3, StreamAssumption
    <2>4. QED BY <2>1, <2>2, <2>3
<1>5. /\ pid_list' = [pid_list EXCEPT ![m][p] = pid_list[m][p] + 1]
      /\ call' = IF pid_list[m][p] = 0 THEN Forward("join", m, p) ELSE NoCall
      /\ UNCHANGED <<alive, parent, children, own, task, saved>>
    <2> DEFINE n == (pid_list[m][p] + 1) % CountSize
    <2>1. /\ pid_list' = [pid_list EXCEPT ![m][p] = n]
          /\ call' = IF n = 1 THEN Forward("join", m, p) ELSE NoCall
          /\ UNCHANGED <<alive, parent, children, own, task, saved>>
        BY <1>1 DEF DemuxJoin
    <2>2. n = pid_list[m][p] + 1 /\ (n = 1 <=> pid_list[m][p] = 0)
        BY <1>3, <1>4, StreamAssumption
    <2>3. QED BY <2>1, <2>2
<1>6. TypeOK'
    <2>1. pid_list' \in [Module -> [Pid -> 0..(CountSize - 1)]]
        <3>1. pid_list[m][p] + 1 \in 0..(CountSize - 1)
            BY <1>3, <1>4, StreamAssumption
        <3>2. QED BY <1>1, <1>5, <3>1 DEF IInv, TypeOK
    <2>2. call' \in Calls \cup {NoCall}
        BY <1>1, <1>5, ForwardForm
    <2>3. QED BY <1>5, <2>1, <2>2 DEF IInv, TypeOK
<1>7. Balanced'
    <2> SUFFICES ASSUME NEW a \in Module, NEW b \in Pid
                 PROVE  BalancedAt(a, b)'
        BY DEF Balanced
    <2> DEFINE forwarded ==
                   b = p /\ pid_list[m][p] = 0 /\ up = a /\ a \notin Opaque
    <2>1. Demand(a, b)' = Demand(a, b) + IF forwarded THEN 1 ELSE 0
        <3>1. \A c \in Module, q \in Pid :
                  pid_list'[c][q] = pid_list[c][q] + IF c = m /\ q = p THEN 1 ELSE 0
            BY <1>5, StreamAssumption DEF IInv, TypeOK
        <3>2. TypeOK /\ parent' = parent /\ own' = own
            BY <1>5 DEF IInv
        <3>3. QED BY <3>1, <3>2, DemandGrows
    <2>2. /\ Pending("join", a, b) = IF a = m /\ b = p THEN 1 ELSE 0
          /\ Pending("leave", a, b) = 0
        BY <1>1 DEF Pending
    <2>3. /\ Pending("join", a, b)' = IF forwarded THEN 1 ELSE 0
          /\ Pending("leave", a, b)' = 0
        BY <1>1, <1>5, StreamAssumption DEF Pending, Forward, NoCall
    <2>4. /\ pid_list'[a][b] = pid_list[a][b] + IF a = m /\ b = p THEN 1 ELSE 0
          /\ pid_list[a][b] \in Nat
        BY <1>1, <1>5, StreamAssumption DEF IInv, TypeOK
    <2>5. Saved(a, b)' = Saved(a, b)
        BY <1>5 DEF Saved
    <2>6. BalancedAt(a, b)
        BY DEF IInv, Balanced
    <2> HIDE DEF forwarded
    <2>7. QED BY <2>1, <2>2, <2>3, <2>4, <2>5, <2>6, SavedType, DemandBound
              DEF BalancedAt, IInv
<1>8. NoDoubleLeave'
    BY <1>1, <1>5, ForwardForm DEF NoDoubleLeave, NoCall
<1>9. Acyclic'
    BY <1>5, AcyclicSame DEF IInv
<1>10. CallAbove'
    <2> SUFFICES ASSUME call' # NoCall, task # NoTask
                 PROVE  NotAbove(task.mod, call.mod)'
        BY <1>5 DEF CallAbove
    <2>1. up \in Module /\ call'.mod = up
        BY <1>1, <1>5, ForwardForm
    <2>2. NotAbove(task.mod, up)
        BY <1>1, <2>1, CallClimbs DEF IInv
    <2>3. QED BY <1>5, <2>1, <2>2 DEF NotAbove
<1>11. TreeLinked' /\ TaskFits'
    BY <1>5 DEF IInv, TreeLinked, TaskFits, NotAbove
<1>12. QED BY <1>6, <1>7, <1>8, <1>9, <1>10, <1>11 DEF IInv

(* module_demux_leave at one module of the climb. *)
LEMMA DemuxLeaveStep == ASSUME IInv, DemuxLeave PROVE IInv'
<1>0. PICK m \in Module, p \in Pid : call = [op |-> "leave", mod |-> m, pid |-> p]
    BY CallForm DEF DemuxLeave, IInv
<1> DEFINE up == parent[m]
<1>1. /\ call # NoCall /\ call.op = "leave" /\ call.mod = m /\ call.pid = p
    BY <1>0 DEF NoCall
<1>2. /\ pid_list[m][p] \in 0..(CountSize - 1) /\ pid_list[m][p] > 0
      /\ up \in Module \cup {NoModule}
    BY <1>1 DEF IInv, TypeOK, NoDoubleLeave
<1>3. /\ pid_list' = [pid_list EXCEPT ![m][p] = pid_list[m][p] - 1]
      /\ call' = IF pid_list[m][p] = 1 THEN Forward("leave", m, p) ELSE NoCall
      /\ UNCHANGED <<alive, parent, children, own, task, saved>>
    BY <1>1, <1>2 DEF DemuxLeave
<1>4. TypeOK'
    <2>1. pid_list[m][p] - 1 \in 0..(CountSize - 1)
        BY <1>2, StreamAssumption
    <2>2. pid_list' \in [Module -> [Pid -> 0..(CountSize - 1)]]
        BY <1>1, <1>3, <2>1 DEF IInv, TypeOK
    <2>3. call' \in Calls \cup {NoCall}
        BY <1>1, <1>3, ForwardForm
    <2>4. QED BY <1>3, <2>2, <2>3 DEF IInv, TypeOK
<1>5. Balanced'
    <2> SUFFICES ASSUME NEW a \in Module, NEW b \in Pid
                 PROVE  BalancedAt(a, b)'
        BY DEF Balanced
    <2> DEFINE forwarded ==
                   b = p /\ pid_list[m][p] = 1 /\ up = a /\ a \notin Opaque
    <2>1. Demand(a, b)' = Demand(a, b) - IF forwarded THEN 1 ELSE 0
        <3>1. \A c \in Module, q \in Pid :
                  pid_list'[c][q] = pid_list[c][q] - IF c = m /\ q = p THEN 1 ELSE 0
            BY <1>3, StreamAssumption DEF IInv, TypeOK
        <3>2. TypeOK /\ parent' = parent /\ own' = own
            BY <1>3 DEF IInv
        <3>3. QED BY <1>2, <3>1, <3>2, DemandShrinks
    <2>2. /\ Pending("leave", a, b) = IF a = m /\ b = p THEN 1 ELSE 0
          /\ Pending("join", a, b) = 0
        BY <1>1 DEF Pending
    <2>3. /\ Pending("leave", a, b)' = IF forwarded THEN 1 ELSE 0
          /\ Pending("join", a, b)' = 0
        BY <1>1, <1>3, StreamAssumption DEF Pending, Forward, NoCall
    <2>4. /\ pid_list'[a][b] = pid_list[a][b] - IF a = m /\ b = p THEN 1 ELSE 0
          /\ pid_list[a][b] \in Nat
        BY <1>1, <1>3, StreamAssumption DEF IInv, TypeOK
    <2>5. Saved(a, b)' = Saved(a, b)
        BY <1>3 DEF Saved
    <2>6. BalancedAt(a, b)
        BY DEF IInv, Balanced
    <2> HIDE DEF forwarded
    <2>7. QED BY <2>1, <2>2, <2>3, <2>4, <2>5, <2>6, SavedType, DemandBound
              DEF BalancedAt, IInv
<1>6. NoDoubleLeave'
    <2> SUFFICES ASSUME call' # NoCall
                 PROVE  pid_list'[call'.mod][call'.pid] > 0
        BY DEF NoDoubleLeave, NoCall
    <2>1. /\ up \in Module \ Opaque /\ call'.mod = up /\ call'.pid = p
          /\ pid_list[m][p] = 1
        BY <1>1, <1>3, ForwardForm
    <2>2. up # m
        BY <1>1, <2>1, NotAboveNotSame DEF IInv, Acyclic
    <2>3. Saved(up, p) = 0
        <3>1. task # NoTask => up # task.mod
            BY <1>1, <2>1, CallClimbs DEF IInv
        <3>2. QED BY <3>1 DEF Saved
    <2>4. /\ Pending("join", up, p) = 0 /\ Pending("leave", up, p) = 0
        BY <1>1, <2>2 DEF Pending
    <2>5. Demand(up, p) >= 1 /\ Demand(up, p) \in Nat
        BY <1>1, <1>2, <2>1, ChildCounts, DemandBound DEF IInv
    <2>6. pid_list[up][p] \in Nat /\ BalancedAt(up, p)
        BY <1>1, <2>1, StreamAssumption DEF IInv, TypeOK, Balanced
    <2>7. pid_list[up][p] > 0
        BY <2>3, <2>4, <2>5, <2>6 DEF BalancedAt
    <2>8. pid_list'[up] = pid_list[up]
        BY <1>3, <2>1, <2>2 DEF IInv, TypeOK
    <2>9. QED BY <2>1, <2>7, <2>8
<1>7. Acyclic'
    BY <1>3, AcyclicSame DEF IInv
<1>8. CallAbove'
    <2> SUFFICES ASSUME call' # NoCall, task # NoTask
                 PROVE  NotAbove(task.mod, call.mod)'
        BY <1>3 DEF CallAbove
    <2>1. up \in Module /\ call'.mod = up
        BY <1>1, <1>3, ForwardForm
    <2>2. NotAbove(task.mod, up)
        BY <1>1, <2>1, CallClimbs DEF IInv
    <2>3. QED BY <1>3, <2>1, <2>2 DEF NotAbove
<1>9. TreeLinked' /\ TaskFits'
    BY <1>3 DEF IInv, TreeLinked, TaskFits, NotAbove
<1>10. QED BY <1>4, <1>5, <1>6, <1>7, <1>8, <1>9 DEF IInv

-----------------------------------------------------------------------------
(* The loops of module_stream_attach and module_stream_destroy *)

(* A leave of the loop over the pids of a module that moves or goes. *)
LEMMA TaskLeaveStep == ASSUME IInv, TaskLeave PROVE IInv'
<1>1. PICK p \in Pid :
          /\ pid_list[task.mod][p] > 0
          /\ saved' = [saved EXCEPT ![p] = saved[p] + 1]
          /\ call' = [op |-> "leave", mod |-> task.mod, pid |-> p]
    BY DEF TaskLeave
<1>2. /\ task # NoTask /\ task.mod \in Module /\ call = NoCall
      /\ saved \in [Pid -> 0..(CountSize - 1)]
      /\ UNCHANGED <<alive, parent, children, pid_list, own, task>>
    BY TaskForm DEF TaskLeave, IInv, TypeOK, NoTask
<1> DEFINE m == task.mod
<1>3. /\ BalancedAt(m, p) /\ pid_list[m][p] \in Nat
      /\ Saved(m, p) = saved[p]
      /\ Pending("leave", m, p) = 0 /\ Pending("join", m, p) = 0
    BY <1>2, StreamAssumption DEF IInv, Balanced, TypeOK, Saved, Pending, NoCall
<1>4. saved[p] + 1 \in 0..(CountSize - 1)
    <2>1. saved[p] \in Nat
        BY <1>2, StreamAssumption
    <2>2. QED BY <1>1, <1>2, <1>3, <2>1, DemandBound, StreamAssumption
              DEF BalancedAt, IInv
<1>5. TypeOK'
    BY <1>1, <1>2, <1>4 DEF IInv, TypeOK, Calls
<1>6. Balanced'
    <2> SUFFICES ASSUME NEW a \in Module, NEW b \in Pid
                 PROVE  BalancedAt(a, b)'
        BY DEF Balanced
    <2>1. Demand(a, b)' = Demand(a, b)
        BY <1>2, DemandSame
    <2>2. /\ Pending("leave", a, b) = 0 /\ Pending("join", a, b) = 0
          /\ Pending("leave", a, b)' = IF a = m /\ b = p THEN 1 ELSE 0
          /\ Pending("join", a, b)' = 0
        BY <1>1, <1>2 DEF Pending, NoCall
    <2>3. Saved(a, b)' = Saved(a, b) + IF a = m /\ b = p THEN 1 ELSE 0
        BY <1>1, <1>2, StreamAssumption DEF Saved
    <2>4. pid_list[a][b] \in Nat
        BY StreamAssumption DEF IInv, TypeOK
    <2>5. BalancedAt(a, b)
        BY DEF IInv, Balanced
    <2>6. QED BY <1>2, <2>1, <2>2, <2>3, <2>4, <2>5, SavedType, DemandBound
              DEF BalancedAt, IInv
<1>7. NoDoubleLeave' /\ CallAbove'
    BY <1>1, <1>2 DEF NoDoubleLeave, CallAbove
<1>8. Acyclic'
    BY <1>2, AcyclicSame DEF IInv
<1>9. TreeLinked' /\ TaskFits'
    BY <1>2 DEF IInv, TreeLinked, TaskFits, NotAbove
<1>10. QED BY <1>5, <1>6, <1>7, <1>8, <1>9 DEF IInv

(* A join of that loop, at the new parent. *)
LEMMA TaskJoinStep == ASSUME IInv, TaskJoin PROVE IInv'
<1>1. PICK p \in Pid :
          /\ saved[p] > 0
          /\ saved' = [saved EXCEPT ![p] = saved[p] - 1]
          /\ call' = [op |-> "join", mod |-> task.mod, pid |-> p]
    BY DEF TaskJoin
<1>2. /\ task # NoTask /\ task.mod \in Module /\ call = NoCall
      /\ saved \in [Pid -> 0..(CountSize - 1)]
      /\ UNCHANGED <<alive, parent, children, pid_list, own, task>>
    BY TaskForm DEF TaskJoin, IInv, TypeOK, NoTask
<1> DEFINE m == task.mod
<1>3. saved[p] - 1 \in 0..(CountSize - 1)
    BY <1>1, <1>2, StreamAssumption
<1>4. TypeOK'
    BY <1>1, <1>2, <1>3 DEF IInv, TypeOK, Calls
<1>5. Balanced'
    <2> SUFFICES ASSUME NEW a \in Module, NEW b \in Pid
                 PROVE  BalancedAt(a, b)'
        BY DEF Balanced
    <2>1. Demand(a, b)' = Demand(a, b)
        BY <1>2, DemandSame
    <2>2. /\ Pending("leave", a, b) = 0 /\ Pending("join", a, b) = 0
          /\ Pending("join", a, b)' = IF a = m /\ b = p THEN 1 ELSE 0
          /\ Pending("leave", a, b)' = 0
        BY <1>1, <1>2 DEF Pending, NoCall
    <2>3. Saved(a, b)' = Saved(a, b) - IF a = m /\ b = p THEN 1 ELSE 0
        BY <1>1, <1>2, StreamAssumption DEF Saved
    <2>4. pid_list[a][b] \in Nat
        BY StreamAssumption DEF IInv, TypeOK
    <2>5. BalancedAt(a, b)
        BY DEF IInv, Balanced
    <2>6. QED BY <1>2, <2>1, <2>2, <2>3, <2>4, <2>5, SavedType, DemandBound
              DEF BalancedAt, IInv
<1>6. NoDoubleLeave' /\ CallAbove'
    BY <1>1, <1>2 DEF NoDoubleLeave, CallAbove
<1>7. Acyclic'
    BY <1>2, AcyclicSame DEF IInv
<1>8. TreeLinked' /\ TaskFits'
    BY <1>2 DEF IInv, TreeLinked, TaskFits, NotAbove
<1>9. QED BY <1>4, <1>5, <1>6, <1>7, <1>8 DEF IInv

(* module_stream_attach returns. *)
LEMMA AttachReturnStep == ASSUME IInv, AttachReturn PROVE IInv'
<1>1. TypeOK'
    BY DEF IInv, TypeOK, AttachReturn
<1>2. Balanced'
    <2>1. \A a \in Module, b \in Pid : Saved(a, b)' = 0 /\ Saved(a, b) = 0
        BY DEF AttachReturn, Saved, Nothing, NoTask
    <2>2. QED BY <2>1, DemandSame
              DEF IInv, Balanced, BalancedAt, Pending, AttachReturn
<1>3. Acyclic'
    BY AcyclicSame DEF IInv, AttachReturn
<1>4. TreeLinked' /\ NoDoubleLeave' /\ CallAbove' /\ TaskFits'
    BY DEF IInv, TreeLinked, NoDoubleLeave, CallAbove, TaskFits, AttachReturn, NoCall
<1>5. QED BY <1>1, <1>2, <1>3, <1>4 DEF IInv

(* The module is linked to its new parent. *)
LEMMA LinkStep == ASSUME IInv, Link PROVE IInv'
<1> DEFINE c == task.mod
           m == task.to
<1>1. /\ task # NoTask /\ c \in Module /\ m \in Module \cup {NoModule}
      /\ task.op = "attach" /\ call = NoCall
    BY TaskForm DEF Link, IInv, NoTask
<1>2. /\ parent' = [parent EXCEPT ![c] = m]
      /\ children' = [n \in Module |-> IF n = m THEN children[n] \cup {c}
                                       ELSE children[n] \ {c}]
      /\ task' = [op |-> "rejoin", mod |-> c, to |-> m]
      /\ UNCHANGED <<alive, pid_list, own, call, saved>>
      /\ NothingJoined(c)
    BY DEF Link
<1>3. task' \in Tasks /\ task' # NoTask
    BY <1>1, <1>2 DEF Tasks, NoTask
<1>4. TypeOK'
    BY <1>1, <1>2, <1>3 DEF IInv, TypeOK
<1>5. TreeLinked'
    BY <1>1, <1>2, StreamAssumption DEF IInv, TypeOK, TreeLinked, TaskFits
<1>6. Balanced'
    <2> SUFFICES ASSUME NEW a \in Module, NEW b \in Pid
                 PROVE  BalancedAt(a, b)'
        BY DEF Balanced
    <2>1. ~(pid_list[c][b] > 0)
        BY <1>2 DEF NothingJoined
    <2>2. Wanting(a, b)' = Wanting(a, b)
        BY <1>1, <1>2, <2>1, WantingSame DEF IInv, TypeOK
    <2>3. Demand(a, b)' = Demand(a, b)
        BY <1>2, <2>2 DEF Demand
    <2>4. QED BY <1>1, <1>2, <1>3, <2>3
              DEF IInv, Balanced, BalancedAt, Saved, Pending
<1>7. Acyclic'
    BY <1>1, <1>2, LinkAcyclic DEF IInv, TaskFits
<1>8. NoDoubleLeave' /\ CallAbove' /\ TaskFits'
    BY <1>1, <1>2, <1>3 DEF IInv, NoDoubleLeave, CallAbove, TaskFits, NoCall
<1>9. QED BY <1>4, <1>5, <1>6, <1>7, <1>8 DEF IInv

(* The module is unlinked and its children are orphans. *)
LEMMA FreeStreamStep == ASSUME IInv, FreeStream PROVE IInv'
<1> DEFINE m == task.mod
<1>1. /\ task # NoTask /\ m \in Module /\ call = NoCall /\ NothingJoined(m)
    BY TaskForm DEF FreeStream, IInv, NoTask
<1>2. /\ alive' = [alive EXCEPT ![m] = FALSE]
      /\ own' = [own EXCEPT ![m] = Nothing]
      /\ parent' = [c \in Module |-> IF c = m \/ c \in children[m]
                                     THEN NoModule ELSE parent[c]]
      /\ children' = [n \in Module |-> IF n = m THEN {} ELSE children[n] \ {m}]
      /\ task' = NoTask
      /\ saved' = Nothing
      /\ UNCHANGED <<pid_list, call>>
    BY DEF FreeStream
<1>3. TypeOK'
    BY <1>1, <1>2, StreamAssumption DEF IInv, TypeOK, Nothing
<1>4. children[m] = {c \in Module : parent[c] = m}
    BY <1>1 DEF IInv, TreeLinked
<1>5. TreeLinked'
    BY <1>1, <1>2, <1>4, StreamAssumption DEF IInv, TypeOK, TreeLinked
<1>6. Balanced'
    <2> SUFFICES ASSUME NEW a \in Module, NEW b \in Pid
                 PROVE  BalancedAt(a, b)'
        BY DEF Balanced
    <2>1. /\ Pending("join", a, b)' = 0 /\ Pending("leave", a, b)' = 0
          /\ Pending("join", a, b) = 0 /\ Pending("leave", a, b) = 0
          /\ Saved(a, b)' = 0
        BY <1>1, <1>2 DEF Pending, Saved, NoCall
    <2>2. CASE a = m
        <3>1. Wanting(a, b)' = {}
            BY <1>1, <1>2, <1>4, <2>2, StreamAssumption DEF Wanting
        <3>2. Cardinality(Wanting(a, b)') = 0
            BY <3>1, FS_EmptySet
        <3>3. own'[a][b] = 0
            BY <1>1, <1>2, <2>2 DEF Nothing, IInv, TypeOK
        <3>4. pid_list'[a][b] = 0
            BY <1>1, <1>2, <2>2 DEF NothingJoined, IInv, TypeOK
        <3>5. QED BY <2>1, <3>2, <3>3, <3>4 DEF BalancedAt, Demand
    <2>3. CASE a # m
        <3>1. ~(pid_list[m][b] > 0)
            BY <1>1 DEF NothingJoined
        <3>2. Wanting(a, b)' = Wanting(a, b)
            BY <1>1, <1>2, <1>4, <2>3, <3>1, StreamAssumption, WantingSame
               DEF IInv, TypeOK
        <3>3. Demand(a, b)' = Demand(a, b)
            BY <1>2, <2>3, <3>2 DEF Demand, IInv, TypeOK
        <3>4. Saved(a, b) = 0
            BY <2>3 DEF Saved
        <3>5. BalancedAt(a, b)
            BY DEF IInv, Balanced
        <3>6. QED BY <1>2, <2>1, <3>3, <3>4, <3>5 DEF BalancedAt
    <2>4. QED BY <2>2, <2>3
<1>7. Acyclic'
    <2> SUFFICES ASSUME NEW x \in Module, parent'[x] # NoModule
                 PROVE  \E S \in SUBSET Module :
                            /\ parent'[x] \in S /\ x \notin S
                            /\ \A y \in S : parent'[y] \in S \cup {NoModule}
        BY DEF Acyclic, NotAbove
    <2>1. parent'[x] = parent[x]
        BY <1>2
    <2>2. PICK S \in SUBSET Module :
              /\ parent[x] \in S /\ x \notin S
              /\ \A y \in S : parent[y] \in S \cup {NoModule}
        BY <2>1 DEF IInv, Acyclic, NotAbove
    <2>3. \A y \in S : parent'[y] \in S \cup {NoModule}
        BY <1>2, <2>2
    <2>4. QED BY <2>1, <2>2, <2>3
<1>8. NoDoubleLeave' /\ CallAbove' /\ TaskFits'
    BY <1>1, <1>2 DEF NoDoubleLeave, CallAbove, TaskFits, NoCall
<1>9. QED BY <1>3, <1>5, <1>6, <1>7, <1>8 DEF IInv

-----------------------------------------------------------------------------
(* Every step keeps the invariant. *)
LEMMA NextIInv == IInv /\ [Next]_vars => IInv'
<1> SUFFICES ASSUME IInv, [Next]_vars PROVE IInv'
    OBVIOUS
<1>1. ASSUME Request PROVE IInv'
    <2>1. PICK m \in Module :
              \/ StreamInit(m) \/ Destroy(m)
              \/ \E p \in Pid : Join(m, p) \/ Leave(m, p)
              \/ \E n \in Module \cup {NoModule} : Attach(m, n)
        BY <1>1 DEF Request
    <2>2. QED BY <2>1, StreamInitStep, DestroyStep, JoinStep, LeaveStep, AttachStep
<1>2. CASE DemuxJoin BY <1>2, DemuxJoinStep
<1>3. CASE DemuxLeave BY <1>3, DemuxLeaveStep
<1>4. CASE TaskLeave BY <1>4, TaskLeaveStep
<1>5. CASE Link BY <1>5, LinkStep
<1>6. CASE TaskJoin BY <1>6, TaskJoinStep
<1>7. CASE AttachReturn BY <1>7, AttachReturnStep
<1>8. CASE FreeStream BY <1>8, FreeStreamStep
<1>9. CASE UNCHANGED vars
    <2>1. TypeOK' /\ TreeLinked' /\ NoDoubleLeave'
        BY <1>9 DEF IInv, TypeOK, TreeLinked, NoDoubleLeave, vars
    <2>2. Balanced'
        BY <1>9, DemandSame
           DEF IInv, Balanced, BalancedAt, Saved, Pending, vars
    <2>3. Acyclic'
        BY <1>9, AcyclicSame DEF IInv, vars
    <2>4. CallAbove' /\ TaskFits'
        BY <1>9 DEF IInv, CallAbove, TaskFits, NotAbove, vars
    <2>5. QED BY <2>1, <2>2, <2>3, <2>4 DEF IInv
<1>10. QED BY <1>1, <1>2, <1>3, <1>4, <1>5, <1>6, <1>7, <1>8, <1>9 DEF Next

(* The invariant of the tree of modules holds in every reachable state. *)
LEMMA Invariance == Spec => []IInv
BY InitIInv, NextIInv, PTL DEF Spec

(* Counters, links and pending work keep their types: no counter and no    *)
(* saved_list entry of a uint8_t ever needs a value that it cannot hold.   *)
THEOREM TypeCorrect == Spec => []TypeOK
<1>1. IInv => TypeOK
    BY DEF IInv
<1>2. QED BY <1>1, Invariance, PTL

(* At every step of every join, leave, attach and destroy, each counter    *)
(* equals the requests it stands for.                                      *)
THEOREM CountersBalanced == Spec => []Balanced
<1>1. IInv => Balanced
    BY DEF IInv
<1>2. QED BY <1>1, Invariance, PTL

(* The "double leave" branch of module_demux_leave is never taken. *)
THEOREM LeavesAreMatched == Spec => []NoDoubleLeave
<1>1. IInv => NoDoubleLeave
    BY DEF IInv
<1>2. QED BY <1>1, Invariance, PTL

(* Parent and child links agree and never name a module that was freed. *)
THEOREM LinksAreLive == Spec => []TreeLinked
<1>1. IInv => TreeLinked
    BY DEF IInv
<1>2. QED BY <1>1, Invariance, PTL

-----------------------------------------------------------------------------
(* What is below a module                                                  *)

(* a set of numbers has a least one *)
LEMMA HasLeast ==
    ASSUME NEW S \in SUBSET Nat, S # {}
    PROVE  \E x \in S : \A y \in S : x <= y
<1> DEFINE less == OpToRel(<, Nat)
<1>1. IsWellFoundedOn(less, Nat)
    BY NatLessThanWellFounded
<1>2. \A x, y \in Nat : y < x => <<y, x>> \in less
    BY Zenon DEF OpToRel
<1> HIDE DEF less
<1>3. PICK x \in S : \A y \in S : ~(<<y, x>> \in less)
    BY <1>1, WFMin, Zenon
<1>4. S \subseteq Nat /\ \A y \in S : ~(y < x)
    BY <1>2, <1>3, Zenon
<1>5. QED BY <1>4

(* the children of forwarding modules in S *)
Under(S) == {c \in Module : parent[c] \in S \ Opaque}

(* g[i] is the set of modules i levels below m, for i up to n *)
Levels(g, m, n) ==
    g = [i \in 0..n |-> IF i = 0 THEN {m} ELSE Under(g[i - 1])]

(* its values, one by one *)
LEMMA LevelsValues ==
    ASSUME NEW g, NEW m, NEW n \in Nat, Levels(g, m, n)
    PROVE  g[0] = {m} /\ \A i \in 1..n : g[i] = Under(g[i - 1])
<1>1. \A i \in 0..n : g[i] = IF i = 0 THEN {m} ELSE Under(g[i - 1])
    BY Zenon DEF Levels
<1>2. QED BY <1>1

(* there is such a function *)
LEMMA LevelsExists ==
    ASSUME NEW m
    PROVE  \A n \in Nat : \E g : Levels(g, m, n)
<1> DEFINE bad == {n \in Nat : ~ \E g : Levels(g, m, n)}
<1>1. SUFFICES ASSUME bad # {} PROVE FALSE
    OBVIOUS
<1>2. PICK n \in bad : \A k \in bad : n <= k
    BY <1>1, HasLeast
<1>3. CASE n = 0
    <2>1. Levels([i \in 0..0 |-> {m}], m, 0)
        BY DEF Levels
    <2>2. QED BY <1>2, <1>3, <2>1
<1>4. CASE n # 0
    <2>1. n - 1 \in Nat /\ n - 1 \notin bad
        BY <1>2, <1>4
    <2>2. PICK g : Levels(g, m, n - 1)
        BY <2>1
    <2> DEFINE h == [i \in 0..n |-> IF i = n THEN Under(g[n - 1]) ELSE g[i]]
    <2>3. g[0] = {m} /\ \A i \in 1..(n - 1) : g[i] = Under(g[i - 1])
        BY <2>1, <2>2, LevelsValues
    <2>4. h[0] = {m} /\ \A i \in 1..n : h[i] = Under(h[i - 1])
        BY <1>2, <1>4, <2>1, <2>3
    <2>5. Levels(h, m, n)
        <3> HIDE DEF h
        <3>1. h = [i \in 0..n |-> h[i]]
            BY DEF h
        <3>2. \A i \in 0..n : h[i] = IF i = 0 THEN {m} ELSE Under(h[i - 1])
            BY <1>2, <1>4, <2>4
        <3>3. QED BY <3>1, <3>2 DEF Levels
    <2>6. QED BY <1>2, <2>5
<1>5. QED BY <1>3, <1>4

(* x and all that is above it: the least set that holds x and the parents  *)
(* of what it holds                                                        *)
Closed(S) == \A y \in S : parent[y] \in S \cup {NoModule}

Above(x) == {y \in Module : \A S \in SUBSET Module : x \in S /\ Closed(S) => y \in S}

(* A module has more above it, itself included, than its parent.           *)
LEMMA AboveGrows ==
    ASSUME TypeOK, Acyclic, NEW x \in Module, parent[x] \in Module
    PROVE  Cardinality(Above(parent[x])) + 1 <= Cardinality(Above(x))
<1> DEFINE y == parent[x]
<1>1. x \in Above(x)
    BY DEF Above
<1>2. Above(y) \subseteq Above(x)
    <2>1. \A S \in SUBSET Module : x \in S /\ Closed(S) => y \in S
        BY StreamAssumption DEF Closed
    <2>2. QED BY <2>1 DEF Above
<1>3. x \notin Above(y)
    <2>1. PICK S \in SUBSET Module : y \in S /\ x \notin S /\ Closed(S)
        BY StreamAssumption DEF Acyclic, NotAbove, Closed
    <2>2. QED BY <2>1 DEF Above
<1>4. IsFiniteSet(Above(x)) /\ IsFiniteSet(Above(y))
    <2>1. Above(x) \subseteq Module /\ Above(y) \subseteq Module
        BY DEF Above
    <2>2. QED BY <2>1, StreamAssumption, FS_Subset
<1>5. /\ Cardinality(Above(y) \cup {x}) = Cardinality(Above(y)) + 1
      /\ IsFiniteSet(Above(y) \cup {x})
    BY <1>3, <1>4, FS_AddElement
<1>6. Above(y) \cup {x} \subseteq Above(x)
    BY <1>1, <1>2
<1>7. Cardinality(Above(y) \cup {x}) <= Cardinality(Above(x))
    BY <1>4, <1>6, FS_Subset
<1>8. QED BY <1>5, <1>7

(* The tree has fewer levels below a module than there are modules.        *)
LEMMA LevelsEnd ==
    ASSUME TypeOK, Acyclic, NEW m \in Module, NEW g,
           Levels(g, m, Cardinality(Module))
    PROVE  \A i \in 0..Cardinality(Module) :
               \A x \in g[i] : x \in Module /\ i < Cardinality(Module)
<1> DEFINE N == Cardinality(Module)
           deep(i) == \A x \in g[i] : x \in Module /\ i + 1 <= Cardinality(Above(x))
           bad == {i \in 0..N : ~deep(i)}
<1>1. N \in Nat
    BY StreamAssumption, FS_CardinalityType
<1> HIDE DEF N
<1>2. /\ g[0] = {m}
      /\ \A i \in 1..N : g[i] = Under(g[i - 1])
    BY <1>1, LevelsValues DEF N
<1>3. \A x \in Module : IsFiniteSet(Above(x)) /\ Cardinality(Above(x)) \in Nat
                        /\ Cardinality(Above(x)) <= N
    <2>1. \A x \in Module : Above(x) \subseteq Module
        BY DEF Above
    <2>2. QED BY <2>1, StreamAssumption, FS_Subset, FS_CardinalityType DEF N
<1>4. deep(0)
    <2>1. m \in Above(m)
        BY DEF Above
    <2>2. Cardinality(Above(m)) # 0
        BY <1>3, <2>1, FS_EmptySet
    <2>3. QED BY <1>2, <1>3, <2>2
<1>5. ASSUME NEW i \in 1..N, deep(i - 1) PROVE deep(i)
    <2>1. SUFFICES ASSUME NEW x \in g[i]
                   PROVE  x \in Module /\ i + 1 <= Cardinality(Above(x))
        OBVIOUS
    <2>2. x \in Module /\ parent[x] \in g[i - 1]
        BY <1>2 DEF Under
    <2>3. parent[x] \in Module /\ i - 1 + 1 <= Cardinality(Above(parent[x]))
        BY <1>5, <2>2
    <2>4. Cardinality(Above(parent[x])) + 1 <= Cardinality(Above(x))
        BY <2>2, <2>3, AboveGrows
    <2>5. QED BY <1>3, <2>2, <2>3, <2>4
<1> HIDE DEF deep
<1>6. bad = {}
    <2>1. SUFFICES ASSUME bad # {} PROVE FALSE
        OBVIOUS
    <2>2. bad \in SUBSET Nat
        BY <1>1
    <2>3. PICK i \in bad : \A k \in bad : i <= k
        <3> HIDE DEF bad
        <3>1. QED BY <2>1, <2>2, HasLeast
    <2>4. i # 0
        BY <1>4, <2>3
    <2>5. i \in 1..N /\ deep(i - 1)
        BY <1>1, <2>3, <2>4
    <2>6. QED BY <1>5, <2>3, <2>5
<1>7. \A i \in 0..N : deep(i)
    BY <1>6
<1>8. \A i \in 0..N : \A x \in g[i] : x \in Module /\ i < N
    BY <1>1, <1>3, <1>7 DEF deep
<1>9. QED BY <1>8 DEF N

(* At rest a module counts what it asked for itself and, unless it is      *)
(* opaque, the children that want the pid.                                 *)
LEMMA CountsAtRest ==
    ASSUME TypeOK, Balanced, Idle, NEW m \in Module, NEW p \in Pid
    PROVE  /\ own[m][p] \in Nat /\ pid_list[m][p] \in Nat
           /\ pid_list[m][p] = Demand(m, p)
<1>1. own[m][p] \in Nat /\ pid_list[m][p] \in Nat
    BY StreamAssumption DEF TypeOK
<1>2. Saved(m, p) = 0 /\ Pending("join", m, p) = 0 /\ Pending("leave", m, p) = 0
    BY DEF Idle, Saved, Pending, NoCall
<1>3. Demand(m, p) \in Nat
    BY DemandBound
<1>4. QED BY <1>1, <1>2, <1>3 DEF Balanced, BalancedAt

(* Who asks for a pid is heard all the way up; and who is asked, is asked  *)
(* by somebody at the end of the chain.                                    *)
LEMMA DemandIsFollowed == IInv => PidsFollowDemand
<1> SUFFICES ASSUME IInv, Idle, NEW m \in Module, NEW p \in Pid
             PROVE  pid_list[m][p] > 0 <=> \E d \in Below(m) : own[d][p] > 0
    BY DEF PidsFollowDemand
<1> USE DEF IInv
<1> DEFINE N == Cardinality(Module)
           g == CHOOSE f : Levels(f, m, N)
<1>1. N \in Nat
    BY StreamAssumption, FS_CardinalityType
<1>2. Levels(g, m, N)
    <2> HIDE DEF N
    <2>1. QED BY <1>1, LevelsExists
<1>3. Below(m) = UNION {g[i] : i \in 0..N}
    BY Zenon DEF Below, Levels, Under
<1>4. \A i \in 0..N : \A x \in g[i] : x \in Module /\ i < N
    <2> HIDE DEF g
    <2>1. QED BY <1>2, LevelsEnd
<1> HIDE DEF g, N
<1>5. /\ g[0] = {m}
      /\ \A i \in 1..N : g[i] = Under(g[i - 1])
    BY <1>1, <1>2, LevelsValues
<1>6. ASSUME NEW d \in Below(m), own[d][p] > 0
      PROVE  pid_list[m][p] > 0
    <2> DEFINE heard == {i \in 0..N : \E c \in g[i] : pid_list[c][p] > 0}
    <2>1. heard # {}
        <3>1. PICK i \in 0..N : d \in g[i]
            BY <1>3
        <3>2. d \in Module
            BY <1>4, <3>1
        <3>3. pid_list[d][p] > 0
            BY <1>6, <3>2, CountsAtRest, WantingFinite DEF Demand
        <3>4. QED BY <3>1, <3>3
    <2>2. heard \in SUBSET Nat
        BY <1>1
    <2>3. PICK i \in heard : \A k \in heard : i <= k
        <3> HIDE DEF heard
        <3>1. QED BY <2>1, <2>2, HasLeast
    <2>4. PICK c \in g[i] : pid_list[c][p] > 0
        BY <2>3
    <2>5. i = 0
        <3>1. SUFFICES ASSUME i # 0 PROVE FALSE
            OBVIOUS
        <3>2. i \in 1..N /\ i - 1 \in 0..N
            BY <1>1, <2>3, <3>1
        <3>3. /\ c \in Module /\ parent[c] \in g[i - 1] /\ parent[c] \notin Opaque
            BY <1>5, <2>4, <3>2 DEF Under
        <3>4. parent[c] \in Module
            BY <1>4, <3>2, <3>3
        <3>5. Demand(parent[c], p) >= 1
            BY <2>4, <3>3, <3>4, ChildCounts
        <3>6. pid_list[parent[c]][p] > 0
            BY <3>4, <3>5, CountsAtRest
        <3>7. i - 1 \in heard
            BY <3>2, <3>3, <3>6
        <3>8. QED BY <2>2, <2>3, <3>7
    <2>6. QED BY <1>5, <2>4, <2>5
<1>7. ASSUME pid_list[m][p] > 0, \A d \in Below(m) : ~(own[d][p] > 0)
      PROVE  FALSE
    <2> DEFINE left == {j \in 0..N : \E c \in g[N - j] : pid_list[c][p] > 0}
    <2>1. left # {}
        <3>1. N - N = 0 /\ N \in 0..N
            BY <1>1
        <3>2. N \in left
            BY <1>5, <1>7, <3>1
        <3>3. QED BY <3>2
    <2>2. left \in SUBSET Nat
        BY <1>1
    <2>3. PICK j \in left : \A k \in left : j <= k
        <3> HIDE DEF left
        <3>1. QED BY <2>1, <2>2, HasLeast
    <2> DEFINE i == N - j
    <2>4. j \in 0..N /\ i \in 0..N
        BY <1>1, <2>3
    <2>5. PICK c \in g[i] : pid_list[c][p] > 0
        BY <2>3
    <2>6. c \in Module /\ i < N
        BY <1>4, <2>4, <2>5
    <2>7. own[c][p] = 0
        <3>1. c \in Below(m)
            BY <1>3, <2>4, <2>5
        <3>2. QED BY <1>7, <2>6, <3>1, CountsAtRest
    <2>8. c \notin Opaque /\ Cardinality(Wanting(c, p)) > 0
        BY <2>5, <2>6, <2>7, CountsAtRest, WantingFinite DEF Demand
    <2>9. PICK e \in Wanting(c, p) : TRUE
        BY <2>8, FS_EmptySet
    <2>10. e \in Module /\ parent[e] = c /\ pid_list[e][p] > 0
        BY <2>9 DEF Wanting
    <2>11. i + 1 \in 1..N /\ (i + 1) - 1 = i
        BY <1>1, <2>4, <2>6
    <2>12. e \in g[i + 1]
        BY <1>5, <2>5, <2>8, <2>10, <2>11 DEF Under
    <2>13. j - 1 \in 0..N /\ N - (j - 1) = i + 1
        BY <1>1, <2>4, <2>6
    <2>14. j - 1 \in left
        BY <2>10, <2>12, <2>13
    <2>15. QED BY <2>3, <2>4, <2>14
<1>8. QED BY <1>6, <1>7

(* At rest, a module receives a pid from above exactly if somebody below   *)
(* it asks for it, through any number of moves and destructions and over   *)
(* any depth of the tree (stream.c: module_demux_join,                     *)
(* module_demux_leave).                                                    *)
THEOREM DemandReachesTop == Spec => []PidsFollowDemand
BY Invariance, DemandIsFollowed, PTL
=============================================================================
