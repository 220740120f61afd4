------------------------------ MODULE StreamTree ------------------------------
(***************************************************************************)
(* The tree of streaming modules and the membership of transport stream    *)
(* pids (luaapi/stream.c).  A module counts, per pid, how often it was     *)
(* asked for the pid: by itself and once by each child that wants it; the  *)
(* first request is forwarded to the parent, and so is the last release.   *)
(*                                                                         *)
(* module_demux_join and module_demux_leave call the parent's callback as  *)
(* the last thing they do, so one pending call stands for the C stack; a   *)
(* step is one invocation.  module_stream_attach and module_stream_destroy *)
(* are loops of such calls, kept in `task'.  Everything runs on the main   *)
(* thread: other requests wait until both have returned.                   *)
(***************************************************************************)
EXTENDS Naturals, FiniteSets

CONSTANTS
    Module,
    NoModule,
    Pid,
    Opaque,       \* modules with callbacks of their own, or with none: what
                  \* their children ask for is not added to their counters
    Source,       \* modules without on_ts, which have no parent
    CountSize,    \* values of a counter: 256 in the code
    MaxOwn        \* requests a module makes for itself for one pid

(* Nothing in the code keeps a counter from wrapping around; the modules   *)
(* do not come near its limit.                                             *)
ASSUME StreamAssumption ==
    /\ IsFiniteSet(Module)
    /\ NoModule \notin Module
    /\ Opaque \subseteq Module
    /\ Source \subseteq Module
    /\ MaxOwn \in Nat
    /\ CountSize \in Nat
    /\ MaxOwn + Cardinality(Module) < CountSize

VARIABLES
    alive,     \* alive[m]: mod->stream is allocated
    parent,    \* st->parent
    children,  \* st->children, as a set
    pid_list,  \* pid_list[m][p]: the counter
    own,       \* history: the requests m made for itself and not yet
               \* withdrawn
    call,      \* the pending module_demux_join or module_demux_leave
    task,      \* the pending module_stream_attach or module_stream_destroy
    saved      \* its saved_list

vars == <<alive, parent, children, pid_list, own, call, task, saved>>

NoCall == [op |-> "none"]
NoTask == [op |-> "none"]

Calls == [op : {"join", "leave"}, mod : Module, pid : Pid]

(* An attach becomes a "rejoin" when it has switched parents.              *)
(* module_stream_destroy keeps no saved_list; there `saved' only records   *)
(* what has been released.                                                 *)
Tasks == [op : {"attach", "rejoin", "destroy"}, mod : Module,
          to : Module \cup {NoModule}]

Nothing == [p \in Pid |-> 0]

Idle == call = NoCall /\ task = NoTask

TypeOK ==
    /\ alive \in [Module -> BOOLEAN]
    /\ parent \in [Module -> Module \cup {NoModule}]
    /\ children \in [Module -> SUBSET Module]
    /\ pid_list \in [Module -> [Pid -> 0..(CountSize - 1)]]
    /\ own \in [Module -> [Pid -> 0..MaxOwn]]
    /\ call \in Calls \cup {NoCall}
    /\ task \in Tasks \cup {NoTask}
    /\ saved \in [Pid -> 0..(CountSize - 1)]

Init ==
    /\ alive = [m \in Module |-> FALSE]
    /\ parent = [m \in Module |-> NoModule]
    /\ children = [m \in Module |-> {}]
    /\ pid_list = [m \in Module |-> [p \in Pid |-> 0]]
    /\ own = [m \in Module |-> [p \in Pid |-> 0]]
    /\ call = NoCall
    /\ task = NoTask
    /\ saved = Nothing

-----------------------------------------------------------------------------
(* Plausible bugs *)

(* every leave is forwarded, not only the last one *)
DemuxLeaveForwardAll ==
    /\ call.op = "leave"
    /\ LET m == call.mod   p == call.pid   up == parent[m]
       IN  /\ pid_list[m][p] > 0
           /\ pid_list' = [pid_list EXCEPT ![m][p] = @ - 1]
           /\ call' = IF up \in Module \ Opaque
                      THEN [op |-> "leave", mod |-> up, pid |-> p] ELSE NoCall
    /\ UNCHANGED <<alive, parent, children, own, task, saved>>

(* a request for a pid that is already joined is not counted *)
DemuxJoinOnce ==
    /\ call.op = "join"
    /\ LET m == call.mod   p == call.pid   up == parent[m]
       IN  /\ pid_list' = [pid_list EXCEPT ![m][p] = 1]
           /\ call' = IF pid_list[m][p] = 0 /\ up \in Module \ Opaque
                      THEN [op |-> "join", mod |-> up, pid |-> p] ELSE NoCall
    /\ UNCHANGED <<alive, parent, children, own, task, saved>>

(* module_stream_attach switches parents with the pids still joined *)
AttachKeepPids(c, m) ==
    /\ Idle
    /\ alive[c] /\ m # c /\ (m # NoModule => alive[m] /\ c \notin Source)
    /\ parent' = [parent EXCEPT ![c] = m]
    /\ children' = [n \in Module |-> IF n = m THEN children[n] \cup {c}
                                     ELSE children[n] \ {c}]
    /\ UNCHANGED <<alive, pid_list, own, call, task, saved>>

(* `while (saved_list[i]-- >= 0)' *)
TaskJoinTooOften ==
    /\ task.op = "rejoin" /\ call = NoCall
    /\ \E p \in Pid :
         /\ saved' = [saved EXCEPT ![p] = @ - 1]
         /\ call' = [op |-> "join", mod |-> task.mod, pid |-> p]
    /\ UNCHANGED <<alive, parent, children, pid_list, own, task>>

-----------------------------------------------------------------------------
(* Requests *)

(* module_stream_init *)
StreamInit(m) ==
    /\ Idle
    /\ ~alive[m]
    /\ alive' = [alive EXCEPT ![m] = TRUE]
    /\ UNCHANGED <<parent, children, pid_list, own, call, task, saved>>

(* a module asks for a pid for itself *)
Join(m, p) ==
    /\ Idle
    /\ alive[m]
    /\ own[m][p] < MaxOwn
    /\ own' = [own EXCEPT ![m][p] = @ + 1]
    /\ call' = [op |-> "join", mod |-> m, pid |-> p]
    /\ UNCHANGED <<alive, parent, children, pid_list, task, saved>>

(* a module withdraws a request it made *)
Leave(m, p) ==
    /\ Idle
    /\ alive[m]
    /\ own[m][p] > 0
    /\ own' = [own EXCEPT ![m][p] = @ - 1]
    /\ call' = [op |-> "leave", mod |-> m, pid |-> p]
    /\ UNCHANGED <<alive, parent, children, pid_list, task, saved>>

(* c is not m and not above m: some set of modules holds m and all that    *)
(* is above m, but not c.  The code does not look; the scripts never hang  *)
(* a module below itself.                                                  *)
NotAbove(c, m) ==
    m # NoModule =>
        \E S \in SUBSET Module :
            /\ m \in S /\ c \notin S
            /\ \A x \in S : parent[x] \in S \cup {NoModule}

(* module_stream_attach begins; m is NoModule to detach *)
Attach(c, m) ==
    /\ Idle
    /\ alive[c]
    /\ m # NoModule => alive[m] /\ c \notin Source
    /\ NotAbove(c, m)
    /\ task' = [op |-> "attach", mod |-> c, to |-> m]
    /\ saved' = Nothing
    /\ UNCHANGED <<alive, parent, children, pid_list, own, call>>

(* module_stream_destroy begins *)
Destroy(m) ==
    /\ Idle
    /\ alive[m]
    /\ task' = [op |-> "destroy", mod |-> m, to |-> NoModule]
    /\ saved' = Nothing
    /\ UNCHANGED <<alive, parent, children, pid_list, own, call>>

-----------------------------------------------------------------------------
(* One invocation of module_demux_join or module_demux_leave *)

(* the callback of m's parent, if it has one *)
Forward(op, m, p) ==
    IF parent[m] \in Module \ Opaque
    THEN [op |-> op, mod |-> parent[m], pid |-> p]
    ELSE NoCall

DemuxJoin ==
    /\ call.op = "join"
    /\ LET m == call.mod   p == call.pid
           n == (pid_list[m][p] + 1) % CountSize
       IN  /\ pid_list' = [pid_list EXCEPT ![m][p] = n]
           /\ call' = IF n = 1 THEN Forward("join", m, p) ELSE NoCall
    /\ UNCHANGED <<alive, parent, children, own, task, saved>>

DemuxLeave ==
    /\ call.op = "leave"
    /\ LET m == call.mod   p == call.pid
       IN  IF pid_list[m][p] > 0
           THEN /\ pid_list' = [pid_list EXCEPT ![m][p] = @ - 1]
                /\ call' = IF pid_list[m][p] = 1 THEN Forward("leave", m, p)
                                                 ELSE NoCall
           ELSE UNCHANGED pid_list /\ call' = NoCall    \* "double leave"
    /\ UNCHANGED <<alive, parent, children, own, task, saved>>

-----------------------------------------------------------------------------
(* The loops of module_stream_attach and module_stream_destroy *)

(* leave the pids one by one, in whatever order, and remember how often *)
TaskLeave ==
    /\ task.op \in {"attach", "destroy"} /\ call = NoCall
    /\ \E p \in Pid :
         /\ pid_list[task.mod][p] > 0
         /\ saved' = [saved EXCEPT ![p] = @ + 1]
         /\ call' = [op |-> "leave", mod |-> task.mod, pid |-> p]
    /\ UNCHANGED <<alive, parent, children, pid_list, own, task>>

NothingJoined(m) == \A p \in Pid : pid_list[m][p] = 0

(* switch parents *)
Link ==
    /\ task.op = "attach" /\ call = NoCall
    /\ NothingJoined(task.mod)
    /\ LET c == task.mod   m == task.to
       IN  /\ parent' = [parent EXCEPT ![c] = m]
           /\ children' = [n \in Module |-> IF n = m THEN children[n] \cup {c}
                                            ELSE children[n] \ {c}]
           /\ task' = [op |-> "rejoin", mod |-> c, to |-> m]
    /\ UNCHANGED <<alive, pid_list, own, call, saved>>

(* request them from the new parent *)
TaskJoin ==
    /\ task.op = "rejoin" /\ call = NoCall
    /\ \E p \in Pid :
         /\ saved[p] > 0
         /\ saved' = [saved EXCEPT ![p] = @ - 1]
         /\ call' = [op |-> "join", mod |-> task.mod, pid |-> p]
    /\ UNCHANGED <<alive, parent, children, pid_list, own, task>>

AttachReturn ==
    /\ task.op = "rejoin" /\ call = NoCall
    /\ saved = Nothing
    /\ task' = NoTask
    /\ UNCHANGED <<alive, parent, children, pid_list, own, call, saved>>

(* The module leaves its parent, its children lose theirs but keep their   *)
(* counters, and it is freed.                                              *)
FreeStream ==
    /\ task.op = "destroy" /\ call = NoCall
    /\ NothingJoined(task.mod)
    /\ LET m == task.mod
       IN  /\ alive' = [alive EXCEPT ![m] = FALSE]
           /\ own' = [own EXCEPT ![m] = Nothing]
           /\ parent' = [c \in Module |-> IF c = m \/ c \in children[m]
                                          THEN NoModule ELSE parent[c]]
           /\ children' = [n \in Module |-> IF n = m THEN {} ELSE children[n] \ {m}]
    /\ task' = NoTask
    /\ saved' = Nothing
    /\ UNCHANGED <<pid_list, call>>

Request ==
    \E m \in Module :
        \/ StreamInit(m) \/ Destroy(m)
        \/ \E p \in Pid : Join(m, p) \/ Leave(m, p)
        \/ \E n \in Module \cup {NoModule} : Attach(m, n)

Next ==
    \/ Request
    \/ DemuxJoin \/ DemuxLeave
    \/ TaskLeave \/ Link \/ TaskJoin \/ AttachReturn \/ FreeStream

Spec == Init /\ [][Next]_vars

-----------------------------------------------------------------------------
(* Properties *)

(* the children of m that want p *)
Wanting(m, p) == {c \in Module : parent[c] = m /\ pid_list[c][p] > 0}

Demand(m, p) ==
    own[m][p] + (IF m \in Opaque THEN 0 ELSE Cardinality(Wanting(m, p)))

Pending(op, m, p) ==
    IF call.op = op /\ call.mod = m /\ call.pid = p THEN 1 ELSE 0

Saved(m, p) == IF task # NoTask /\ task.mod = m THEN saved[p] ELSE 0

BalancedAt(m, p) ==
    pid_list[m][p] + Saved(m, p) + Pending("join", m, p)
        = Demand(m, p) + Pending("leave", m, p)

(* Every counter is exactly the number of requests it stands for, at every *)
(* step of a join, a leave, a switch of parents or a destruction: what it  *)
(* is off is what a call is about to add or take, or what an attach has    *)
(* set aside.                                                              *)
Balanced == \A m \in Module, p \in Pid : BalancedAt(m, p)

(* No counter is asked to go below zero, though leaves come from modules,  *)
(* from children and from modules that are being moved or destroyed: the   *)
(* "double leave" error is never logged.                                   *)
NoDoubleLeave ==
    call.op = "leave" => pid_list[call.mod][call.pid] > 0

(* No module keeps a pointer to a parent or a child that was freed: the    *)
(* two kinds of links always agree, and only live modules are linked.      *)
TreeLinked ==
    /\ \A m \in Module : children[m] = {c \in Module : parent[c] = m}
    /\ \A c \in Module : parent[c] # NoModule => alive[c] /\ alive[parent[c]]

(* d is m, or is below m with nothing but forwarding modules in between *)
Below(m) ==
    LET level[i \in 0..Cardinality(Module)] ==
            IF i = 0 THEN {m}
            ELSE {c \in Module : parent[c] \in level[i - 1] \ Opaque}
    IN  UNION {level[i] : i \in 0..Cardinality(Module)}

(* What the counters are for: at rest, a module receives a pid from above  *)
(* exactly if some module below it, itself included, still asks for it.    *)
PidsFollowDemand ==
    Idle => \A m \in Module, p \in Pid :
        pid_list[m][p] > 0 <=> \E d \in Below(m) : own[d][p] > 0
=============================================================================
