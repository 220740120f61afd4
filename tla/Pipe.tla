--------------------------------- MODULE Pipe ---------------------------------
(***************************************************************************)
(* The module pipe_generic (stream/pipe/pipe.c) and the child process it   *)
(* keeps (core/child.c).  The module starts a process, feeds it packets on *)
(* its standard input, reads packets from its standard output and starts   *)
(* it again some seconds after it has ended.                               *)
(*                                                                         *)
(* A child ends in steps: asc_child_close shuts the pipes at once, asks    *)
(* the process to terminate and looks at it every 100 ms, up to a limit;   *)
(* then it kills it and waits.  Between the first step and the last the    *)
(* module still holds the child, though its events are closed ("closing"). *)
(* When the process cannot be looked at, or a signal cannot be sent to it, *)
(* the closing ends there and the process is left to itself: it may live   *)
(* on as a stray, of which the module knows nothing.                       *)
(*                                                                         *)
(* With a sync buffer the module reads only what the buffer wants: it      *)
(* counts the packets down in sync_feed, stops reading at zero and is      *)
(* called back by ts_sync_loop when the buffer runs low.  The buffer is    *)
(* TsSync's subject; here it may call at any time, a push may fail, and    *)
(* what it wants is any number, zero included (see SyncWant).              *)
(*                                                                         *)
(* Every action is a callback of the main loop.  The program may crash:    *)
(* the buffer may call the module when there is no open event to read      *)
(* from.                                                                   *)
(***************************************************************************)
EXTENDS Integers

CONSTANTS
    MaxTicks,   \* KILL_MAX_TICKS
    MaxWant,    \* bound: the most packets the buffer wants
    MaxRead,    \* bound: packets in one read
    Slots       \* bound: packets the standard input's buffer holds

ASSUME PipeAssumption ==
    /\ MaxTicks \in Nat /\ MaxWant \in Nat \ {0}
    /\ MaxRead \in Nat \ {0} /\ Slots \in Nat \ {0}

VARIABLES
    config,     \* the options: restart (delay > 0), sync
    proc,       \* the child's process: "none", "alive", or "dead" and not
                \* waited for
    stray,      \* a process that is no child's any more is alive
    gave_up,    \* history: a process was left to itself by a call that failed
    child,      \* "none", "up", or "closing": its pipes are shut
    ticks,      \* child->kill_ticks
    kill_timer, \* it is armed
    restart,    \* mod->restart is not NULL
    due,        \* restart timers that are armed
    reading,    \* the read event of the child's standard output is set
    waiting,    \* the write event of its standard input is set
    held,       \* packets in the standard input's buffer
    can_send,
    feed,       \* sync_feed
    asked,      \* the sync buffer's on_ready is on_sync_ready
    state       \* "on", "destroyed" or "crashed"

kid == <<proc, child, ticks, kill_timer, stray, gave_up>>
timer == <<restart, due>>
in == <<waiting, held, can_send>>
out == <<reading, feed, asked>>
vars == <<config, kid, timer, in, out, state>>

TypeOK ==
    /\ config \in [restart : BOOLEAN, sync : BOOLEAN]
    /\ proc \in {"none", "alive", "dead"}
    /\ child \in {"none", "up", "closing"}
    /\ ticks \in 0..MaxTicks
    /\ held \in 0..Slots
    /\ feed \in 0..MaxWant
    /\ due \in Nat
    /\ {stray, gave_up, kill_timer, restart, reading, waiting, can_send, asked}
           \subseteq BOOLEAN
    /\ state \in {"on", "destroyed", "crashed"}

On == state = "on"
-------------------------------------------------------------------------------
(* Starting a process                                                      *)

(* asc_child_init, after the process was created.  A child that is still   *)
(* there would be forgotten, with its process.                             *)
ChildInit ==
    /\ proc' = "alive" /\ child' = "up"
    /\ stray' = (stray \/ proc = "alive") /\ UNCHANGED gave_up
    /\ ticks' = 0 /\ kill_timer' = FALSE
    /\ waiting' = TRUE /\ held' = 0

(* the timers that are armed when a restart is scheduled *)
Scheduled == IF config.restart THEN 1 ELSE 0

NoProcess ==
    /\ child' = "none"
    /\ UNCHANGED <<proc, ticks, kill_timer, stray, gave_up>>
    /\ UNCHANGED <<waiting, held, reading>>

(* Changed form, not used: the buffer is not asked to call when reading is *)
(* off.                                                                    *)
OnChildRestartDeaf ==
    /\ \/ /\ ChildInit
          /\ reading' = ~(config.sync /\ feed <= 0)
          /\ restart' = FALSE /\ due' = due - 1
       \/ /\ NoProcess
          /\ restart' = config.restart /\ due' = due - 1 + Scheduled
    /\ UNCHANGED <<config, can_send, feed, asked, state>>

(* Changed form, not used: the pointer to the timer that has fired stays. *)
OnChildRestartKeeps ==
    LET quiet == config.sync /\ feed <= 0
    IN  /\ asked' = (asked \/ quiet)
        /\ \/ /\ ChildInit
              /\ reading' = ~quiet
              /\ due' = due - 1
           \/ /\ NoProcess
              /\ due' = due - 1 + Scheduled
        /\ UNCHANGED <<config, restart, can_send, feed, state>>

(* on_child_restart: the pointer to the timer that has fired is cleared;   *)
(* with a buffer that has not asked for data, reading is off from the      *)
(* start and the buffer is asked to call                                   *)
OnChildRestart ==
    LET quiet == config.sync /\ feed <= 0
    IN  /\ asked' = (asked \/ quiet)
        /\ \/ /\ ChildInit
              /\ reading' = ~quiet
              /\ restart' = FALSE /\ due' = due - 1
           \/ /\ NoProcess
              /\ restart' = config.restart /\ due' = due - 1 + Scheduled
        /\ UNCHANGED <<config, can_send, feed, state>>

(* a restart timer fires *)
Restart == On /\ due > 0 /\ OnChildRestart
-------------------------------------------------------------------------------
(* Reading from the pipe                                                   *)

(* n packets the buffer takes are counted down; at zero the count is over  *)
Left(n) == IF n < feed THEN feed - n ELSE 0
RunsOut(n) == feed > 0 /\ n >= feed

(* on_stdio_read, and for each packet on_child_ts_sync: when the count is  *)
(* over, reading stops and the buffer is asked to call.  A packet the      *)
(* buffer does not take is not counted: it counts as none.                 *)
Read ==
    /\ On /\ child = "up" /\ reading
    /\ \E n \in 0..MaxRead :
        /\ feed' = Left(n)
        /\ reading' = ~RunsOut(n)
        /\ asked' = (asked \/ RunsOut(n))
    /\ UNCHANGED <<config, kid, timer, in, state>>

(* ts_sync_query, for a buffer that runs low: (filled / num_blocks) * more *)
(* * 2 is zero when there are fewer packets than blocks                    *)
SyncWant == 0..MaxWant

(* ts_sync_loop calls on_sync_ready.  The child's event is used as it is:  *)
(* of a child that is closing it is NULL, and there may be no child.       *)
OnSyncReady ==
    /\ On /\ asked
    /\ \/ /\ child = "up"
          /\ asked' = FALSE /\ reading' = TRUE
          /\ feed' \in SyncWant
          /\ UNCHANGED state
       \/ /\ child # "up"
          /\ state' = "crashed"
          /\ UNCHANGED out
    /\ UNCHANGED <<config, kid, timer, in>>
-------------------------------------------------------------------------------
(* The end of a child                                                      *)

(* on_child_close, and the child is freed; can_send is left to the callers *)
OnChildClose ==
    /\ restart' = (restart \/ config.restart) /\ due' = due + Scheduled
    /\ asked' = FALSE
    /\ child' = "none" /\ proc' = "none"
    /\ kill_timer' = FALSE /\ ticks' = 0

(* the process has been waited for *)
Ended == OnChildClose /\ UNCHANGED <<stray, gave_up>>

(* its state is not known, or a signal cannot be sent: "hope it dies on    *)
(* its own"                                                                *)
GiveUp == OnChildClose /\ gave_up' = TRUE /\ stray' = (stray \/ proc = "alive")

(* Changed form, not used: the restart is scheduled when the closing       *)
(* begins.                                                                 *)
LookAgainHasty ==
    /\ child' = "closing"
    /\ kill_timer' = TRUE /\ ticks' = ticks + 1
    /\ restart' = (restart \/ config.restart) /\ due' = due + Scheduled
    /\ UNCHANGED <<proc, stray, gave_up>>

(* Changed form, not used: the timer is set by the first call only. *)
LookAgainOnce ==
    /\ child' = "closing"
    /\ kill_timer' = (ticks = 0) /\ ticks' = ticks + 1
    /\ UNCHANGED <<proc, stray, gave_up, timer>>

(* the next look at the process in 100 ms *)
LookAgain ==
    /\ child' = "closing"
    /\ kill_timer' = TRUE /\ ticks' = ticks + 1
    /\ UNCHANGED <<proc, stray, gave_up, timer>>

(* Changed form, not used: one look too many. *)
CheckProcessLate(wants) ==
    \/ GiveUp
    \/ proc = "dead" /\ Ended
    \/ proc = "alive" /\ ticks <= MaxTicks /\ LookAgain /\ asked' = wants
    \/ proc = "alive" /\ ticks > MaxTicks /\ Ended

(* The state of the process, once the pipes are shut.  One that has ended  *)
(* is waited for.  One that is alive is asked to terminate, at first, and  *)
(* looked at again; when the time is up it is killed and waited for.  The  *)
(* first look fails at any time, what follows it for a live process only.  *)
CheckProcess(wants) ==
    \/ GiveUp
    \/ proc = "dead" /\ Ended
    \/ proc = "alive" /\ ticks < MaxTicks /\ LookAgain /\ asked' = wants
    \/ proc = "alive" /\ ticks = MaxTicks /\ Ended

(* asc_child_close: the first call reads what is left, then shuts the pipes *)
AscChildClose ==
    IF ticks = 0
    THEN /\ \E n \in 0..MaxRead :
                /\ feed' = Left(n)
                /\ CheckProcess(asked \/ RunsOut(n))
         /\ reading' = FALSE /\ waiting' = FALSE
    ELSE /\ CheckProcess(asked)
         /\ UNCHANGED <<feed, reading, waiting>>

(* one of the pipes was closed by the process, or is broken *)
OnStdioClose ==
    /\ On /\ child = "up"
    /\ AscChildClose
    /\ can_send' = (can_send /\ child' # "none")
    /\ UNCHANGED <<config, held, state>>

KillTimer ==
    /\ On /\ kill_timer
    /\ AscChildClose
    /\ can_send' = (can_send /\ child' # "none")
    /\ UNCHANGED <<config, held, state>>

(* the process ends of itself, or obeys the signal; the strays end *)
Exit ==
    /\ \/ proc = "alive" /\ proc' = "dead" /\ UNCHANGED stray
       \/ stray /\ stray' = FALSE /\ UNCHANGED proc
    /\ UNCHANGED <<config, child, ticks, kill_timer, gave_up>>
    /\ UNCHANGED <<timer, in, out, state>>
-------------------------------------------------------------------------------
(* Writing to the pipe                                                     *)

(* on_child_ready: the standard input can be written *)
OnChildReady ==
    /\ On /\ child = "up" /\ waiting
    /\ can_send' = TRUE /\ waiting' = FALSE
    /\ UNCHANGED <<config, kid, timer, held, out, state>>

(* on_upstream_ts, for a module that may send (one that may not counts the *)
(* packet or passes it on).  send_mpegts collects packets and writes them  *)
(* all when there is no room for one more.                                 *)
Collect ==
    /\ On /\ can_send /\ held < Slots
    /\ held' = held + 1
    /\ UNCHANGED <<config, kid, timer, waiting, can_send, out, state>>

Flush ==
    /\ On /\ can_send /\ held = Slots /\ child = "up"
    /\ held' = 1
    /\ UNCHANGED <<config, kid, timer, waiting, can_send, out, state>>

(* the pipe is full: the packets are lost, and it waits for room *)
FlushBlocks ==
    /\ On /\ can_send /\ held = Slots /\ child = "up"
    /\ held' = 0 /\ can_send' = FALSE /\ waiting' = TRUE
    /\ UNCHANGED <<config, kid, timer, out, state>>

(* any other error; it is the only outcome when the pipes are shut.  The   *)
(* child is closed, which is a step of the closing if it has begun.        *)
FlushFails ==
    /\ On /\ can_send /\ held = Slots
    /\ held' = 0 /\ can_send' = FALSE
    /\ AscChildClose
    /\ UNCHANGED <<config, state>>
-------------------------------------------------------------------------------
(* The module's life                                                       *)

(* module_init: the buffer is empty and wants half its size; without one   *)
(* there is nothing to count.  on_child_restart comes last.                *)
Init ==
    /\ config \in [restart : BOOLEAN, sync : BOOLEAN]
    /\ feed \in IF config.sync THEN 1..MaxWant ELSE {0}
    /\ ticks = 0 /\ kill_timer = FALSE
    /\ stray = FALSE /\ gave_up = FALSE
    /\ held = 0 /\ can_send = FALSE
    /\ asked = FALSE
    /\ \/ /\ proc = "alive" /\ child = "up"
          /\ reading = TRUE /\ waiting = TRUE
          /\ restart = FALSE /\ due = 0
       \/ /\ proc = "none" /\ child = "none"
          /\ reading = FALSE /\ waiting = FALSE
          /\ restart = config.restart /\ due = Scheduled
    /\ state = "on"

(* module_destroy: the timer is destroyed through its pointer, and         *)
(* asc_child_destroy waits for the process, unless a call fails            *)
Destroy ==
    /\ On
    /\ state' = "destroyed"
    /\ restart' = FALSE /\ due' = IF restart THEN due - 1 ELSE due
    /\ \/ UNCHANGED <<stray, gave_up>>
       \/ child # "none" /\ gave_up' = TRUE /\ stray' = (stray \/ proc = "alive")
    /\ kill_timer' = FALSE
    /\ proc' = "none" /\ child' = "none" /\ ticks' = 0
    /\ reading' = FALSE /\ waiting' = FALSE
    /\ can_send' = FALSE /\ asked' = FALSE
    /\ UNCHANGED <<config, held, feed>>

Next ==
    \/ Restart \/ Read \/ OnSyncReady
    \/ OnStdioClose \/ KillTimer \/ Exit
    \/ OnChildReady \/ Collect \/ Flush \/ FlushBlocks \/ FlushFails
    \/ Destroy

(* The main loop runs a timer that is due.  A command that can be started  *)
(* is started in the end.                                                  *)
Fairness ==
    /\ WF_vars(KillTimer)
    /\ WF_vars(Restart /\ child' = "up")

Spec == Init /\ [][Next]_vars /\ Fairness
-------------------------------------------------------------------------------
(* A process has company only where the module gave one up.  The restart   *)
(* timer is armed when the child is freed and not before, however many     *)
(* steps the closing takes and whatever else begins or ends it meanwhile;  *)
(* so a process runs beside the child's, or is left by it, only after a    *)
(* call failed that was to look at it or to end it.  A child that is being *)
(* closed is always looked at again.  on_upstream_ts sends to mod->child   *)
(* without a look at it, so its flag may not outlive the child (it does    *)
(* outlive the pipes: packets of that time are collected for nobody).      *)
OneProcess ==
    /\ stray => gave_up
    /\ due > 0 => child = "none"
    /\ child = "none" <=> proc = "none"
    /\ kill_timer <=> child = "closing"
    /\ can_send => child # "none"

(* asc_timer_destroy writes to the timer it is given, and the walk frees a *)
(* one shot timer that has fired: mod->restart is NULL or the one timer    *)
(* that is armed, through any number of restarts that fail, and no timer   *)
(* outlives the module it calls.                                           *)
OwnTimer ==
    /\ due = IF restart THEN 1 ELSE 0
    /\ state = "destroyed" => due = 0

(* A live child is never left alone.  If its output is not read, the       *)
(* buffer has been asked to call when it wants data; if nothing may be     *)
(* sent to it, the event that says it can be written is set.  The two      *)
(* conditions are kept up by callbacks that undo each other's work.        *)
Woken ==
    child = "up" => /\ ~reading => asked
                    /\ ~can_send => waiting
                    /\ ~(asked /\ reading)

(* The child that is being closed is freed in the end, though the process  *)
(* may ignore the signal and packets for it may still come; and a module   *)
(* with the restart option has a live child again and again, unless it has *)
(* crashed.                                                                *)
Settles ==
    /\ child = "closing" ~> child # "closing" \/ state = "crashed"
    /\ config.restart =>
        []<>(child = "up" \/ state \in {"destroyed", "crashed"})

(* pipe.c:31: "restart - number, seconds before auto restart (0 to         *)
(* disable)".  A module with the option has a live child again and again.  *)
AutoRestart == config.restart => []<>(child = "up" \/ state = "destroyed")
===============================================================================
