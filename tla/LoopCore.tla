------------------------------- MODULE LoopCore -------------------------------
(***************************************************************************)
(* One turn of asc_main_loop_run: events are polled and dispatched, queued *)
(* jobs run, due timers fire; then the loop polls again, for no longer     *)
(* than the timers allow.  Callbacks of each kind change the events and    *)
(* the timers alike.                                                       *)
(***************************************************************************)
EXTENDS EventCore, TimerCore

VARIABLE turn    \* "events", "jobs", "timers", or "stopped"

vars == <<turn, clock, timerVars, eventVars>>

TypeOK ==
    /\ TimerTypeOK
    /\ EventTypeOK
    /\ turn \in {"events", "jobs", "timers", "stopped"}

Init ==
    /\ clock = 0
    /\ TimerInit
    /\ EventInit
    /\ turn = "events"

Tick ==
    /\ turn # "stopped"
    /\ clock < MaxTime
    /\ clock' = clock + 1
    /\ UNCHANGED <<turn, timerVars, eventVars>>

(* a callback is running: of an event, of a timer, or of a job *)
InCallback == dispatch = "callback" \/ walk = "callback" \/ turn = "jobs"

Callback ==
    /\ InCallback
    /\ \/ EventCall /\ UNCHANGED <<clock, timerVars>>
       \/ TimerCall /\ UNCHANGED eventVars
    /\ UNCHANGED turn

Events ==
    /\ turn = "events"
    /\ EventWalk
    /\ turn' = IF dispatch # "idle" /\ dispatch' = "idle" THEN "jobs" ELSE turn
    /\ UNCHANGED <<clock, timerVars>>

(* run_jobs returns *)
JobsDone ==
    /\ turn = "jobs"
    /\ turn' = "timers"
    /\ UNCHANGED <<clock, timerVars, eventVars>>

Timers ==
    /\ turn = "timers"
    /\ TimerWalk
    /\ turn' = IF walk # "idle" /\ walk' = "idle" THEN "events" ELSE turn
    /\ UNCHANGED eventVars

(* the loop has ended; asc_lib_destroy closes what events are left, and    *)
(* asc_timer_core_destroy frees what timers are left                       *)
Destroy ==
    \/ /\ turn = "events"
       /\ EventCoreDestroy
       /\ turn' = "stopped"
       /\ UNCHANGED <<clock, timerVars>>
    \/ /\ turn = "stopped"
       /\ DestroyEvent
       /\ UNCHANGED <<turn, clock, timerVars>>
    \/ /\ turn = "stopped"
       /\ event_list.items = << >>
       /\ timer_list.items # << >>
       /\ timer_list' = EmptyList
       /\ timer' = [t \in Timer |-> Free]
       /\ UNCHANGED <<turn, clock, walk, this, now, nearest, started, ev_sleep,
                      eventVars>>

Next == Tick \/ Callback \/ Events \/ JobsDone \/ Timers \/ Destroy

Spec == Init /\ [][Next]_vars
=============================================================================
