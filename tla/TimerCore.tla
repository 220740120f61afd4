------------------------------ MODULE TimerCore ------------------------------
(***************************************************************************)
(* Timers (core/timer.c): a list of timers that asc_timer_core_loop walks  *)
(* once per turn of the main loop.  A callback may create timers and may   *)
(* destroy any of them, itself included; destroying one only clears its    *)
(* callback, and the walk frees it when it gets there.                     *)
(*                                                                         *)
(* Time is in milliseconds and may pass between any two steps.             *)
(***************************************************************************)
EXTENDS AscList, Integers

CONSTANTS
    Timer,       \* memory for timers: a slot that was freed is used again
    NoTimer,
    Interval,    \* the delays modules ask for
    DelayMin,    \* TIMER_DELAY_MIN, 1 ms in the code
    DelayMax,    \* TIMER_DELAY_MAX, 100 ms in the code
    MaxTime      \* bound: the clock stops here

ASSUME TimerAssumption ==
    /\ NoTimer \notin Timer
    /\ Interval \subseteq Nat
    /\ DelayMin \in Nat /\ DelayMax \in Nat /\ DelayMin <= DelayMax
    /\ MaxTime \in Nat

VARIABLES
    clock,       \* asc_utime()
    timer,       \* timer[t]: the contents of the slot
    timer_list,
    walk,        \* "idle", "walk", or "callback" while a callback runs
    this,        \* the walk's own pointer to the timer it has called
    now,         \* locals of asc_timer_core_loop, cleared when it returns
    nearest,
    started,     \* history: the time at which the walk began
    ev_sleep     \* what the last walk returned

timerVars == <<timer, timer_list, walk, this, now, nearest, started, ev_sleep>>

(* UINT64_MAX: later than any time the loop may sleep to *)
Never == MaxTime + DelayMax + 1

Free == [callback |-> FALSE, interval |-> 0, next_shot |-> 0]

Allocated(t) == t \in Elements(timer_list)

Armed(t) == Allocated(t) /\ timer[t].callback

Due(t, at) == timer[t].callback /\ at >= timer[t].next_shot

(* the timer at the cursor of the list *)
Current == Data(timer_list)

TimerTypeOK ==
    /\ clock \in 0..MaxTime
    /\ \A t \in Timer :
         /\ timer[t].callback \in BOOLEAN
         /\ timer[t].interval \in Interval \cup {0}
         /\ timer[t].next_shot \in Nat
    /\ IsList(timer_list, Timer)
    /\ walk \in {"idle", "walk", "callback"}
    /\ this \in Timer \cup {NoTimer}
    /\ now \in 0..clock
    /\ nearest \in 0..Never
    /\ started \in 0..clock
    /\ ev_sleep \in {0} \cup DelayMin..DelayMax

TimerInit ==
    /\ timer = [t \in Timer |-> Free]
    /\ timer_list = EmptyList
    /\ walk = "idle" /\ this = NoTimer
    /\ now = 0 /\ nearest = Never /\ started = 0 /\ ev_sleep = 0

-----------------------------------------------------------------------------
(* Plausible bugs *)

(* the wait is cut off below only *)
SleepForever(t, n) == IF n < t + DelayMin THEN DelayMin ELSE n - t

(* a periodic timer keeps its phase and may be due again at once *)
RescheduledLate(tm, t) ==
    IF tm.interval > 0 THEN [tm EXCEPT !.next_shot = @ + tm.interval]
    ELSE [tm EXCEPT !.callback = FALSE]

(* asc_timer_destroy takes the timer out of the list there and then *)
TimerDestroyNow(t) ==
    /\ Armed(t)
    /\ timer' = [timer EXCEPT ![t].callback = FALSE]
    /\ timer_list' = RemoveItem(timer_list, t)
    /\ UNCHANGED <<clock, walk, this, now, nearest, started, ev_sleep>>

(* the walk moves on after it removed a timer *)
VisitedSkip(l, tm) ==
    IF tm.callback THEN Advance(l) ELSE Advance(RemoveCurrent(l))

-----------------------------------------------------------------------------
(* What callbacks and the rest of the program do *)

(* asc_timer_init, and asc_timer_one_shot, which then clears the interval *)
TimerCreate(t, ms, one_shot) ==
    /\ ~Allocated(t)
    /\ timer' = [timer EXCEPT ![t] = [callback  |-> TRUE,
                                      interval  |-> IF one_shot THEN 0 ELSE ms,
                                      next_shot |-> clock + ms]]
    /\ timer_list' = InsertTail(timer_list, t)
    /\ UNCHANGED <<clock, walk, this, now, nearest, started, ev_sleep>>

(* The caller holds a pointer to a timer that is still allocated; nothing  *)
(* in the code can tell whether it is.                                     *)
TimerDestroy(t) ==
    /\ Armed(t)
    /\ timer' = [timer EXCEPT ![t].callback = FALSE]
    /\ UNCHANGED <<clock, timer_list, walk, this, now, nearest, started, ev_sleep>>

TimerCall ==
    \E t \in Timer :
        \/ \E ms \in Interval, one_shot \in BOOLEAN : TimerCreate(t, ms, one_shot)
        \/ TimerDestroy(t)

-----------------------------------------------------------------------------
(* asc_timer_core_loop *)

WalkStart ==
    /\ walk = "idle"
    /\ walk' = "walk"
    /\ now' = clock /\ started' = clock
    /\ nearest' = Never
    /\ timer_list' = First(timer_list)
    /\ UNCHANGED <<clock, timer, this, ev_sleep>>

Fire ==
    /\ walk = "walk"
    /\ ~Eol(timer_list)
    /\ Due(Current, now)
    /\ walk' = "callback" /\ this' = Current
    /\ UNCHANGED <<clock, timer, timer_list, now, nearest, started, ev_sleep>>

(* After the callback: a periodic timer is set again, one interval from    *)
(* now; a one shot timer is disarmed.                                      *)
Rescheduled(tm, t) ==
    IF tm.interval > 0 THEN [tm EXCEPT !.next_shot = t + tm.interval]
    ELSE [tm EXCEPT !.callback = FALSE]

(* The end of the visit of timer t: what is at the cursor leaves the list  *)
(* when t has no callback, and t is freed; otherwise t counts for the time *)
(* to sleep.                                                               *)
Visited(l, tm) == IF tm.callback THEN Advance(l) ELSE RemoveCurrent(l)

EndVisit(t, tms) ==
    /\ timer_list' = Visited(timer_list, tms[t])
    /\ IF tms[t].callback
       THEN /\ timer' = tms
            /\ nearest' = IF tms[t].next_shot < nearest
                          THEN tms[t].next_shot ELSE nearest
       ELSE /\ timer' = [tms EXCEPT ![t] = Free]
            /\ UNCHANGED nearest

CallbackReturn ==
    /\ walk = "callback"
    /\ now' = clock
    /\ EndVisit(this, [timer EXCEPT ![this] = Rescheduled(@, clock)])
    /\ walk' = "walk" /\ this' = NoTimer
    /\ UNCHANGED <<clock, started, ev_sleep>>

Pass ==
    /\ walk = "walk"
    /\ ~Eol(timer_list)
    /\ ~Due(Current, now)
    /\ EndVisit(Current, timer)
    /\ UNCHANGED <<clock, walk, this, now, started, ev_sleep>>

(* how long the main loop may sleep at time t when n is the next deadline *)
Sleep(t, n) ==
    IF n < t + DelayMin THEN DelayMin
    ELSE IF n > t + DelayMax THEN DelayMax
    ELSE n - t

WalkEnd ==
    /\ walk = "walk"
    /\ Eol(timer_list)
    /\ ev_sleep' = Sleep(now, nearest)
    /\ walk' = "idle"
    /\ now' = 0 /\ nearest' = Never /\ started' = 0
    /\ UNCHANGED <<clock, timer, timer_list, this>>

TimerWalk == WalkStart \/ Fire \/ CallbackReturn \/ Pass \/ WalkEnd

-----------------------------------------------------------------------------
(* Properties *)

(* While a callback runs, the cursor of the list stays on the timer that   *)
(* was called, whatever the callback creates or destroys: when it returns, *)
(* the walk frees that timer through its own pointer and removes from the  *)
(* list whatever is at the cursor.  Nor is a slot in the list twice, or    *)
(* armed and out of it.                                                    *)
WalkOnItsTimer ==
    /\ walk = "callback" => ~Eol(timer_list) /\ Current = this
    /\ \A i, j \in DOMAIN timer_list.items :
         timer_list.items[i] = timer_list.items[j] => i = j
    /\ \A t \in Timer : timer[t].callback => Allocated(t)

WalkDone == walk = "walk" /\ Eol(timer_list)

(* A walk misses no timer: when it is done, nothing that was due when it   *)
(* began is left waiting, though timers were removed and added meanwhile.  *)
NoTimerMissed ==
    WalkDone => \A t \in Timer : Armed(t) => timer[t].next_shot > started

(* The main loop never sleeps past a deadline: the walk's result takes it  *)
(* to the next shot of every timer, created by whatever callback, or to    *)
(* the shortest sleep there is.                                            *)
NoOversleep ==
    WalkDone => \A t \in Timer : Armed(t) =>
        \/ now + Sleep(now, nearest) <= timer[t].next_shot
        \/ Sleep(now, nearest) = DelayMin
=============================================================================
