------------------------------ MODULE Lifecycle ------------------------------
(***************************************************************************)
(* The life of an instance: main() starts, runs and destroys the library,  *)
(* over and over on reload, while a signal thread turns signals into       *)
(* requests to the main loop (main/main.c, main/sig-posix.c, the flags of  *)
(* core/mainloop.c, core/init.c).                                          *)
(*                                                                         *)
(* main_loop->flags is a plain integer that both threads update without a  *)
(* lock: the update `flags |= x' is a load and a store here, whichever     *)
(* thread makes it, and so is the main loop's `flags = main_loop->flags;   *)
(* main_loop->flags = 0'.                                                  *)
(***************************************************************************)
EXTENDS Naturals, FiniteSets

CONSTANTS
    MaxRequests,    \* bound: signals sent and Lua requests made
    Signals,        \* the signals that are sent
    LuaAsks,        \* the flags that Lua callbacks ask for
    PollFails       \* whether the polling function can fail

Signal == {"SIGTERM", "SIGUSR1", "SIGHUP", "SIGQUIT"}

LuaFlag == {"SHUTDOWN", "RELOAD"}

ASSUME WorldAssumption ==
    /\ MaxRequests \in Nat
    /\ Signals \subseteq Signal
    /\ LuaAsks \subseteq LuaFlag
    /\ PollFails \in BOOLEAN

Flag == {"SHUTDOWN", "RELOAD", "SIGHUP"}

NoSignal == "none"

VARIABLES
    main,         \* position of the main thread; a flag when it has loaded
                  \* the flags and is about to store them with that one
    again,        \* main(): the loop asked for another instance
    alive,        \* main_loop is allocated
    flags,        \* main_loop->flags
    stop_cnt,     \* main_loop->stop_cnt
    read,         \* the copy of the flags the main thread has just taken
    sig,          \* position of the signal thread
    signum,       \* the signal it works on
    loaded,       \* the flags it loaded and is about to store
    pending,      \* blocked signals that wait for sigwait
    lock,         \* owner of signal_lock
    quit_thread,
    requests,     \* number of requests so far
    asked         \* how often asc_main_loop_shutdown was called on the
                  \* current main loop

lifeVars == <<main, again, alive, flags, stop_cnt, read, sig, signum, loaded,
              pending, lock, quit_thread, requests, asked>>

mainVars == <<main, again, read>>
sigVars == <<sig, signum, loaded>>
loopVars == <<alive, flags, stop_cnt, asked>>

(* exit statuses: 0 or asc_lib_exit's, ASC_EXIT_MAINLOOP, ASC_EXIT_SIGNAL, *)
(* ASC_EXIT_ABORT; and a crash on a main loop that is gone                 *)
Ended == {"stopped", "exit_mainloop", "exit_signal", "exit_abort", "crashed"}

Running == main \notin Ended

(* Types; the limit on ignored shutdown requests ends the process at once. *)
LifecycleTypeOK ==
    /\ main \in {"init", "enable", "loop", "clear", "disable", "destroy",
                 "lib_exit", "exit", "cleanup", "joining"} \cup LuaFlag \cup Ended
    /\ again \in BOOLEAN
    /\ alive \in BOOLEAN
    /\ flags \subseteq Flag /\ read \subseteq Flag /\ loaded \subseteq Flag
    /\ stop_cnt \in 0..3 /\ (stop_cnt = 3 <=> main = "exit_mainloop")
    /\ sig \in {"wait", "lock", "act", "store", "exited"}
    /\ signum \in Signal \cup {NoSignal}
    /\ pending \subseteq Signal
    /\ lock \in {"main", "signal", "free"}
    /\ quit_thread \in BOOLEAN
    /\ requests \in 0..MaxRequests
    /\ asked \in Nat

(* signal_setup has run: the lock is taken before the thread is started *)
LifecycleInit ==
    /\ main = "init" /\ again = FALSE /\ read = {}
    /\ alive = FALSE /\ flags = {} /\ stop_cnt = 0 /\ asked = 0
    /\ sig = "wait" /\ signum = NoSignal /\ loaded = {}
    /\ pending = {} /\ lock = "main" /\ quit_thread = FALSE /\ requests = 0

-----------------------------------------------------------------------------
(* Plausible bugs *)

(* signal_enable(false) does not take the lock *)
SignalDisableNoLock ==
    /\ Running /\ main = "disable"
    /\ main' = "destroy"
    /\ UNCHANGED <<again, read, loopVars, sigVars, pending, lock, quit_thread,
                   requests>>

(* the lock is a normal mutex: taking it twice blocks *)
SignalCleanupDeadlock ==
    /\ Running /\ main \in {"cleanup", "exit"}
    /\ lock = "free"
    /\ quit_thread' = TRUE
    /\ pending' = pending \cup {"SIGTERM"}
    /\ main' = "joining"
    /\ UNCHANGED <<again, read, loopVars, sigVars, lock, requests>>

(* the limit on ignored shutdown requests is off by one, either way *)
TooManyShutdownsEarly(n) == n >= 2
TooManyShutdownsLate(n) == n >= 4

-----------------------------------------------------------------------------
(* The outside world *)

(* The same signal sent twice before sigwait takes it is delivered once *)
SendSignal(s) ==
    /\ Running
    /\ s \in Signals
    /\ requests < MaxRequests
    /\ requests' = requests + 1
    /\ pending' = pending \cup {s}
    /\ UNCHANGED <<mainVars, loopVars, sigVars, lock, quit_thread>>

-----------------------------------------------------------------------------
(* Requests to the main loop *)

(* asc_main_loop_shutdown, up to the update of the flags: requests that    *)
(* find an earlier one unserved are counted, the third of them exits.      *)
TooManyShutdowns(n) == n >= 3

CountShutdown(f) ==
    IF f # "SHUTDOWN"
    THEN UNCHANGED <<stop_cnt, asked>>
    ELSE /\ asked' = asked + 1
         /\ stop_cnt' = stop_cnt + (IF "SHUTDOWN" \in flags THEN 1 ELSE 0)

Aborts(f) ==
    f = "SHUTDOWN" /\ "SHUTDOWN" \in flags /\ TooManyShutdowns(stop_cnt + 1)

(* astra.shutdown() and astra.reload() in a Lua callback, with the load    *)
(* half of `flags |= x'                                                    *)
LuaRequest(f) ==
    /\ main = "loop"
    /\ f \in LuaAsks
    /\ requests < MaxRequests
    /\ requests' = requests + 1
    /\ CountShutdown(f)
    /\ main' = IF Aborts(f) THEN "exit_mainloop" ELSE f
    /\ read' = flags
    /\ UNCHANGED <<again, alive, flags, sigVars, pending, lock, quit_thread>>

(* the store half *)
LuaStore(f) ==
    /\ main = f
    /\ flags' = read \cup {f}
    /\ read' = {}
    /\ main' = "loop"
    /\ UNCHANGED <<again, alive, stop_cnt, asked, sigVars, pending, lock,
                   quit_thread, requests>>

-----------------------------------------------------------------------------
(* The signal thread *)

SigWait ==
    /\ Running
    /\ sig = "wait"
    /\ \E s \in pending :
         /\ signum' = s
         /\ pending' = pending \ {s}
    /\ sig' = "lock"
    /\ UNCHANGED <<mainVars, loopVars, loaded, lock, quit_thread, requests>>

SigLock ==
    /\ Running
    /\ sig = "lock"
    /\ lock = "free"
    /\ IF quit_thread
       THEN sig' = "exited" /\ UNCHANGED lock
       ELSE sig' = "act" /\ lock' = "signal"
    /\ UNCHANGED <<mainVars, loopVars, signum, loaded, pending, quit_thread,
                   requests>>

(* asc_mutex_timedlock gave up: the main thread has kept the lock for 5 s *)
SigTimeout ==
    /\ Running
    /\ sig = "lock"
    /\ lock = "main"
    /\ IF signum = "SIGTERM"
       THEN main' = "exit_signal" /\ UNCHANGED <<sig, signum>>
       ELSE sig' = "wait" /\ signum' = NoSignal /\ UNCHANGED main
    /\ UNCHANGED <<again, read, loopVars, loaded, pending, lock, quit_thread,
                   requests>>

(* SIGQUIT, which aborts, sets no flag *)
FlagOf(s) ==
    IF s = "SIGTERM" THEN "SHUTDOWN"
    ELSE IF s = "SIGUSR1" THEN "RELOAD" ELSE "SIGHUP"

(* the switch over signum, and the load half of `flags |= x' *)
SigAct ==
    /\ Running
    /\ sig = "act"
    /\ IF signum = "SIGQUIT"
       THEN /\ main' = "exit_abort"
            /\ UNCHANGED <<stop_cnt, asked, sig, loaded>>
       ELSE IF ~alive
       THEN main' = "crashed" /\ UNCHANGED <<stop_cnt, asked, sig, loaded>>
       ELSE /\ CountShutdown(FlagOf(signum))
            /\ main' = IF Aborts(FlagOf(signum)) THEN "exit_mainloop" ELSE main
            /\ sig' = "store"
            /\ loaded' = flags
    /\ UNCHANGED <<again, read, alive, flags, signum, pending, lock,
                   quit_thread, requests>>

(* the store half, and the unlock *)
SigStore ==
    /\ Running
    /\ sig = "store"
    /\ IF alive
       THEN flags' = loaded \cup {FlagOf(signum)} /\ UNCHANGED main
       ELSE main' = "crashed" /\ UNCHANGED flags
    /\ sig' = "wait" /\ signum' = NoSignal
    /\ lock' = "free"
    /\ UNCHANGED <<again, read, alive, stop_cnt, asked, loaded, pending,
                   quit_thread, requests>>

-----------------------------------------------------------------------------
(* The main thread *)

LibInit ==
    /\ Running
    /\ main = "init"
    /\ main' = "enable"
    /\ alive' = TRUE /\ flags' = {} /\ stop_cnt' = 0 /\ asked' = 0
    /\ UNCHANGED <<again, read, sigVars, pending, lock, quit_thread, requests>>

(* signal_enable(true): the lock is ours since signal_setup or since       *)
(* signal_enable(false); locking it again fails, then it is released.      *)
SignalEnable ==
    /\ Running
    /\ main = "enable"
    /\ main' = "loop"
    /\ lock' = "free"
    /\ UNCHANGED <<again, read, loopVars, sigVars, pending, quit_thread,
                   requests>>

ReadFlags ==
    /\ main = "loop"
    /\ flags # {}
    /\ read' = flags
    /\ main' = "clear"
    /\ UNCHANGED <<again, loopVars, sigVars, pending, lock, quit_thread,
                   requests>>

(* shutdown goes first, then reload; what else was set is forgotten *)
ClearFlags ==
    /\ Running
    /\ main = "clear"
    /\ flags' = {}
    /\ \/ /\ "SHUTDOWN" \in read
          /\ main' = "disable" /\ again' = FALSE /\ stop_cnt' = 0
       \/ /\ "SHUTDOWN" \notin read /\ "RELOAD" \in read
          /\ main' = "disable" /\ again' = TRUE /\ UNCHANGED stop_cnt
       \/ /\ read \cap {"SHUTDOWN", "RELOAD"} = {}
          /\ main' = "loop" /\ UNCHANGED <<again, stop_cnt>>
    /\ read' = {}
    /\ UNCHANGED <<alive, asked, sigVars, pending, lock, quit_thread, requests>>

(* the polling function fails: the loop returns true *)
PollFailed ==
    /\ main = "loop"
    /\ PollFails
    /\ main' = "disable"
    /\ again' = TRUE
    /\ UNCHANGED <<read, loopVars, sigVars, pending, lock, quit_thread,
                   requests>>

(* signal_enable(false) *)
SignalDisable ==
    /\ Running
    /\ main = "disable"
    /\ lock = "free"
    /\ lock' = "main"
    /\ main' = "destroy"
    /\ UNCHANGED <<again, read, loopVars, sigVars, pending, quit_thread,
                   requests>>

LibDestroy ==
    /\ Running
    /\ main = "destroy"
    /\ alive' = FALSE
    /\ main' = IF again THEN "init" ELSE "cleanup"
    /\ UNCHANGED <<again, read, flags, stop_cnt, asked, sigVars, pending, lock,
                   quit_thread, requests>>

(* astra.exit() in Lua: asc_lib_exit destroys the library with signal      *)
(* handling still enabled, then calls exit()                               *)
LuaExit ==
    /\ main = "loop"
    /\ main' = "lib_exit"
    /\ UNCHANGED <<again, read, loopVars, sigVars, pending, lock, quit_thread,
                   requests>>

LibExit ==
    /\ Running
    /\ main = "lib_exit"
    /\ alive' = FALSE
    /\ main' = "exit"
    /\ UNCHANGED <<again, read, flags, stop_cnt, asked, sigVars, pending, lock,
                   quit_thread, requests>>

(* signal_cleanup, run by exit(): the lock is checked for double locking,  *)
(* so taking it while it is ours fails and the unlock releases it          *)
SignalCleanup ==
    /\ Running
    /\ main \in {"cleanup", "exit"}
    /\ lock \in {"free", "main"}
    /\ lock' = "free"
    /\ quit_thread' = TRUE
    /\ pending' = pending \cup {"SIGTERM"}
    /\ main' = "joining"
    /\ UNCHANGED <<again, read, loopVars, sigVars, requests>>

JoinSignalThread ==
    /\ Running
    /\ main = "joining"
    /\ sig = "exited"
    /\ main' = "stopped"
    /\ UNCHANGED <<again, read, loopVars, sigVars, pending, lock, quit_thread,
                   requests>>

-----------------------------------------------------------------------------
SignalThread == SigWait \/ SigLock \/ SigTimeout \/ SigAct \/ SigStore

MainThread ==
    \/ LibInit \/ SignalEnable \/ ReadFlags \/ ClearFlags \/ PollFailed
    \/ SignalDisable \/ LibDestroy \/ LuaExit \/ LibExit
    \/ SignalCleanup \/ JoinSignalThread
    \/ \E f \in LuaFlag : LuaRequest(f) \/ LuaStore(f)

LifecycleNext == MainThread \/ SignalThread \/ \E s \in Signal : SendSignal(s)

(***************************************************************************)
(* Fairness.  The main loop polls, and looks at its flags, again and again *)
(* (asc_event_core_loop returns after at most 100 ms); neither Lua nor a   *)
(* failing poll has to end it.  Both threads are scheduled; the signal     *)
(* thread waits for a mutex that is free again and again.                  *)
(***************************************************************************)
LifecycleFairness ==
    /\ WF_lifeVars(LibInit) /\ WF_lifeVars(SignalEnable)
    /\ WF_lifeVars(ReadFlags) /\ WF_lifeVars(ClearFlags)
    /\ WF_lifeVars(\E f \in LuaFlag : LuaStore(f))
    /\ WF_lifeVars(LibDestroy) /\ WF_lifeVars(LibExit)
    /\ SF_lifeVars(SignalDisable) /\ SF_lifeVars(SignalCleanup)
    /\ WF_lifeVars(JoinSignalThread)
    /\ WF_lifeVars(SigWait) /\ SF_lifeVars(SigLock) /\ WF_lifeVars(SigAct)
    /\ WF_lifeVars(SigStore)

LifecycleSpec == LifecycleInit /\ [][LifecycleNext]_lifeVars

LifecycleFairSpec == LifecycleSpec /\ LifecycleFairness

-----------------------------------------------------------------------------
(* Properties *)

(* The signal thread works on the main loop only while it exists: the lock *)
(* that main() holds around asc_lib_init and asc_lib_destroy keeps it      *)
(* away.  asc_lib_exit does not take it, so a signal that arrives between  *)
(* its asc_lib_destroy and the end of exit() is the one exception.         *)
ActsOnLiveLoop ==
    sig \in {"act", "store"} /\ signum # "SIGQUIT" =>
        alive \/ main \in {"exit", "crashed"}

(* The process is aborted for ignoring shutdown requests only after four   *)
(* of them were made to the same main loop: the first one, and three that  *)
(* found it unserved.                                                      *)
NoEarlyAbort == main = "exit_mainloop" => asked >= 4

(* Once the loop has returned or exit() was called, the process ends or    *)
(* the next instance starts: neither thread waits for the other forever.   *)
LeavingCompletes ==
    main \in {"disable", "cleanup", "exit"} ~> main \in {"init"} \cup Ended

(* A shutdown request ends the process: asc_main_loop_run's comment says   *)
(* it returns when a shutdown or reload is requested.                      *)
ShutdownEnds == asked > 0 ~> main \in Ended
=============================================================================
