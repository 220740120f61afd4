------------------------------- MODULE Workers -------------------------------
(***************************************************************************)
(* The main loop's job queue, the thread manager and the modules that own  *)
(* a background thread (core/mainloop.c, core/thread.c, core/init.c, and   *)
(* stream/file/input.c, whose pattern hwdev/dvbapi/ddci.c repeats).        *)
(*                                                                         *)
(* A client is one module instance.  Its thread fills a buffer and queues  *)
(* on_thread_read with the buffer as the owner; when the thread procedure  *)
(* returns, the wrapper queues on_thread_exit with the thread as owner.    *)
(* The main thread alternates between Lua (events, timers) and run_jobs.   *)
(* A client may be destroyed and created again: the same name then stands  *)
(* for memory that malloc() hands out a second time.                       *)
(***************************************************************************)
EXTENDS JobQueue, FiniteSets

CONSTANTS
    Client,
    NoClient,
    Orphan,       \* clients no Lua object owns, so that nothing joins their
                  \* thread before on_close does (tests/core/thread.c)
    MaxPending    \* read jobs of one client waiting at once: how far the
                  \* 5 ms throttle of the thread lets it run ahead

ASSUME ClientAssumption ==
    /\ IsFiniteSet(Client)
    /\ NoClient \notin Client
    /\ Orphan \subseteq Client
    /\ MaxPending \in Nat

VARIABLES
    mod,        \* mod[c]: the module instance is allocated
    thread,     \* thread[c]: "none" when mod->thread is NULL, else the
                \* position of the thread in its procedure
    run,        \* run[c]: mod->thread_run
    out,        \* out[c]: mod->thread_output is allocated
    jobs,       \* main_loop->jobs
    lost,       \* history: the ended threads whose report was flushed
    list,       \* thread_mgr->list
    wake_cnt,   \* main_loop->wake_cnt
    main,       \* where the main thread is, on_thread_close aside
    reading,    \* where main is "read": the client on_thread_read works for,
                \* NoClient once its buffer is freed below it
    closing,    \* the on_thread_close that is on top of the main thread's
                \* stack: where it is, its client, and whether module_destroy
                \* has called it
    callbacks   \* the end-of-file callbacks on that stack, innermost last:
                \* the client that module_destroy goes on to free when the
                \* callback returns, NoClient if a job has called it

vars == <<mod, thread, run, out, jobs, lost, list, wake_cnt, main, reading,
          closing, callbacks>>

ReadJob(c) == [owner |-> <<"output", c>>, proc |-> "on_thread_read", arg |-> c]
ExitJob(c) == [owner |-> <<"thread", c>>, proc |-> "on_thread_exit", arg |-> c]

NotClosing == [at |-> "none", c |-> NoClient, del |-> FALSE]

(* The main thread is at that place itself, not in a call below it. *)
At(where) == main = where /\ closing = NotClosing /\ callbacks = << >>

(* The places where Lua code may run and create or collect modules: an     *)
(* event or timer callback, a callback below module_stream_send, and an    *)
(* end-of-file callback.                                                   *)
InLua ==
    /\ closing = NotClosing
    /\ main \in {"lua", "read"} \/ callbacks # << >>

(* asc_job_queue, and whose reports are thrown away when it flushes *)
Queue(job) ==
    /\ jobs' = Queued(jobs, job)
    /\ lost' = lost \cup {c \in Client :
                   Overflows(jobs) /\ ExitJob(c) \in Jobs(jobs) \cup {job}}

TypeOK ==
    /\ mod \in [Client -> BOOLEAN]
    /\ thread \in [Client -> {"none", "loop", "block", "return", "dead"}]
    /\ run \in [Client -> BOOLEAN]
    /\ out \in [Client -> BOOLEAN]
    /\ Jobs(jobs) \subseteq {ReadJob(c) : c \in Client}
                                \cup {ExitJob(c) : c \in Client}
    /\ Len(jobs) <= JobQueueSize
    /\ lost \subseteq Client
    /\ Jobs(list) \subseteq Client
    /\ wake_cnt \in 0..Cardinality(Client)
    /\ main \in {"lua", "jobs", "read", "lua_close", "core_destroy", "stopped",
                 "crashed"}
    /\ reading \in Client \cup {NoClient}
    /\ closing \in [at  : {"none", "join", "prune"},
                    c   : Client \cup {NoClient},
                    del : BOOLEAN]
    /\ Jobs(callbacks) \subseteq Client \cup {NoClient}

Init ==
    /\ mod = [c \in Client |-> FALSE]
    /\ thread = [c \in Client |-> "none"]
    /\ run = [c \in Client |-> FALSE]
    /\ out = [c \in Client |-> FALSE]
    /\ jobs = << >>
    /\ lost = {}
    /\ list = << >>
    /\ wake_cnt = 0
    /\ main = "lua"
    /\ reading = NoClient
    /\ closing = NotClosing
    /\ callbacks = << >>

-----------------------------------------------------------------------------
(* Plausible bugs, each a changed form of an action below: the runs must   *)
(* notice every one of them.                                               *)

(* module_init forgets asc_wake_open *)
ModuleInitNoWake(c) ==
    /\ InLua /\ main # "lua_close" /\ ~mod[c]
    /\ mod' = [mod EXCEPT ![c] = TRUE]
    /\ run' = [run EXCEPT ![c] = TRUE]
    /\ out' = [out EXCEPT ![c] = TRUE]
    /\ list' = Append(list, c)
    /\ thread' = [thread EXCEPT ![c] = "loop"]
    /\ UNCHANGED <<jobs, lost, wake_cnt, main, reading, closing, callbacks>>

(* module_destroy frees the module and leaves the thread alone *)
ModuleDestroyNoJoin(c) ==
    /\ closing = NotClosing /\ (InLua \/ main = "lua_close")
    /\ mod[c] /\ c \notin Orphan \cup Jobs(callbacks)
    /\ mod' = [mod EXCEPT ![c] = FALSE]
    /\ UNCHANGED <<thread, run, out, jobs, lost, list, wake_cnt, main, reading,
                   closing, callbacks>>

(* asc_thread_join does not wait *)
JoinNoWait ==
    /\ closing.at = "join"
    /\ list' = Without(list, {closing.c})
    /\ jobs' = Pruned(jobs, ExitJob(closing.c).owner)
    /\ lost' = lost \ {closing.c}
    /\ thread' = [thread EXCEPT ![closing.c] = "none"]
    /\ wake_cnt' = wake_cnt - 1
    /\ closing' = [closing EXCEPT !.at = "prune"]
    /\ UNCHANGED <<mod, run, out, main, reading, callbacks>>

(* asc_thread_join leaves the report of the exit in the queue *)
JoinNoPrune ==
    /\ closing.at = "join" /\ thread[closing.c] = "dead"
    /\ list' = Without(list, {closing.c})
    /\ lost' = lost \ {closing.c}
    /\ thread' = [thread EXCEPT ![closing.c] = "none"]
    /\ wake_cnt' = wake_cnt - 1
    /\ closing' = [closing EXCEPT !.at = "prune"]
    /\ UNCHANGED <<mod, run, out, jobs, main, reading, callbacks>>

(* on_thread_close frees the buffer and leaves its jobs in the queue *)
PruneOutputNoPrune ==
    /\ closing.at = "prune"
    /\ out' = [out EXCEPT ![closing.c] = FALSE]
    /\ mod' = [mod EXCEPT ![closing.c] = @ /\ ~closing.del]
    /\ reading' = IF reading = closing.c THEN NoClient ELSE reading
    /\ closing' = NotClosing
    /\ UNCHANGED <<thread, run, jobs, lost, list, wake_cnt, main, callbacks>>

-----------------------------------------------------------------------------
(* The background thread *)

(* `while(mod->thread_run && mod->fd > 0)' lets another block through *)
ThreadBlock(c) ==
    /\ main # "crashed"
    /\ thread[c] = "loop"
    /\ run[c]
    /\ thread' = [thread EXCEPT ![c] = "block"]
    /\ UNCHANGED <<mod, run, out, jobs, lost, list, wake_cnt, main, reading,
                   closing, callbacks>>

(* A packet goes into the buffer; unless the last one is less than 5 ms    *)
(* old, on_thread_read is queued and the main thread woken.                *)
ThreadWrite(c) ==
    /\ main # "crashed"
    /\ thread[c] = "block"
    /\ \/ /\ Cardinality({i \in DOMAIN jobs : jobs[i] = ReadJob(c)}) < MaxPending
          /\ Queue(ReadJob(c))
       \/ UNCHANGED <<jobs, lost>>
    /\ thread' = [thread EXCEPT ![c] = "loop"]
    /\ UNCHANGED <<mod, run, out, list, wake_cnt, main, reading, closing, callbacks>>

(* The procedure returns: thread_run was cleared, the file could not be    *)
(* opened, or its end was reached.                                         *)
ThreadReturn(c) ==
    /\ main # "crashed"
    /\ thread[c] = "loop"
    /\ thread' = [thread EXCEPT ![c] = "return"]
    /\ UNCHANGED <<mod, run, out, jobs, lost, list, wake_cnt, main, reading,
                   closing, callbacks>>

(* thread_proc: the last thing the thread does is to report its exit *)
ThreadExit(c) ==
    /\ main # "crashed"
    /\ thread[c] = "return"
    /\ Queue(ExitJob(c))
    /\ thread' = [thread EXCEPT ![c] = "dead"]
    /\ UNCHANGED <<mod, run, out, list, wake_cnt, main, reading, closing, callbacks>>

Thread(c) ==
    ThreadBlock(c) \/ ThreadWrite(c) \/ ThreadReturn(c) \/ ThreadExit(c)

-----------------------------------------------------------------------------
(* Modules, created and collected by Lua on the main thread *)

(* What a finalizer creates while the Lua state closes is left out.        *)
ModuleInit(c) ==
    /\ InLua
    /\ main # "lua_close"
    /\ ~mod[c]
    /\ mod' = [mod EXCEPT ![c] = TRUE]
    /\ wake_cnt' = wake_cnt + 1
    /\ run' = [run EXCEPT ![c] = TRUE]
    /\ out' = [out EXCEPT ![c] = TRUE]
    /\ list' = Append(list, c)
    /\ thread' = [thread EXCEPT ![c] = "loop"]
    /\ UNCHANGED <<jobs, lost, main, reading, closing, callbacks>>

(* on_thread_close, first part: the flag is cleared, then, if the module   *)
(* has a thread, asc_thread_join waits for it.                             *)
OnThreadClose(c, del) ==
    /\ run' = [run EXCEPT ![c] = FALSE]
    /\ closing' = [at  |-> IF thread[c] # "none" THEN "join" ELSE "prune",
                   c   |-> c, del |-> del]

(* module_destroy, which Lua calls once: on_thread_close only while there  *)
(* is a thread.  The module may be the one whose on_thread_read is on the  *)
(* stack, when the callback that collects it runs below it.                *)
ModuleDestroy(c) ==
    /\ InLua \/ (main = "lua_close" /\ closing = NotClosing)
    /\ mod[c]
    /\ c \notin Orphan \cup Jobs(callbacks)
    /\ IF thread[c] # "none"
       THEN OnThreadClose(c, TRUE) /\ UNCHANGED mod
       ELSE mod' = [mod EXCEPT ![c] = FALSE] /\ UNCHANGED <<run, closing>>
    /\ UNCHANGED <<thread, out, jobs, lost, list, wake_cnt, main, reading, callbacks>>

(* asc_thread_join: pthread_join, then the thread leaves the list, its     *)
(* jobs are pruned and it is freed; the caller drops the wake up pipe.     *)
Join ==
    /\ closing.at = "join"
    /\ LET c == closing.c
       IN  /\ thread[c] = "dead"
           /\ list' = Without(list, {c})
           /\ jobs' = Pruned(jobs, ExitJob(c).owner)
           /\ lost' = lost \ {c}
           /\ thread' = [thread EXCEPT ![c] = "none"]
           /\ wake_cnt' = wake_cnt - 1
    /\ closing' = [closing EXCEPT !.at = "prune"]
    /\ UNCHANGED <<mod, run, out, main, reading, callbacks>>

(* The rest of on_thread_close: the jobs that name the buffer are pruned,  *)
(* then the buffer is freed.  If the thread has seen the end of the file,  *)
(* a callback in Lua follows, whoever closes; else, where module_destroy   *)
(* has called, it frees the module.                                        *)
PruneOutput ==
    /\ closing.at = "prune"
    /\ LET c == closing.c
       IN  /\ jobs' = IF out[c] THEN Pruned(jobs, ReadJob(c).owner) ELSE jobs
           /\ out' = [out EXCEPT ![c] = FALSE]
           /\ reading' = IF reading = c THEN NoClient ELSE reading
           /\ \/ /\ c \notin Orphan
                 /\ callbacks' = Append(callbacks,
                                        IF closing.del THEN c ELSE NoClient)
                 /\ UNCHANGED mod
              \/ /\ mod' = [mod EXCEPT ![c] = @ /\ ~closing.del]
                 /\ UNCHANGED callbacks
    /\ closing' = NotClosing
    /\ UNCHANGED <<thread, run, lost, list, wake_cnt, main>>

(* An end-of-file callback returns to on_thread_close, whose caller        *)
(* module_destroy, if that is the caller, frees the module.                *)
CallbackReturn ==
    /\ closing = NotClosing
    /\ callbacks # << >>
    /\ LET top == Len(callbacks)
       IN  /\ mod' = [c \in Client |-> mod[c] /\ c # callbacks[top]]
           /\ callbacks' = SubSeq(callbacks, 1, top - 1)
    /\ UNCHANGED <<thread, run, out, jobs, lost, list, wake_cnt, main, reading,
                   closing>>

-----------------------------------------------------------------------------
(* The main loop *)

(* The main thread goes on to another place. *)
Goto(where) ==
    /\ main' = where
    /\ UNCHANGED <<mod, thread, run, out, jobs, lost, list, wake_cnt, reading,
                   closing, callbacks>>

StartJobs == At("lua") /\ Goto("jobs")

(* run_jobs takes the first job and runs it with the mutex released *)
RunJob ==
    /\ At("jobs")
    /\ jobs # << >>
    /\ jobs' = Tail(jobs)
    /\ LET c == Head(jobs).arg
       IN  \/ /\ Head(jobs).proc = "on_thread_read"
              /\ reading' = c
              /\ main' = "read"
              /\ UNCHANGED <<run, closing>>
           \/ /\ Head(jobs).proc = "on_thread_exit"
              /\ OnThreadClose(c, c \in Orphan)
              /\ UNCHANGED <<main, reading>>
    /\ UNCHANGED <<mod, thread, out, lost, list, wake_cnt, callbacks>>

(* on_thread_read has emptied the buffer and returns to run_jobs *)
ReadReturn ==
    /\ At("read")
    /\ main' = "jobs"
    /\ reading' = NoClient
    /\ UNCHANGED <<mod, thread, run, out, jobs, lost, list, wake_cnt, closing,
                   callbacks>>

(* Or it goes on with module_stream_send or asc_thread_buffer_read on      *)
(* memory that was freed below it: undefined, the program may as well end. *)
ReadFreed == At("read") /\ reading = NoClient /\ Goto("crashed")

JobsDone == At("jobs") /\ jobs = << >> /\ Goto("lua")

(* asc_main_loop_run returns and asc_lib_destroy closes the Lua state *)
LuaClose == At("lua") /\ Goto("lua_close")

LuaClosed ==
    /\ At("lua_close")
    /\ \A c \in Client \ Orphan : ~mod[c]
    /\ Goto("core_destroy")

(* asc_thread_core_destroy: on_close of every thread still in the list *)
JoinStray ==
    /\ At("core_destroy")
    /\ list # << >>
    /\ OnThreadClose(Head(list), Head(list) \in Orphan)
    /\ UNCHANGED <<mod, thread, out, jobs, lost, list, wake_cnt, main, reading,
                   callbacks>>

(* asc_main_loop_destroy frees the queue along with the main loop *)
MainLoopDestroy ==
    /\ At("core_destroy")
    /\ list = << >>
    /\ jobs' = << >>
    /\ wake_cnt' = 0
    /\ main' = "stopped"
    /\ UNCHANGED <<mod, thread, run, out, lost, list, reading, closing, callbacks>>

(* main() starts over with asc_lib_init after a reload *)
Restart == At("stopped") /\ Goto("lua")

(* nothing follows a crash *)
Crashed == main = "crashed" /\ UNCHANGED vars

Main ==
    \/ \E c \in Client : ModuleInit(c) \/ ModuleDestroy(c)
    \/ Join \/ PruneOutput \/ CallbackReturn
    \/ StartJobs \/ RunJob \/ ReadReturn \/ ReadFreed \/ JobsDone
    \/ LuaClose \/ LuaClosed \/ JoinStray \/ MainLoopDestroy \/ Restart
    \/ Crashed

Next == Main \/ \E c \in Client : Thread(c)

(***************************************************************************)
(* Fairness.  A thread that was asked to stop leaves its loop, and a       *)
(* thread that has returned reaches the end of thread_proc, because the    *)
(* operating system schedules it.  The main thread finishes the call it is *)
(* in, and Lua code returns to the main loop, or from the callback it was  *)
(* called as, again and again: strong fairness, because it may do any      *)
(* number of other things first.                                           *)
(***************************************************************************)
Fairness ==
    /\ \A c \in Client :
         /\ WF_vars(ThreadWrite(c))
         /\ WF_vars(~run[c] /\ ThreadReturn(c))
         /\ WF_vars(ThreadExit(c))
    /\ WF_vars(Join) /\ WF_vars(PruneOutput) /\ WF_vars(RunJob)
    /\ WF_vars(JobsDone) /\ WF_vars(LuaClosed) /\ WF_vars(JoinStray)
    /\ WF_vars(MainLoopDestroy)
    /\ SF_vars(StartJobs) /\ SF_vars(ReadReturn)
    /\ \A depth \in 1..(Cardinality(Client) + 1) :
         SF_vars(Len(callbacks) = depth /\ CallbackReturn)
    /\ \A c \in Client : SF_vars(main = "lua_close" /\ ModuleDestroy(c))

Spec == Init /\ [][Next]_vars

FairSpec == Spec /\ Fairness

-----------------------------------------------------------------------------
(* Properties *)

(* A queued job names only memory that is still allocated: the thread of   *)
(* an exit job, the buffer and the module of a read job.  asc_job_prune in *)
(* asc_thread_join and in on_thread_close has to come after the thread's   *)
(* last chance to queue and before the free, and both run below callbacks  *)
(* of other modules' on_thread_close.                                      *)
RefsLive ==
    /\ \A c \in Client : ReadJob(c) \in Jobs(jobs) => mod[c] /\ out[c]
    /\ \A c \in Client : ExitJob(c) \in Jobs(jobs) => mod[c] /\ thread[c] = "dead"

(* The main thread waits for c, whose report is taken or will be pruned.   *)
Reaping(c) == closing.at = "join" /\ closing.c = c

(* No exit is reported twice, and none is lost but in a flush: a thread    *)
(* that is dead but not yet joined has exactly one on_thread_exit queued,  *)
(* unless the main thread is closing it already or asc_job_queue has       *)
(* thrown the report away since (mainloop.c:224-228); then it has none.    *)
(* A report must not outlive its thread either: the next thread of that    *)
(* memory would have two.                                                  *)
ExitReported ==
    \A c \in Client :
        thread[c] = "dead" /\ ~Reaping(c) =>
            Cardinality({i \in DOMAIN jobs : jobs[i] = ExitJob(c)})
                = IF c \in lost THEN 0 ELSE 1

(* Closing the Lua state joins every background thread a module owns (the  *)
(* comment in asc_lib_destroy says so): asc_thread_core_destroy finds none *)
(* whose module, the argument of on_close, is already freed, and none is   *)
(* left to write to the queue of the freed main loop.                      *)
NoStrayThread ==
    /\ main = "core_destroy" => \A c \in Jobs(list) : mod[c] /\ c \in Orphan
    /\ main = "stopped" => \A c \in Client : thread[c] = "none"

(* Every exited thread is joined in the end, though its report is queued   *)
(* behind other jobs and its module may be destroyed meanwhile.            *)
ExitedIsJoined ==
    \A c \in Client : thread[c] = "dead" ~> thread[c] = "none" \/ main = "crashed"

(* The thread manager keeps the promise of WorkerLife; what a flush throws *)
(* away it forgets.                                                        *)
life == [c \in Client |-> IF thread[c] = "none" THEN "idle"
                          ELSE IF thread[c] = "dead" THEN "finished"
                          ELSE "running"]

Life == INSTANCE WorkerLife WITH forgotten <- lost, up <- main # "crashed"

LifeSpec == Life!Spec
=============================================================================
