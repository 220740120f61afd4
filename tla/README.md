# Astra: models, checks and proofs

TLA+ models of the core of Astra, a program that receives, processes and sends
digital TV streams: one event loop in C, scripted in Lua, with modules that
form trees through which transport stream packets flow. The models are written
from the sources in `src/`; paths below are relative to it (`src/astra/...` is
`src/src/astra/...` in PROJECT.json).

- [Inventory](#inventory): the parts, their state, how they interact, what is hard
- [Modules](#modules): which module models what
- [Runs](#runs): what TLC checks, bounds and fairness
- [Findings](#findings)
- [Proofs](#proofs)
- [Plan](#plan): what comes next
- [Not modelled](#not-modelled)

## Inventory

Nearly all of Astra runs on one thread, in `asc_main_loop_run`: poll events and
call their handlers, serve the flags, run queued jobs, fire due timers, compute
how long the next poll may sleep. Handlers are C functions or Lua code below
them; any of them may create or destroy modules, events and timers, so each of
the loops that call them is re-entered, and this is where most of the hard
behaviour is. Other threads exist in a few places: the signal thread, and the
background threads of modules that block on a file or a device.

| component | state | operations | talks to | hard |
|---|---|---|---|---|
| main loop (`core/mainloop.c`) | `flags`, `stop_cnt`, job array, wake up pipe | run; shutdown, reload, sighup; queue, prune, run jobs | events, timers, threads, Lua | flags shared with the signal thread without a lock; overflow of the queue; jobs that name memory |
| threads (`core/thread.c`) | list of threads, byte ring | init, join, exit report | jobs, owner modules | report, join and destruction of the owner in any order |
| init and main (`core/init.c`, `main/main.c`) | library alive or not | init, destroy, exit, restart | all | order of destruction; exit in the middle of a callback |
| signals (`main/sig-posix.c`) | `signal_lock`, `quit_thread` | setup, enable, cleanup, thread | main loop flags | five second timeout; exit joins the thread |
| timers (`core/timer.c`) | list of timers | init, one shot, destroy, walk | every module | callbacks change the list during the walk; time passes meanwhile |
| events (`core/event-*.c`) | list of events, `is_changed`, batch | init, set, close, dispatch | sockets, pipes, wake up | a batch names events that callbacks have closed |
| stream tree (`luaapi/stream.c`) | parents, children, pid counters | init, destroy, attach, join, leave, send | all streaming modules | counters along a tree that is moved and cut while requests climb it |
| sync buffer (`mpegts/sync.c`) | ring of packets with three positions, block count, PCR state | push, loop, reset, resize | pipe, timers | wrap around, growth and shrinking, PCR discontinuities, callbacks in the middle |
| child processes (`core/child.c`, `core/spawn.c`) | three pipes, kill ticks | init, send, close, destroy | events, timers, pipe | a child that dies, hangs, ignores the signal or is closed twice |
| pipe (`stream/pipe/pipe.c`) | child, restart timer, `can_send`, `sync_feed` | start, restart, feed, send, destroy | child, sync buffer | late reports and restarts; reading and writing switched off and on by callbacks of others |
| softcam client (`stream/softcam/cam`) | connection status, timeout, packet and queue | connect, login, send, receive, reconnect; attach, detach | sockets, timers, decrypt | a timeout against a late answer; answers without names; owners of queued packets |
| decrypt (`stream/softcam/decrypt.c`) | tables, cam, ECM streams, storage, batch, words | read tables and ECMs, ask, take answers, collect, descramble, send | cam, stream tree | words that arrive late or twice; pointers from the batch into a ring; addresses as names of requests |
| channels (`scripts/common/stream.lua`) | inputs, active input, delay, clients | start, switch and kill inputs; clients join and leave | analyze, transmit, HTTP | reports of several inputs in any order; reports that are not kept |
| shared modules (`scripts/common/base.lua`) | instances by address, their users | make and kill inputs | receivers, softcams | counting by hand on every path |
| HTTP server (`stream/http/server.c`, `modules/upstream.c`) | clients: status, handlers, buffer | accept, read, answer, attach, send, close | sockets, stream tree, Lua callbacks | two handlers per socket, changed by the request's course and by packets; close at any point |
| HTTP client (`stream/http/request.c`) | socket, status, timer | connect, ask, parse, stream, close | sockets, timers, Lua callbacks | callbacks that close the request that calls them; a timer that is dropped early |
| MPEG-TS parsing, utilities, hardware, Lua bindings | parser state | | | data formats, devices |

What makes each component correct: a thread is joined once, after it has ended,
and no job outlives what it names; a request to stop is served; the lists that
are walked while they change are walked completely and without touching freed
memory; a deadline is not slept over; a pid counter is the number of requests it
stands for and a module receives a pid exactly when something below it wants it;
the sync buffer is a queue; an answer of a card server goes to the request it
belongs to, and a packet is opened with the word of its period; a child process
is replaced only when it is gone or was given up; the best input that works
feeds the channel, and what is shared is freed after its last user and not
before.

## Modules

| module | models | state |
|---|---|---|
| `JobQueue` | `asc_job_queue`, `asc_job_prune` | operators on the queue, used by `Workers` |
| `Workers` | background threads, their owners (`stream/file/input.c`; `hwdev/dvbapi/ddci.c` has the same pattern), the job queue, destruction and restart of the instance | `thread[c]` is where the thread is in its procedure, `main` where the main thread is, `closing` and `callbacks` the calls of `on_thread_close` on its stack |
| `WorkerLife` | abstract: what the thread manager promises | `life[c]`; `forgotten`: ended threads whose report was flushed |
| `Lifecycle` | `main()`, the signal thread, the flags | `main`, `sig`: positions of the two threads; `flags`, `lock`, `stop_cnt` as in the code |
| `AscList` | `core/list.c`: an array with a cursor | a record; used by `TimerCore`, `EventCore` |
| `TimerCore` | `core/timer.c` | `timer_list`, `now`, `nearest` as in the code; `this` is the pointer that the walk keeps beside the list's cursor |
| `EventCore` | `core/event-epoll.c` | `event_list`, `is_changed`; `batch` is what is left of epoll's output |
| `LoopCore` | one turn of the main loop: composes the two above with jobs | `turn` |
| `StreamTree` | `luaapi/stream.c` | `parent`, `children`, `pid_list` as in the code; `call`, `task`, `saved` are the C stack |
| `SyncRing` | the ring in `mpegts/sync.c` and its resizing | operators on a record |
| `TsSync` | push, loop, seek and reset of the same file | `ring` and the fields of `ts_sync_t`; `pc` where the loop is |
| `PacketQueue` | abstract: what the sync buffer promises | `queue`, `sent` |
| `Newcamd` | `cam/newcamd.c` with `cam.c` and `module_cam.h`: one cam, its decrypt modules and their packets | `status`, `packet`, `queue`, `timeout` as in the code; `asked` is what the server owes, `lost` the timers nothing refers to, `told` who knows that the cam is ready |
| `Descrambler` | `decrypt.c` for one ECM pid: tables, ECMs, answers, storage, batch, words | `ca` is a `ca_stream_t` at an address; `storage`, `dsc_count` as in the code |
| `Pipe` | `pipe.c` and the part of `child.c` below it | `child`, `ticks`, `feed`, `can_send` as in the code; `proc` is the process, `stray` one that was given up; `due` are the restart timers that are armed, `restart` the pointer to one |
| `Failover` | `start_reserve`, `on_analyze_channel`, the start and end of inputs and clients in `stream.lua`; shared receivers and CAM names in `base.lua` | `running`, `on_air`, `active`, `delay`, `upstream`, `clients`, `users` |
| `HttpInput` | `request.c` for a stream, and `init_input_module.http`, which makes the request again | `receiver[s]`: request, timer, retry timer |
| `HttpServer` | `server.c` with the route of `upstream.c` | `conn[c]`: status, the two handlers, buffer |
| `Channel` | composes the last three: the callbacks of one are the actions of another | `others`: clients on other servers |
| `MC*` | instances for TLC: symmetry and a description | |
| `*_proofs` | theorems | |

The modules whose properties are checked list plausible bugs that the runs were
tried on (`...NoWait`, `...KeepCount` and so on): changed forms of an action
that no specification uses, marked "Changed form, not used" in the later
modules. For every property of every passing run there is one that TLC shows to
violate it.

How a step is cut. A step of the main thread reaches from one point where
something else can happen to the next: a callback, a mutex, a wait, or another
thread's access to the same memory. `Workers` makes a critical section of
`job_mutex` one step, and the three parts of `on_thread_close`: the wait for the
thread, the prune, and the end-of-file callback, below which Lua may create and
collect other modules, and so call `on_thread_close` again; `Lifecycle` splits
`flags |= x` in a load and a store, for Lua's requests too, because nothing
protects it; `StreamTree` makes one invocation of `module_demux_join` a step,
because the tree can be observed (and is, by the invariant `Balanced`) between
two of them; `TsSync` cuts `ts_sync_loop` at `on_ready` and at every packet
handed to `on_ts`. In `Newcamd`, `Descrambler`, `Pipe`, `HttpServer` and
`HttpInput` a step is one callback of a socket, a pipe, a timer or a stream; in
`Failover` it is one call from C into Lua, with all that the Lua function does
and the collection of garbage that follows a kill.

How parts are composed. `LoopCore` and `Channel` are conjunctions: an action of
one part with an action of the other, or with its variables unchanged. A
request that the HTTP server hands to Lua is `Join` of `Failover` in the same
step (`OnRequest`); the input that `Join` starts is a user of its receiver, and
the first user makes an HTTP request in the same step (`Receivers`); an analyzer
finds an input good when its stream is and the request has become a stream
(`Good`); a packet reaches the clients only through the input the channel is
attached to (`Packet`). These are the calls the code makes.

What is abstracted. In `Workers`, the contents of buffers and the throttle of
5 ms, which becomes a bound on the number of pending jobs; the use of freed memory
by `on_thread_read` is a choice between no effect and a crash; in `LoopCore`, time
in milliseconds that passes at any point; in `StreamTree`, modules with
callbacks of their own (`Opaque`) do not add to their counters and end the
climb; in `TsSync`, bitrates: whether time is up is a choice, and a PCR is a
number modulo a small range whose step is valid if it is one; in `Newcamd`,
encryption and message contents: a message is what it is for, or garbled; in
`Descrambler`, a word is the number of the period it opens, and the cam has sent
one request and keeps the latest of each `ca_stream` waiting; in `Pipe`, the
contents of the sync buffer: it may call whenever the code lets it; in
`HttpServer` and `HttpInput`, parsing is a choice of outcomes; in `Failover`, a
stream is good or bad as the world likes.

Memory that is freed and allocated again is modelled by the name of the slot:
a client, timer, event or module that was destroyed can be created again and
then has the same name, as malloc might give it the same address. So a stale
reference is caught although the name is in use again.

## Runs

| run | instance | states | properties |
|---|---|---|---|
| `workers` | 2 clients, one only joined by its exit report; queue of 4; 2 pending reads each | 10,553 | `TypeOK`, `RefsLive`, `ExitReported`, `NoStrayThread`, `LifeSpec` |

| `workers_overflow` | 2 clients, queue of 2 | | `ExitedIsJoined` is violated |
| `lifecycle` | 4 requests: signals and Lua | 68,033 | `LifecycleTypeOK`, `ActsOnLiveLoop`, `NoEarlyAbort`, `LeavingCompletes` |
| `lifecycle_lost` | 2 requests: SIGTERM and SIGHUP; polling does not fail | | `ShutdownEnds` is violated |
| `loop_core` | 2 timers with delays 0 and 1, 2 events with 2 kinds of callbacks, batches of up to 2, time 0 to 2 | 837,198 | `TypeOK`, `WalkOnItsTimer`, `NoTimerMissed`, `NoOversleep`, `NoStaleEvent` |
| `stream_tree` | 4 modules: a source, two forwarding, one opaque; 1 pid | 30,231 | `TypeOK`, `Balanced`, `NoDoubleLeave`, `PidsFollowDemand` |
| `ts_sync` | ring of 2 to 8 slots, 2 pids, up to 3 packets held | 181,734 | `TypeOK`, `BlocksHeld`, `OneBlockPerPace`, `QueueSpec` |
| `newcamd` | 2 decrypt modules, queue of 2, 1 lost timer | 14,790 | `TypeOK`, `Watched`, `AnswerFits`, `ReadyIsKnown`, `RequestEnds` |
| `descrambler` | 4 crypto periods, batch of 2, storage of 5, 2 addresses | 808,394 | `TypeOK`, `HeldUntilOpened`, `RightWord` |
| `pipe` | 3 ticks, reads of 2, wants of up to 3, with and without each option | 1,062 | `TypeOK`, `OneProcess`, `OwnTimer`, `Woken`, `Settles` |

| `pipe_restart` | the same | | `AutoRestart` is violated |
| `failover` | 3 inputs, two of them on one HTTP receiver, delays of 1 and 2, one client of the server and one elsewhere, buffer of 2 packets | 225,192 | `TypeOK`, `BestFeeds`, `Counted`, `NoStall`, `Recovers` |

Why these bounds.

- `workers`: two clients are what it takes for one to be destroyed inside a job
  of the other, and one must be an orphan for `asc_thread_core_destroy` to have
  something to do. Two reads and one exit report of each are six jobs: a queue
  of 4 fills up, is flushed at some times and holds everything at others. The
  depth of callbacks in each other is bounded by the clients, of which a
  callback frees each, and one job.
- `lifecycle`: four requests reach the third ignored shutdown, which aborts. A
  restart does not count as a request, so instances come and go without bound.
  `lifecycle_lost` takes away whatever else could lose a shutdown: there are no
  requests from Lua (`LuaAsks`), and polling does not fail (`PollFails`), which
  restarts the program by design. What is left is the race.
- `loop_core`: with two slots, a callback can destroy the other timer, destroy
  its own, and create one in a freed slot while the walk stands on it. Time 2
  is the longest sleep.
- `stream_tree`: four modules give a chain of source, two forwarding modules
  and a leaf, so that a module in the middle is moved or destroyed. One pid:
  pids do not interact, except in the order in which a loop visits them, which
  the model leaves open; the proofs hold for any set of pids.
- `ts_sync`: three packets held reach every combination of wrap around and
  resizing of rings of 2, 4 and 8 slots, and a block with a packet between its
  two PCRs.

- `newcamd`: two decrypt modules are what it takes for one to attach while the
  other waits, to replace the other's request in the queue, and to leave while
  the other's request is out. The queue holds an ECM and an EMM behind the
  current packet. One lost timer already fires at every point; a second adds
  nothing it does not do.
- `descrambler`: a word is replaced by the word after next, of the same
  parity; four periods let two of each parity follow each other, with the
  answers to two ECMs on their way. Five slots hold two batches and one packet
  more, so the ring wraps around. With two addresses a freed `ca_stream_t` and a
  new one may have the same name or not.
- `pipe`: a want of three against reads of two lets the feed end inside a read,
  at its end, and at zero; three ticks pass the limit. The model is small
  because contents are not in it.
- `failover`: three inputs give a middle one, so that stopping all that come
  after the best differs from stopping the next. Two on one receiver start and
  stop in every order. A delay of two (three in the code for a new channel) is
  counted down by reports of different inputs. One client of the server, with
  one elsewhere, is the first, not the first, the last and not the last to come
  and go. A buffer of two packets, one of which makes a socket busy, is empty,
  busy and overflowing.

Deadlock is checked in all passing runs but three. `Pipe` ends when the module is
destroyed or the program has crashed; `Lifecycle` ends
when the process does, and `LoopCore` when its clock reaches the bound or the
instance was destroyed.

Fairness is stated where liveness is checked.

- `Workers`: the operating system schedules threads, so a thread that was told
  to stop, or has returned, gets to its end (weak fairness). A thread that
  nobody told to stop need never return. The main thread finishes the call it is
  in; Lua code returns to the main loop, and from a callback, again and again,
  but may do any number of other things first, hence strong fairness of the
  return. For callbacks inside each other it is stated for each depth: the
  return of inner ones says nothing about the outer one.
- `Lifecycle`: both threads run. The main loop looks at its flags again and
  again, because polling returns after at most 100 ms; nothing requires Lua to
  call `exit` or polling to fail. The lock that is free again and again is
  taken in the end (strong fairness), which the wait of at most five seconds and
  the scheduler give.

- `Newcamd`: the timer fires (weak fairness of `Timeout`) and a socket that can
  be written calls its handler (`Ready`). Nothing is assumed of the server:
  it may never answer.
- `Pipe`: the ticks of the kill timer, and of the restart timer, go on; a start
  succeeds in the end (`Restart` with a child). The process may ignore the
  signal for ever, and nothing makes it read, write or exit.
- `Channel`: analyzers report (weak fairness of `Analyze`, written with its
  guard `Due` because TLC evaluates `ENABLED` slowly), and the timers of
  requests fire. The world is assumed to be good where a stream is called
  good: a good server's name is resolved, it takes the connection and
  answers at least once if it is tried for ever (strong fairness), it goes on
  with an answer it has begun, and its stream does not end. That it goes on
  must be assumed, because no timer of the code watches over it.

What the properties say, in the order of the runs:

- `RefsLive`, `ExitReported`, `NoStrayThread`: no job outlives its thread,
  buffer or module; one exit report per ended thread, or none if a flush took
  it; nothing runs after the instance was destroyed. That a flush does take
  reports is `ExitedIsJoined`, which is violated. `LifeSpec`: `Workers`
  implements `WorkerLife` (`life` is the mapping), liveness included: an ended
  thread is reaped, unless a flush made the main loop forget it (`forgotten`) or
  the program has crashed.
- `ActsOnLiveLoop`: the signal thread never touches a freed main loop, with
  one exception that the comment names, `asc_lib_exit`. `NoEarlyAbort`,
  `LeavingCompletes`: counting ignored requests is sound, and neither thread
  waits for the other forever.
- `WalkOnItsTimer`, `NoTimerMissed`, `NoOversleep`, `NoStaleEvent`: the two
  loops survive whatever their callbacks do. The walk over the timers has two
  positions, the pointer it has read before the callback (`this`, `timer.c:90`)
  and the cursor, which the callback moves; afterwards it frees the one and
  removes the other (`timer.c:107-108`). `WalkOnItsTimer` says that they are the
  same timer.
- `Balanced` is the equation that explains the tree at every step;
  `PidsFollowDemand` is what users of the tree rely on, at rest.
- `BlocksHeld`, `OneBlockPerPace`: the positions stay in
  order, the level never promises blocks that are not held, and what is sent
  at one pace is one block. `QueueSpec`: `TsSync` implements `PacketQueue`.
- `Watched`: a timer guards every state in which the cam client waits.
  `AnswerFits`: though answers carry no name, the next one belongs to the
  current packet or none is owed. `ReadyIsKnown`: a decrypt module knows that
  the cam is ready exactly when it is. `RequestEnds`: every request is
  answered, replaced or dropped in the end.
- `HeldUntilOpened`: no packet leaves before its batch is descrambled, with the
  exception it names. `RightWord`: a packet that comes in time, to a slot of its
  own, is opened once at most and with the word of its period, however late or
  often answers come; a clear one is left alone.
- `OneProcess`: a process has company only if the module has given one up,
  because a call that should look at it or end it has failed (`gave_up`); the
  restart timer is armed when the child is freed and not before. That a process
  may be given up, and another started beside it, is an observation below.
  `OwnTimer`: `mod->restart` is NULL or the one timer that is armed, so
  `asc_timer_destroy` never gets one that the walk has freed. `Woken`: a live
  child is always read and written again. `Settles`: a closing ends.
- `BestFeeds`: the first input known to be on air feeds the channel and nothing
  runs after it. `Counted`: receivers, clients and attachments are counted
  exactly on every way in and out. `NoStall`: a client's buffer is being
  emptied when it should be, and a receiver in use has a request or a timer
  for the next one, never both or neither. `Recovers`: when the streams settle
  and one is good, a good one feeds the channel in the end, through failed
  requests, redirections, delays and reports that are not kept.

## Findings

- A flush of the job queue loses exit reports (`workers_overflow`).
  `core/thread.c:80` says of the report "this is queued to main loop when
  thread exits"; `core/mainloop.c:226` empties the whole queue when it is
  full. A thread whose report is lost stays in the list, unjoined, until its
  module is destroyed. In the code it takes 256 jobs that wait at once, more
  than a second of a blocked main thread with one file input.
- A request to shut down can be lost (`lifecycle_lost`).
  `core/mainloop.c:304` says the loop returns "when a shutdown or reload is
  requested". `flags` is read at line 318 and cleared at 319 by one thread and
  updated at 385 by another without a lock. In the trace a SIGHUP makes the flags
  differ from zero; a SIGTERM that arrives between the read and the clearing
  is erased.
- The restart option of a pipe does not keep its child alive (`pipe_restart`).
  `stream/pipe/pipe.c:31` says of the option "seconds before auto restart (0 to
  disable)". `on_sync_ready` (`pipe.c:255`) switches on the reading of
  `mod->child` without a look at it. The trace shows the buffer's call after a
  restart that failed, when the pointer is NULL. The model also has the call
  while a child is being closed, when its event is gone; the trace does not
  take that way.

What was met while modelling, without a run of its own:

- `main.c:139`: a shutdown that is stored after the loop has returned for a reload
  is freed with the main loop (modelled, not shown by `lifecycle_lost`).
- `input.c:376`: `on_thread_read` goes on with its module after
  `module_stream_send`, below which Lua code may have collected it (modelled:
  `ReadFreed`).
- `newcamd.c`: a decrypt module that attaches during the wait for a retry
  overwrites the timer that is set (`:600`): the lost one is periodic and tears
  down later connections that work (modelled: `lost`). The reply to a keepalive
  arms the response timeout, though nothing answers a reply. Sending in the
  middle of a message drops its length, and the rest is read as another message
  (modelled: `garbled`). A disconnect without a socket leaves the retry timer
  armed (`:188`). `on_newcamd_ready` reads the program number of a decrypt
  module that may be gone (`:250`).
- `decrypt.c`: a second answer that comes before the next batch makes the first
  one's new word unnamed, and the word is lost for a period. `decrypt` at a change
  of parity counts the packet that causes it as done (the exception in
  `HeldUntilOpened`). That packet may be sent before it is opened, and the batch
  keeps the pointer to its slot. If the ring comes around to the slot first, the
  batch opens what is there now: a clear packet, or a packet that is in the batch
  a second time (modelled: slots below 1 in `batch`; `RightWord` leaves such a
  packet out with `in_time`).
- `child.c:420-422`, `431-436`, `450-454`: if a process cannot be waited for, or
  cannot be sent a signal, it is left to itself, and `on_child_close`
  (`pipe.c:223-230`) schedules a restart all the same: "failed to terminate
  process; restarting". The next process may run beside it (modelled: `stray`,
  `gave_up`). The code chooses so knowingly ("hope it dies on its own").
- `pipe.c`: `can_send` stays set while a child is closing, so packets of that
  time vanish, though `pipe.c:33` says of the option bypass "pass through TS when
  child is unavailable". A want of zero (`sync.c:690`) means reading without
  limit.
- `upstream.c:142`: when the first packets fill the buffer before the header of
  the answer was sent, the buffer's handler replaces the header's, which is
  never sent, and the socket is not read (modelled; it takes a small
  `buffer_fill`).
- `request.c:417`: the timer is dropped with the first byte of an answer, so a
  server that falls silent in its header or body hangs the input for ever;
  `request.c:40` speaks of a "request timeout". A name that is not resolved
  leaves a socket without events, and the request waits for the timer.
- `base.lua`: a redirection changes the address for all later attempts
  (`:763`), and one to anything but an HTTP URL ends in a Lua error with no
  request and no timer. `init_input` takes the CAM's name out of the
  configuration (`:588`), so an input that is started again has no descrambler
  (modelled: `cam`, `clear`).
- `stream.lua`: `kill_channel` clears the inputs before it closes the HTTP
  clients, whose callbacks then find none; killing an HTTP output closes the
  clients of every channel of the server. Neither is modelled.

## Proofs

TLAPS checks, for all values of the constants, the type invariant and every
safety invariant of every component's specification. The inductive invariant of
each module is called `IInv` there (`LifecycleInv` for `Lifecycle`), and each
action has a lemma that it keeps it. What the proofs assume are the constants'
assumptions (`ASSUME` in the modules), which TLC evaluates on every run.

- `StreamTree_proofs`: `TypeCorrect`, `CountersBalanced`, `LeavesAreMatched`,
  `LinksAreLive`, `DemandReachesTop`: `Spec => []TypeOK`, `[]Balanced`,
  `[]NoDoubleLeave`, `[]TreeLinked`, `[]PidsFollowDemand`. The assumption is
  `StreamAssumption`: finitely many modules,
  whose number together with the requests a module makes for itself stays
  below the range of a counter (256 in the code).

  None of the first four is inductive alone. That a leave finds its counter
  positive (`NoDoubleLeave`) follows from `Balanced` at the module that is
  asked, given that the child that forwarded it was counted; that `Balanced`
  survives the switch of parents needs the moved module's counters to be
  zero and the calls of the move to be above it; this needs the tree to be
  acyclic. The invariant is the conjunction of `TypeOK`, `TreeLinked`,
  `Balanced`, `NoDoubleLeave`, `Acyclic`, `CallAbove` and `TaskFits`. `TreeLinked`
  is checked by the proof alone. That no
  counter wraps around is not assumed:
  it follows from `Balanced` and the bound on demand (`DemandBound`).
  `PidsFollowDemand` then follows at rest: upwards, because a child that wants a
  pid is counted by its parent; downwards, because a counter that nobody's own
  request explains has a child that wants the pid one level lower, and an
  acyclic tree has fewer levels than modules (`LevelsEnd`).

- `TsSync_proofs`: `TypesOK`, `LevelIsHeld`, `BlocksAreWhole`,
  `ImplementsQueue`: `Spec => []TypeOK`, `[]BlocksHeld`, `[]OneBlockPerPace` and
  `Spec => QueueSpec`, the refinement of `PacketQueue`, for any sizes, pids,
  levels and pushes (`RingAssumption`; `SyncAssumption`: `Plain` carries no PCR,
  `Junk` is not a packet, `NoPid` is not one of the pids, of which there are
  some, and `2 <= Low <= Enough`, as `ts_sync_set_blocks` ensures).

  The first part is about `SyncRing` alone: what `Put`, `Drop` and a moved
  lookahead do to the contents of a ring that is wrapped around anyhow
  (`PutAppends`, `CutTakes`), and that growing and shrinking keep contents and
  lookahead (`MovedKeepsPackets`, `ResizedKeepsPackets`, `WithRoomKeeps`).
  `ResizedKeepsPackets` needs `filled < new_size`; the code checks
  `filled <= new_size` (`sync.c:271`), but every call it makes has a slot to
  spare.

  `IInv` says that the lookahead is between tail and head with a packet in
  every slot between them (`Ordered`), that `num_blocks` is at most the PCRs of
  one pid ahead of the lookahead, and one more while a block is being sent
  (`Blocks`), that with a pace what is before the lookahead is the rest of one
  block, and without one there is nothing before it (`Pace`), and that nothing is
  sent from a buffer that was not filled, and nothing counted without a pid
  while it fills (`Phase`).
  `BlocksHeld` alone does not survive a push: whether the new packets count for
  the same pid as the old level is what `Phase` says. `OneBlockPerPace` does not
  survive a seek without `Ordered`. Each step of `TsSync` then is a step of the
  queue or a stutter (`StepMaps`); what a seek drops ends at a packet with a PCR
  (`Dropped`), which is what `Trimmed` allows.

- `Workers_proofs`: `TypesOK`, `JobsNameTheLiving`, `NoThreadOutlives`,
  `ImplementsLife`: `Spec => []TypeOK`, `[]RefsLive`, `[]NoStrayThread`, and the
  safety part of `LifeSpec` (initial states and steps), for any set of clients
  and a queue of any size, one that overflows included (`ClientAssumption`,
  `JobQueueSizeAssumption`). `RefsLive` is not inductive: that no read job is
  left when `module_destroy` frees a module without a thread needs the buffer to
  be gone by then (`Owned`), and that nothing frees the module under
  `on_thread_close` needs to know what that call works on, which thread it has
  waited for (`Closes`), and which modules the callbacks on the stack are about
  to free (`Frees`). Below such a callback any other module may be closed, and
  the one whose buffer is being read (`Reads`). That the list holds exactly the
  clients with a thread (`Listed`) gives `NoStrayThread`, with `Stops`: once Lua
  is closed only orphans are left. What `asc_job_prune` leaves of a queue of any
  length is `WithoutLeaves`.

  `ExitsAreReported`: `Spec => []ExitReported`, for a queue of any size, with
  flushes. `Counted` adds to `IInv` how many exit jobs are queued for each
  client whose thread has ended and is not being joined: one, or none if the
  report was flushed. A flush empties the queue and `lost` takes in exactly
  the clients that were in it (`FlushCounts`); what pruning takes is one
  client's jobs and no other's (`WithoutTimes`, `PrunedTimes`).

- `LoopCore_proofs`: `TypesOK`, `WalkStaysOnTimer`, `WalkMissesNone`,
  `SleepsNoLonger`, `BatchIsFresh`: `[]TypeOK`, `[]WalkOnItsTimer`,
  `[]NoTimerMissed`, `[]NoOversleep`, `[]NoStaleEvent`, for any timers, events,
  delays and batches (`TimerAssumption`, `EventAssumption`). `WalkOnItsTimer`
  needs that the list holds no timer twice (`Good`), or else the cursor, which
  moves when a callback removes what is before it, would not stay on `this`. The
  walk needs that every timer that is set is in the list once (`SetIn`), and
  that whatever the cursor has passed is neither due nor earlier than the
  nearest deadline found (`Passed`), which must survive removal before and
  behind the cursor. The dispatch needs that what is left of a batch names
  existing events, or `is_changed` is set and the rest is thrown away
  (`Reliable`). The lemmas on lists say what `core/list.c` does to the cursor.

  The module's second half is about `Lifecycle`, the other part of the main
  loop: `LifecycleTypesOK`, `SignalsActOnLiveLoop`, `AbortsAtFourth`:
  `LifecycleSpec => []LifecycleTypeOK`, `[]ActsOnLiveLoop`, `[]NoEarlyAbort`,
  for any set of signals and any number of requests (`WorldAssumption`). The
  argument is who owns `signal_lock` at each pair of positions of the two
  threads (`LockHeld`), when the main loop is allocated (`LoopAlive`), and that
  a counted request stands on an earlier one (`RequestsCounted`), which survives
  updates of the flags that are lost.

- `Newcamd_proofs`: `TypesOK`, `SilenceIsWatched`, `AnswersFit`,
  `ReadinessIsKnown`: `[]TypeOK`, `[]Watched`, `[]AnswerFits`, `[]ReadyIsKnown`,
  for any set of decrypt modules and any queue (`NewcamdAssumption`). The
  invariant adds that no packet is in two places (`Packets`), that the status
  fits the socket (`Phase`) and that packets exist only in use (`Quiet`).
  `FreshIdIsFresh` is a counting argument: among more numbers than packets one
  is free. `FlushedLeaves` says what `module_cam_queue_flush` leaves.

- `Descrambler_proofs`: `TypeCorrect`, `HeldBack`, `OpenedRight`: `[]TypeOK`,
  `[]HeldUntilOpened`, `[]RightWord`, for any number of periods, any sizes of
  batch and storage, and any addresses (`DescramblerAssumption`). `RightWord`
  speaks of packets that are open; to know with which word the next ones will be
  opened, the invariant says of a packet that waits (`Waits`) that it has the
  parity of the batch and, if it came in time, that the word in use for that
  parity is its own and nothing has opened it yet. An answer may bring the word
  after next at any time. It is put aside in `new_key` and comes into use only
  after a batch has been opened; so the word in use does not change under a
  packet that waits. `Sound` says this of a state inside `on_ts`, between
  its collecting, opening and sending, together with where the batch's pointers
  may be: from the packet at `dsc_count` on, or at a slot below the storage that
  was sent, and a packet that comes to such a slot is not one of those the
  property speaks of. `HeldUntilOpened` is the part of `Sound` about
  `dsc_count`. `Roomy` says that after every step there is room for one packet
  more. When the cam is lost (`Lost`), what is left of the storage is thrown
  away before a new one collects.

- `Pipe_proofs`: `TypesOK`, `OneProcessOnly`, `TimerIsOwned`, `ChildIsWoken`:
  `[]TypeOK`, `[]OneProcess`, `[]OwnTimer`, `[]Woken`, for all sizes and any
  number of ticks (`PipeAssumption`). That a restart finds no process to leave
  behind needs the timer to be armed only while there is no child
  (`OneProcess`), and that it is armed once needs `OwnTimer`. A request to the
  sync buffer may outlive a start that failed (`Remembered`).

- `Channel_proofs`: `TypesOK`, `BestInputFeeds`, `AllAreCounted`,
  `NothingStalls`: `[]TypeOK`, `[]BestFeeds`, `[]Counted`, `[]NoStall`, for any
  list of inputs, any addresses they share, and any clients
  (`FailoverAssumption`, `HttpAssumption`, `ChannelAssumption`). `BestFeeds`
  needs that reports are kept of running inputs only (`OnlyRunning`); `Counted`
  that each receiver's users are the running inputs on it, which start and stop
  by whole ranges, and that a listed connection is a client (`ClientsInv`);
  `NoStall` what a connection may hold before it is attached (`Served`) and
  that a receiver in use has a request or waits for the next (`InUse`).

Only model-checked is everything with fairness, which is out of the prover's
reach: the liveness of `LifeSpec`, `LeavingCompletes`, `RequestEnds`, `Settles`,
`Recovers`.

## Plan

Done: the main loop with its jobs, threads, timers, events and signals; the
stream tree; the sync buffer; the card server client and the decrypt module;
child processes and pipes; channels with their failover, HTTP inputs and HTTP
clients.

Models to come: the walk of `module_stream_send` with callbacks below it; the
byte ring of `thread.c` as a refinement of a bounded queue; assembly of PSI
sections; the pid requests of `channel.c`; `kill_channel`.

## Not modelled

Parsing and formatting of data (MPEG-TS tables, JSON, hashes, encodings),
hardware interfaces, Windows variants, logging, command lines and vendored Lua:
either pure functions with tests of their own, or calls whose behaviour is the
device's. The other event backends repeat the protocol of the epoll one. The
list in PROJECT.json gives a reason for each, and the hazards there that have
no property yet say what would cover them.

Of modelled components, the following is left out: modules that finalizers
create while the Lua state closes, in `Workers`; destruction of a cam module,
which scripts keep for the program's life; BISS, EMMs, the shift buffer and
several ECM pids in `Descrambler`; text mode of pipes; `kill_channel`, inputs
without an analyzer and input formats other than UDP and HTTP in `Failover`;
the server's own closing and its other routes in `HttpServer`; requests with a
body or an upstream in `HttpInput`.
