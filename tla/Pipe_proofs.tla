------------------------------ MODULE Pipe_proofs ------------------------------
(***************************************************************************)
(* Proofs about Pipe: for any number of looks at a process that does not   *)
(* end, and any sizes of reads, buffers and demands.                       *)
(***************************************************************************)
EXTENDS Pipe, TLAPS

Flags ==
    /\ kill_timer \in BOOLEAN /\ restart \in BOOLEAN /\ reading \in BOOLEAN
    /\ waiting \in BOOLEAN /\ can_send \in BOOLEAN /\ asked \in BOOLEAN
    /\ stray \in BOOLEAN /\ gave_up \in BOOLEAN

Types ==
    /\ config \in [restart : BOOLEAN, sync : BOOLEAN]
    /\ proc \in {"none", "alive", "dead"}
    /\ child \in {"none", "up", "closing"}
    /\ ticks \in 0..MaxTicks
    /\ due \in Nat
    /\ held \in 0..Slots
    /\ feed \in 0..MaxWant
    /\ state \in {"on", "destroyed", "crashed"}

(* A start that fails asks the buffer to call all the same; the next start *)
(* finds the request standing and must not read.                           *)
Remembered == child = "none" /\ asked => config.sync /\ feed <= 0

IInv == Types /\ Flags /\ OneProcess /\ OwnTimer /\ Woken /\ Remembered

-------------------------------------------------------------------------------
(* the counters *)
LEMMA Ranges ==
    /\ MaxTicks \in Nat /\ 0 \in 0..MaxTicks
    /\ 0 \in 0..MaxWant /\ 0 \in 0..Slots /\ 1 \in 0..Slots
    /\ \A t \in 0..MaxTicks : t < MaxTicks => t + 1 \in 0..MaxTicks
    /\ \A h \in 0..Slots : h < Slots => h + 1 \in 0..Slots
BY PipeAssumption

(* What is left of the count is no more than it was. *)
LEMMA LeftInRange ==
    ASSUME feed \in 0..MaxWant, NEW n \in 0..MaxRead
    PROVE  Left(n) \in 0..MaxWant
BY PipeAssumption DEF Left

(* A timer is armed at most once by a start that fails or by the end of a  *)
(* child.                                                                  *)
LEMMA Schedules ==
    ASSUME config.restart \in BOOLEAN
    PROVE  Scheduled = IF config.restart THEN 1 ELSE 0
BY DEF Scheduled

(* A module starts with a process, or waits to start one. *)
LEMMA InitIInv == Init => IInv
<1> SUFFICES ASSUME Init PROVE IInv
    OBVIOUS
<1>1. Types
    <2>1. feed \in 0..MaxWant
        BY PipeAssumption DEF Init
    <2>2. due \in Nat
        BY DEF Init, Scheduled
    <2>3. QED BY <2>1, <2>2, Ranges DEF Init, Types
<1>2. Flags
    BY Zenon DEF Init, Flags
<1>3. OneProcess /\ OwnTimer
    BY DEF Init, OneProcess, OwnTimer, Scheduled
<1>4. Woken /\ Remembered
    BY DEF Init, Woken, Remembered
<1>5. QED BY <1>1, <1>2, <1>3, <1>4 DEF IInv

(* on_child_restart *)
LEMMA RestartKeeps ==
    ASSUME IInv, Restart
    PROVE  IInv'
<1>1. /\ child = "none" /\ proc = "none" /\ kill_timer = FALSE /\ can_send = FALSE
      /\ restart = TRUE /\ due = 1 /\ state = "on"
    BY DEF IInv, OneProcess, OwnTimer, Restart, Flags, Types, On
<1>2. PICK quiet \in BOOLEAN : quiet <=> config.sync /\ feed <= 0
    OBVIOUS
<1>3. /\ asked' = (asked \/ quiet)
      /\ UNCHANGED <<config, can_send, feed, state>>
    BY <1>2, Zenon DEF Restart, OnChildRestart
<1>4. asked => quiet
    BY <1>1, <1>2 DEF IInv, Remembered
<1>5. CASE ChildInit /\ reading' = ~quiet /\ restart' = FALSE /\ due' = due - 1
    <2>1. due' = 0 /\ stray' = stray /\ gave_up' = gave_up
        BY <1>1, <1>5 DEF ChildInit, IInv, Flags
    <2>2. Types'
        BY <1>3, <1>5, <2>1, Ranges DEF IInv, Types, ChildInit
    <2>3. Flags'
        BY <1>3, <1>5, <2>1, Zenon DEF IInv, Flags, ChildInit
    <2>4. OneProcess'
        BY <1>5, <2>1 DEF IInv, OneProcess, ChildInit
    <2>5. OwnTimer'
        BY <1>5, <2>1 DEF OwnTimer
    <2>6. Woken' /\ Remembered'
        BY <1>3, <1>4, <1>5, Zenon DEF Woken, Remembered, ChildInit
    <2>7. QED BY <2>2, <2>3, <2>4, <2>5, <2>6 DEF IInv
<1>6. CASE NoProcess /\ restart' = config.restart /\ due' = due - 1 + Scheduled
    <2>1. /\ child' = "none"
          /\ UNCHANGED <<proc, ticks, kill_timer, stray, gave_up>>
          /\ UNCHANGED <<waiting, held, reading>>
        BY <1>6 DEF NoProcess
    <2>2. restart' \in BOOLEAN /\ due' = IF restart' THEN 1 ELSE 0
        BY <1>1, <1>6 DEF IInv, Types, Scheduled
    <2>3. Types'
        BY <1>3, <2>1, <2>2 DEF IInv, Types
    <2>4. Flags'
        BY <1>3, <2>1, <2>2, Zenon DEF IInv, Flags
    <2>5. OneProcess'
        BY <1>1, <1>3, <2>1 DEF IInv, OneProcess
    <2>6. OwnTimer'
        BY <1>1, <1>3, <2>2 DEF OwnTimer
    <2>7. Woken' /\ Remembered'
        BY <1>2, <1>3, <1>4, <2>1 DEF Woken, Remembered
    <2>8. QED BY <2>3, <2>4, <2>5, <2>6, <2>7 DEF IInv
<1>7. QED BY <1>2, <1>5, <1>6, Zenon DEF Restart, OnChildRestart

(* on_stdio_read *)
LEMMA ReadKeeps ==
    ASSUME IInv, Read
    PROVE  IInv'
<1>1. PICK n \in 0..MaxRead :
        /\ feed' = Left(n)
        /\ reading' = ~RunsOut(n)
        /\ asked' = (asked \/ RunsOut(n))
    BY DEF Read
<1>2. /\ child = "up" /\ reading = TRUE
      /\ UNCHANGED <<config, proc, child, ticks, kill_timer, stray, gave_up>>
      /\ UNCHANGED <<restart, due, waiting, held, can_send, state>>
    BY DEF Read, kid, timer, in, IInv, Flags
<1>3. asked = FALSE
    BY <1>2, Zenon DEF IInv, Woken, Flags
<1>4. RunsOut(n) \in BOOLEAN
    BY DEF RunsOut
<1>5. Types'
    <2>1. feed' \in 0..MaxWant
        BY <1>1, LeftInRange DEF IInv, Types
    <2>2. QED BY <1>2, <2>1 DEF IInv, Types
<1>6. Flags'
    BY <1>1, <1>2, <1>4, Zenon DEF IInv, Flags
<1>7. OneProcess' /\ OwnTimer'
    BY <1>2 DEF IInv, OneProcess, OwnTimer
<1>8. Woken' /\ Remembered'
    BY <1>1, <1>2, <1>3, <1>4, Zenon DEF IInv, Woken, Remembered
<1>9. QED BY <1>5, <1>6, <1>7, <1>8 DEF IInv

(* on_sync_ready *)
LEMMA SyncReadyKeeps ==
    ASSUME IInv, OnSyncReady
    PROVE  IInv'
<1>1. /\ UNCHANGED <<config, proc, child, ticks, kill_timer, stray, gave_up>>
      /\ UNCHANGED <<restart, due, waiting, held, can_send>>
      /\ state = "on"
    BY DEF OnSyncReady, kid, timer, in, On
<1>2. CASE child = "up" /\ asked' = FALSE /\ reading' = TRUE /\ feed' \in SyncWant
           /\ UNCHANGED state
    <2>1. Types'
        BY <1>1, <1>2 DEF IInv, Types, SyncWant
    <2>2. Flags'
        BY <1>1, <1>2, Zenon DEF IInv, Flags
    <2>3. OneProcess' /\ OwnTimer' /\ Woken' /\ Remembered'
        BY <1>1, <1>2, Zenon DEF IInv, OneProcess, OwnTimer, Woken, Remembered
    <2>4. QED BY <2>1, <2>2, <2>3 DEF IInv
<1>3. CASE child # "up" /\ state' = "crashed" /\ UNCHANGED out
    <2>1. UNCHANGED <<reading, feed, asked>>
        BY <1>3 DEF out
    <2>2. Types'
        BY <1>1, <1>3, <2>1 DEF IInv, Types
    <2>3. Flags' /\ OneProcess' /\ OwnTimer' /\ Woken' /\ Remembered'
        BY <1>1, <1>3, <2>1 DEF IInv, Flags, OneProcess, OwnTimer, Woken, Remembered
    <2>4. QED BY <2>2, <2>3 DEF IInv
<1>4. QED BY <1>2, <1>3 DEF OnSyncReady

(* on_child_close arms the timer, and there is none yet.                   *)
LEMMA OnChildCloseArms ==
    ASSUME IInv, restart = FALSE, OnChildClose
    PROVE  /\ proc' = "none" /\ child' = "none" /\ ticks' = 0
           /\ kill_timer' = FALSE /\ asked' = FALSE
           /\ restart' \in BOOLEAN /\ due' = IF restart' THEN 1 ELSE 0
<1>1. config.restart \in BOOLEAN /\ due = 0
    BY DEF IInv, Types, OwnTimer
<1>2. QED BY <1>1, Schedules DEF OnChildClose

(* One step of the closing: the child is gone, its process waited for or   *)
(* given up, and the buffer's request is dropped, or it is looked at again *)
(* later.                                                                  *)
LEMMA CheckProcessKeeps ==
    ASSUME IInv, restart = FALSE, NEW wants \in BOOLEAN, CheckProcess(wants)
    PROVE  /\ proc' \in {"none", "alive", "dead"} /\ child' \in {"none", "closing"}
           /\ ticks' \in 0..MaxTicks
           /\ kill_timer' \in BOOLEAN /\ asked' \in BOOLEAN
           /\ stray' \in BOOLEAN /\ gave_up' \in BOOLEAN
           /\ stray' => gave_up'
           /\ restart' \in BOOLEAN /\ due' = IF restart' THEN 1 ELSE 0
           /\ restart' => child' = "none"
           /\ child' = "none" <=> proc' = "none"
           /\ kill_timer' <=> child' = "closing"
           /\ child' = "none" => asked' = FALSE
<1>1. stray \in BOOLEAN /\ gave_up \in BOOLEAN /\ (stray => gave_up)
    BY DEF IInv, Flags, OneProcess
<1>2. CASE GiveUp
    <2>1. gave_up' = TRUE /\ stray' \in BOOLEAN
        BY <1>2, Zenon DEF GiveUp
    <2>2. OnChildClose
        BY <1>2 DEF GiveUp
    <2>3. QED BY <2>1, <2>2, OnChildCloseArms, Ranges
<1>3. CASE Ended
    <2>1. OnChildClose /\ UNCHANGED <<stray, gave_up>>
        BY <1>3 DEF Ended
    <2>2. QED BY <1>1, <2>1, OnChildCloseArms, Ranges
<1>4. CASE proc = "alive" /\ ticks < MaxTicks /\ LookAgain /\ asked' = wants
    <2>1. /\ child' = "closing" /\ kill_timer' = TRUE /\ ticks' = ticks + 1
          /\ UNCHANGED <<proc, stray, gave_up, restart, due>>
          /\ proc = "alive" /\ ticks < MaxTicks
        BY <1>4 DEF LookAgain, timer
    <2>2. ticks' \in 0..MaxTicks
        BY <2>1, Ranges DEF IInv, Types
    <2>3. due' = IF restart' THEN 1 ELSE 0
        BY <2>1 DEF IInv, OwnTimer
    <2>4. QED BY <1>1, <1>4, <2>1, <2>2, <2>3
<1>5. QED BY <1>2, <1>3, <1>4 DEF CheckProcess

(* asc_child_close, whether it is the first call or a later one, for a     *)
(* child whose standard input may not be sent to without it.               *)
LEMMA CloseKeeps ==
    ASSUME IInv, child # "none", AscChildClose, UNCHANGED <<config, state>>,
           state = "on",
           held' \in 0..Slots, can_send' \in BOOLEAN, can_send' => child' # "none"
    PROVE  IInv'
<1>1. restart = FALSE
    BY DEF IInv, OneProcess, OwnTimer, Flags
<1>2. feed' \in 0..MaxWant /\ reading' \in BOOLEAN /\ waiting' \in BOOLEAN
    <2>1. CASE ticks = 0
        BY <2>1, LeftInRange DEF AscChildClose, IInv, Types
    <2>2. CASE ticks # 0
        BY <2>2 DEF AscChildClose, IInv, Types, Flags
    <2>3. QED BY <2>1, <2>2
<1>3. \E wants \in BOOLEAN : CheckProcess(wants)
    <2>1. CASE ticks = 0
        <3>1. PICK n \in 0..MaxRead : CheckProcess(asked \/ RunsOut(n))
            BY <2>1 DEF AscChildClose
        <3>2. (asked \/ RunsOut(n)) \in BOOLEAN
            BY Zenon
        <3>3. QED BY <3>1, <3>2
    <2>2. CASE ticks # 0
        BY <2>2 DEF AscChildClose, IInv, Flags
    <2>3. QED BY <2>1, <2>2
<1>4. /\ proc' \in {"none", "alive", "dead"} /\ child' \in {"none", "closing"}
      /\ ticks' \in 0..MaxTicks
      /\ kill_timer' \in BOOLEAN /\ asked' \in BOOLEAN
      /\ stray' \in BOOLEAN /\ gave_up' \in BOOLEAN
      /\ stray' => gave_up'
      /\ restart' \in BOOLEAN /\ due' = IF restart' THEN 1 ELSE 0
      /\ restart' => child' = "none"
      /\ child' = "none" <=> proc' = "none"
      /\ kill_timer' <=> child' = "closing"
      /\ child' = "none" => asked' = FALSE
    BY <1>1, <1>3, CheckProcessKeeps
<1>5. Types'
    <2>1. due' \in Nat
        BY <1>4
    <2>2. QED BY <1>2, <1>4, <2>1 DEF IInv, Types
<1>6. Flags'
    BY <1>2, <1>4, Zenon DEF Flags
<1>7. OneProcess' /\ OwnTimer'
    BY <1>4 DEF OneProcess, OwnTimer
<1>8. Woken' /\ Remembered'
    BY <1>4, Zenon DEF Woken, Remembered
<1>9. QED BY <1>5, <1>6, <1>7, <1>8 DEF IInv

(* Packets for the process are collected, written and lost without a look  *)
(* at the child's output.                                                  *)
LEMMA WritingKeeps ==
    ASSUME IInv, UNCHANGED <<config, kid, timer, out, state>>,
           held' \in 0..Slots, waiting' \in BOOLEAN, can_send' \in BOOLEAN,
           can_send' => child # "none",
           child = "up" => can_send' \/ waiting'
    PROVE  IInv'
<1>1. /\ UNCHANGED <<config, proc, child, ticks, kill_timer, stray, gave_up>>
      /\ UNCHANGED <<restart, due, reading, feed, asked, state>>
    BY DEF kid, timer, out
<1>2. Types' /\ Flags'
    BY <1>1 DEF IInv, Types, Flags
<1>3. OneProcess' /\ OwnTimer'
    BY <1>1 DEF IInv, OneProcess, OwnTimer
<1>4. Woken' /\ Remembered'
    BY <1>1 DEF IInv, Woken, Remembered
<1>5. QED BY <1>2, <1>3, <1>4 DEF IInv

(* module_destroy *)
LEMMA DestroyKeeps ==
    ASSUME IInv, Destroy
    PROVE  IInv'
<1>1. restart' = FALSE /\ due' = 0
    BY DEF Destroy, IInv, OwnTimer, Flags
<1>2. stray' \in BOOLEAN /\ gave_up' \in BOOLEAN /\ (stray' => gave_up')
    <2>1. CASE UNCHANGED <<stray, gave_up>>
        BY <2>1 DEF IInv, Flags, OneProcess
    <2>2. CASE gave_up' = TRUE /\ stray' = (stray \/ proc = "alive")
        BY <2>2, Zenon
    <2>3. QED BY <2>1, <2>2 DEF Destroy
<1>3. Types'
    BY <1>1, Ranges DEF Destroy, IInv, Types
<1>4. Flags'
    BY <1>1, <1>2, Zenon DEF Destroy, Flags
<1>5. OneProcess' /\ OwnTimer' /\ Woken' /\ Remembered'
    BY <1>1, <1>2 DEF Destroy, OneProcess, OwnTimer, Woken, Remembered
<1>6. QED BY <1>3, <1>4, <1>5 DEF IInv

(* Every step keeps the invariant. *)
LEMMA StepIInv == IInv /\ [Next]_vars => IInv'
<1> SUFFICES ASSUME IInv, [Next]_vars PROVE IInv'
    OBVIOUS
<1>1. CASE Restart
    BY <1>1, RestartKeeps
<1>2. CASE Read
    BY <1>2, ReadKeeps
<1>3. CASE OnSyncReady
    BY <1>3, SyncReadyKeeps
<1>4. CASE OnStdioClose \/ KillTimer
    <2>1. /\ AscChildClose /\ child # "none"
          /\ UNCHANGED <<config, state>> /\ held' = held
          /\ can_send' = (can_send /\ child' # "none") /\ state = "on"
        BY <1>4 DEF OnStdioClose, KillTimer, IInv, OneProcess, On
    <2>2. held' \in 0..Slots
        BY <2>1 DEF IInv, Types
    <2>3. can_send' \in BOOLEAN /\ (can_send' => child' # "none")
        BY <2>1, Zenon
    <2>4. QED BY <2>1, <2>2, <2>3, CloseKeeps
<1>5. CASE Exit
    <2>1. UNCHANGED <<config, child, ticks, kill_timer, gave_up, restart, due,
                      waiting, held, can_send, reading, feed, asked, state>>
        BY <1>5 DEF Exit, timer, in, out
    <2>2. \/ proc = "alive" /\ proc' = "dead" /\ stray' = stray
          \/ stray' = FALSE /\ proc' = proc
        BY <1>5 DEF Exit
    <2>3. proc' \in {"none", "alive", "dead"} /\ (proc' = "none" <=> proc = "none")
        BY <2>2 DEF IInv, Types
    <2>4. stray' \in BOOLEAN /\ (stray' => stray)
        <3>1. stray \in BOOLEAN
            BY DEF IInv, Flags
        <3>2. stray' = stray \/ stray' = FALSE
            BY <2>2
        <3>3. CASE stray' = stray
            BY <3>1, <3>3
        <3>4. CASE stray' = FALSE
            BY <3>4
        <3>5. QED BY <3>2, <3>3, <3>4
    <2>5. Types' /\ Flags'
        BY <2>1, <2>3, <2>4 DEF IInv, Types, Flags
    <2>6. OneProcess' /\ OwnTimer'
        BY <2>1, <2>3, <2>4 DEF IInv, OneProcess, OwnTimer
    <2>7. Woken' /\ Remembered'
        BY <2>1 DEF IInv, Woken, Remembered
    <2>8. QED BY <2>5, <2>6, <2>7 DEF IInv
<1>6. CASE OnChildReady
    <2>1. held' \in 0..Slots /\ waiting' = FALSE /\ can_send' = TRUE /\ child = "up"
        BY <1>6 DEF OnChildReady, IInv, Types
    <2>2. QED BY <1>6, <2>1, WritingKeeps DEF OnChildReady
<1>7. CASE Collect \/ Flush
    <2>1. held' \in 0..Slots
        BY <1>7, Ranges DEF Collect, Flush, IInv, Types
    <2>2. /\ waiting' = waiting /\ can_send' = can_send /\ can_send
          /\ UNCHANGED <<config, kid, timer, out, state>>
        BY <1>7 DEF Collect, Flush
    <2>3. waiting' \in BOOLEAN /\ can_send' \in BOOLEAN /\ child # "none"
        BY <2>2, Zenon DEF IInv, Flags, OneProcess
    <2>4. QED BY <2>1, <2>2, <2>3, WritingKeeps
<1>8. CASE FlushBlocks
    <2>1. held' \in 0..Slots /\ waiting' = TRUE /\ can_send' = FALSE
        BY <1>8, Ranges DEF FlushBlocks
    <2>2. QED BY <1>8, <2>1, WritingKeeps DEF FlushBlocks
<1>9. CASE FlushFails
    <2>1. held' \in 0..Slots /\ can_send' = FALSE /\ child # "none" /\ state = "on"
        BY <1>9, Ranges DEF FlushFails, IInv, OneProcess, On
    <2>2. QED BY <1>9, <2>1, CloseKeeps DEF FlushFails
<1>10. CASE Destroy
    BY <1>10, DestroyKeeps
<1>11. CASE UNCHANGED vars
    BY <1>11 DEF vars, kid, timer, in, out, IInv, Types, Flags, OneProcess, OwnTimer,
                 Woken, Remembered
<1>12. QED BY <1>1, <1>2, <1>3, <1>4, <1>5, <1>6, <1>7, <1>8, <1>9, <1>10, <1>11 DEF Next

(* The invariant holds of every behaviour. *)
LEMMA Invariant == Spec => []IInv
BY InitIInv, StepIInv, PTL DEF Spec
-------------------------------------------------------------------------------
(* Types: a child is not looked at more often than KILL_MAX_TICKS, and the *)
(* count of wanted packets does not pass zero.                             *)
THEOREM TypesOK == Spec => []TypeOK
<1>1. IInv => TypeOK
    BY DEF IInv, Types, Flags, TypeOK
<1>2. QED BY <1>1, Invariant, PTL

(* A process runs beside the child's only if asc_child_close or            *)
(* asc_child_destroy gave one up that a call of theirs failed to look at   *)
(* or to end; otherwise the next one is started when there is none, in     *)
(* however many steps the last one was closed (pipe.c: on_child_close,     *)
(* on_child_restart; child.c: asc_child_close, asc_child_destroy).         *)
THEOREM OneProcessOnly == Spec => []OneProcess
<1>1. IInv => OneProcess
    BY DEF IInv
<1>2. QED BY <1>1, Invariant, PTL

(* mod->restart is NULL or the one restart timer that is armed, so that    *)
(* the timer module_destroy destroys is there, and none fires for a module *)
(* that is gone (pipe.c: on_child_restart, on_child_close, module_destroy).*)
THEOREM TimerIsOwned == Spec => []OwnTimer
<1>1. IInv => OwnTimer
    BY DEF IInv
<1>2. QED BY <1>1, Invariant, PTL

(* Reading and writing are never both off with nobody asked to turn them   *)
(* on again (pipe.c: on_child_ts_sync, on_sync_ready, on_child_ready).     *)
THEOREM ChildIsWoken == Spec => []Woken
<1>1. IInv => Woken
    BY DEF IInv
<1>2. QED BY <1>1, Invariant, PTL
================================================================================
