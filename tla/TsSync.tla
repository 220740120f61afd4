-------------------------------- MODULE TsSync --------------------------------
(***************************************************************************)
(* The buffer that paces a transport stream by its PCRs (mpegts/sync.c).   *)
(* ts_sync_push fills it; ts_sync_loop, called by a timer, sends what is   *)
(* due.  A block is the packets from one PCR to the next; its length and   *)
(* the PCR difference give the time one packet takes (`quantum').          *)
(*                                                                         *)
(* ts_sync_loop calls back twice: on_ready in the middle, where packets    *)
(* may be pushed and the buffer may be reset, and on_ts for each packet.   *)
(* Its steps are cut at these callbacks.                                   *)
(*                                                                         *)
(* Times are choices: how much time has passed is one of none, some and    *)
(* too much; `pending' and `quantum' are left out but for whether quantum  *)
(* is known.  A PCR is a number modulo PcrRange, and its step is valid     *)
(* if it is 1.                                                             *)
(***************************************************************************)
EXTENDS SyncRing, FiniteSetsExt

CONSTANTS
    Pid,        \* pids that carry PCRs
    NoPid,      \* PCR_PID_NONE
    Plain,      \* a packet without a PCR
    PcrRange,
    NoTime,     \* TS_TIME_NONE
    Enough,     \* sx->enough_blocks
    Low,        \* sx->low_blocks
    MaxHeld,    \* bound: packets in the buffer
    MaxPush     \* bound: packets in a push that succeeds

PcrPacket == [pid : Pid, pcr : 0..(PcrRange - 1)]
Packet == PcrPacket \cup {Plain}

(* ts_sync_set_blocks: both at least MIN_BUFFER_BLOCKS *)
ASSUME SyncAssumption ==
    /\ Plain \notin PcrPacket /\ Junk \notin Packet
    /\ NoPid \notin Pid /\ Pid # {}
    /\ Low \in Nat /\ Enough \in Nat
    /\ 2 <= Low /\ Low <= Enough
    /\ MaxHeld \in Nat /\ MaxPush \in Nat

VARIABLES
    ring,        \* buf, size, pos
    last_run,    \* it is not 0
    last_error,  \* it is not 0
    pcr_pid,
    num_blocks,
    pcr_cur,
    paced,       \* quantum is not 0
    buffered,
    pc,          \* where ts_sync_loop is: "idle", "ready", "check", "dequeue"
    elapsed,     \* in ts_sync_loop: `elapsed' is not 0
    sent         \* history: the packet given to on_ts last, if there was one
                 \* since the last full reset

state == <<last_run, last_error, pcr_pid, num_blocks, pcr_cur, paced, buffered>>
vars == <<ring, state, pc, elapsed, sent>>

HasPcr(p) == p \in PcrPacket

TypeOK ==
    /\ IsRing(ring, Packet)
    /\ last_run \in BOOLEAN
    /\ last_error \in BOOLEAN
    /\ pcr_pid \in Pid \cup {NoPid}
    /\ num_blocks \in Nat
    /\ pcr_cur \in 0..(PcrRange - 1) \cup {NoTime}
    /\ paced \in BOOLEAN
    /\ buffered \in BOOLEAN
    /\ pc \in {"idle", "ready", "check", "dequeue"}
    /\ elapsed \in BOOLEAN
    /\ sent \in Packet \cup {NoTime}

Init ==
    /\ ring = EmptyRing
    /\ last_run = FALSE
    /\ last_error = FALSE
    /\ pcr_pid = NoPid
    /\ num_blocks = 0
    /\ pcr_cur = NoTime
    /\ paced = FALSE
    /\ buffered = FALSE
    /\ pc = "idle"
    /\ elapsed = FALSE
    /\ sent = NoTime

-----------------------------------------------------------------------------
(* buffer_reset.  r is the buffer before; each level includes the next. *)

(* SYNC_RESET_PCR *)
ResetPcr(r) ==
    /\ ring' = [r EXCEPT !.pcr = r.send]
    /\ pcr_cur' = NoTime
    /\ pcr_pid' = NoPid
    /\ paced' = FALSE

(* SYNC_RESET_BLOCKS that does not restart the count *)
ResetBlocksKeepCount(r) ==
    /\ last_error' = FALSE /\ num_blocks' = num_blocks /\ buffered' = FALSE
    /\ ResetPcr(r)

(* SYNC_RESET_BLOCKS *)
ResetBlocks(r) ==
    /\ last_error' = FALSE /\ num_blocks' = 0 /\ buffered' = FALSE
    /\ ResetPcr(r)

(* SYNC_RESET_ALL, without last_run: the buffer is emptied before it is    *)
(* resized                                                                 *)
ResetAll ==
    /\ ResetBlocks(Resized(Drop([ring EXCEPT !.rcv = 0, !.pcr = 0, !.send = 0],
                                ring.size), MinSize))
    /\ sent' = NoTime

(* ts_sync_reset *)
Reset ==
    /\ pc \in {"idle", "ready"}
    /\ ResetAll
    /\ last_run' = FALSE
    /\ UNCHANGED <<pc, elapsed>>

-----------------------------------------------------------------------------
(* ts_sync_push *)

(* on_ready is only called when more blocks are wanted *)
MayPush == pc \in {"idle", "ready"}

PidOfFirst(ps) ==
    LET pcrs == {i \in DOMAIN ps : HasPcr(ps[i])}
    IN  IF pcrs = {} THEN NoPid ELSE ps[Min(pcrs)].pid

(* the PCR pid after ps was seen *)
Latched(ps) == IF pcr_pid = NoPid THEN PidOfFirst(ps) ELSE pcr_pid

PcrsOf(pid, ps) == {i \in DOMAIN ps : HasPcr(ps[i]) /\ ps[i].pid = pid}

Push(ps) ==
    /\ MayPush
    /\ LET room == WithRoom(ring, Len(ps))
           pid == IF buffered THEN pcr_pid ELSE Latched(ps)
           n == num_blocks + Cardinality(PcrsOf(pid, ps))
       IN  /\ Space(room) >= Len(ps)
           /\ num_blocks' = n
           /\ IF ~buffered /\ n >= Enough
              THEN ResetPcr(Put(room, ps)) /\ buffered' = TRUE
              ELSE /\ ring' = Put(room, ps)
                   /\ pcr_pid' = pid
                   /\ UNCHANGED <<pcr_cur, paced, buffered>>
    /\ UNCHANGED <<last_run, last_error, pc, elapsed, sent>>

(* n packets do not fit; the buffer has grown all the same *)
PushFails(n) ==
    /\ MayPush
    /\ LET room == WithRoom(ring, n)
       IN  Space(room) < n /\ ring' = room
    /\ UNCHANGED <<state, pc, elapsed, sent>>

-----------------------------------------------------------------------------
(* ts_sync_loop *)

(* update_last_run, and whether to call on_ready *)
LoopBegin ==
    /\ pc = "idle"
    /\ last_run' = TRUE
    /\ \/ /\ elapsed' \in {FALSE, last_run}
          /\ UNCHANGED <<ring, last_error, pcr_pid, num_blocks, pcr_cur, paced,
                         buffered, sent>>
       \/ last_run /\ ResetAll /\ elapsed' = FALSE    \* "time travel"
    /\ pc' = IF num_blocks' < Enough THEN "ready" ELSE "check"

(* on_ready returns, or is not set *)
OnReady ==
    /\ pc = "ready"
    /\ pc' = "check"
    /\ UNCHANGED <<ring, state, elapsed, sent>>

(* nothing to do yet *)
LoopReturn ==
    /\ pc = "check"
    /\ ~elapsed \/ ~buffered
    /\ pc' = "idle"
    /\ UNCHANGED <<ring, state, elapsed, sent>>

(* the level is low: wait, and reset after MAX_IDLE_TIME *)
Underflow ==
    /\ pc = "check" /\ elapsed /\ buffered
    /\ num_blocks < Low
    /\ \/ /\ last_error' = TRUE
          /\ UNCHANGED <<ring, last_run, pcr_pid, num_blocks, pcr_cur, paced,
                         buffered, sent>>
       \/ last_error /\ ResetAll /\ last_run' = FALSE
    /\ pc' = "idle"
    /\ UNCHANGED elapsed

LevelOk ==
    /\ pc = "check" /\ elapsed /\ buffered
    /\ num_blocks >= Low
    /\ last_error' = FALSE
    /\ pc' = "dequeue"
    /\ UNCHANGED <<ring, last_run, pcr_pid, num_blocks, pcr_cur, paced, buffered,
                   elapsed, sent>>

(* nothing is due any more; pending is never less than an unknown quantum *)
LoopEnd ==
    /\ pc = "dequeue" /\ paced
    /\ pc' = "idle"
    /\ UNCHANGED <<ring, state, elapsed, sent>>

(* the packet at the tail of r is given to on_ts *)
Send(r) ==
    /\ sent' = r.buf[r.send]
    /\ ring' = Drop(r, 1)

SendNext ==
    /\ pc = "dequeue"
    /\ ring.send # ring.pcr
    /\ Send(ring)
    /\ UNCHANGED <<state, pc, elapsed>>

(* seek_pcr, in the packets ahead.  The PCRs of the pid, the first of them *)
(* that is a valid step, and the last one before that.                     *)
SeekPid == Latched(Ahead(ring))
Candidates == PcrsOf(SeekPid, Ahead(ring))

ValidStep(a, b) == a # NoTime /\ (b - a) % PcrRange = 1

PreviousPcr(i) ==
    LET before == {k \in Candidates : k < i}
    IN  IF before = {} THEN pcr_cur ELSE Ahead(ring)[Max(before)].pcr

Found == {i \in Candidates : ValidStep(PreviousPcr(i), Ahead(ring)[i].pcr)}

(* the packets that are dropped when the last discontinuity is at i: all   *)
(* before it, the lookahead being empty                                    *)
DroppedBefore(i) ==
    LET broken == {k \in Candidates : k < i}
    IN  IF broken = {} THEN 0 ELSE Max(broken) - 1

(* block_count, which stops at enough_blocks *)
BlockCount(r, pid) ==
    Min({Enough, 1 + Cardinality(PcrsOf(pid, Ahead(r)))})

(* the buffer is made smaller when less than a quarter of it is filled *)
Compacted(r) ==
    IF Filled(r) < r.size \div 4 /\ r.size > MinSize
    THEN Resized(r, r.size \div 2) ELSE r

(* the next block is found: count what follows it, and from time to time   *)
(* shrink the buffer; then send                                            *)
SeekAndSend ==
    /\ pc = "dequeue"
    /\ ring.send = ring.pcr
    /\ Found # {}
    /\ LET i == Min(Found)
           r == [Drop(ring, DroppedBefore(i)) EXCEPT !.pcr = Slot(ring, @, i)]
       IN  /\ pcr_pid' = SeekPid
           /\ pcr_cur' = Ahead(ring)[i].pcr
           /\ num_blocks' = BlockCount(r, SeekPid)
           /\ \E q \in {r, Compacted(r)} : Send(q)
    /\ paced' = TRUE
    /\ UNCHANGED <<last_run, last_error, buffered, pc, elapsed>>

(* there is no next block *)
SeekFails ==
    /\ pc = "dequeue"
    /\ ring.send = ring.pcr
    /\ Found = {}
    /\ ResetBlocks(Drop(ring, DroppedBefore(Len(Ahead(ring)) + 1)))
    /\ pc' = "idle"
    /\ UNCHANGED <<last_run, elapsed, sent>>

-----------------------------------------------------------------------------
Pushes == UNION {[1..n -> Packet] : n \in 1..MaxPush}

Next ==
    \/ Reset
    \/ \E ps \in Pushes : Filled(ring) + Len(ps) <= MaxHeld /\ Push(ps)
    \/ \E n \in 1..MaxSize : PushFails(n)
    \/ LoopBegin \/ OnReady \/ LoopReturn
    \/ Underflow \/ LevelOk \/ LoopEnd
    \/ SendNext \/ SeekAndSend \/ SeekFails

Spec == Init /\ [][Next]_vars

-----------------------------------------------------------------------------
(* Properties *)

(* The three positions stay in order around the ring, through wrap-around, *)
(* growing, shrinking and resets: what is looked ahead is in the buffer.   *)
(* The level that decides between sending and waiting never promises more  *)
(* blocks than what is looked ahead holds of some pid, and of the PCR pid  *)
(* if that is known: the block being sent and one for each PCR after it.   *)
BlocksHeld ==
    /\ Lookahead(ring) <= Filled(ring)
    /\ \E pid \in Pid :
        /\ pcr_pid \in {pid, NoPid}
        /\ num_blocks <= Cardinality(PcrsOf(pid, Ahead(ring)))
                         + IF paced THEN 1 ELSE 0

(* What is sent at one pace is one block: it ends with the PCR that the    *)
(* pace was computed from, and no PCR of that pid is inside it.            *)
OneBlockPerPace ==
    LET n == Lookahead(ring)
        block == [i \in 1..n |-> ring.buf[Slot(ring, ring.send, i - 1)]]
    IN  /\ paced /\ n > 0 =>
               /\ n \in PcrsOf(pcr_pid, block) /\ block[n].pcr = pcr_cur
               /\ PcrsOf(pcr_pid, block) \subseteq {1, n}
        /\ ~paced => n = 0

(* The buffer is a queue that loses packets only where the code says so. *)
Queue ==
    INSTANCE PacketQueue
        WITH queue <- Contents(ring), Capacity <- MaxSize - 1, None <- NoTime
QueueSpec == Queue!Spec
=============================================================================
