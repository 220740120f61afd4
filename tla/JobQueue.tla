------------------------------ MODULE JobQueue ------------------------------
(***************************************************************************)
(* The callback queue of the main loop (core/mainloop.c).  A job is a      *)
(* record with the fields owner, proc and arg; the queue is the sequence   *)
(* jobs[0 .. job_cnt - 1].  Every operation runs under job_mutex, so each  *)
(* is one operator on the whole queue.                                     *)
(***************************************************************************)
EXTENDS Naturals, Sequences

CONSTANT JobQueueSize    \* JOB_QUEUE_SIZE, 256 in the code

ASSUME JobQueueSizeAssumption == JobQueueSize \in Nat \ {0}

(* asc_job_queue on a full array: nothing is kept, the new job included. *)
Overflows(q) == Len(q) >= JobQueueSize

(* asc_job_queue *)
Queued(q, job) == IF Overflows(q) THEN << >> ELSE Append(q, job)

Jobs(q) == {q[i] : i \in DOMAIN q}

(* the elements of q that are not in T, in their order *)
Without(q, T) ==
    LET kept[i \in 0..Len(q)] ==
            IF i = 0 THEN << >>
            ELSE IF q[i] \in T THEN kept[i - 1] ELSE Append(kept[i - 1], q[i])
    IN  kept[Len(q)]

(* asc_job_prune: every job of that owner goes *)
Pruned(q, owner) == Without(q, {job \in Jobs(q) : job.owner = owner})
=============================================================================
