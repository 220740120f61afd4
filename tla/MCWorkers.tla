----------------------------- MODULE MCWorkers -----------------------------
(***************************************************************************)
(* Workers with two clients.  MCWorkers.cfg: the second one is an orphan.  *)
(* In both instances the queue is smaller than what the threads may queue  *)
(* while the main thread is busy, six jobs at most, so that it is flushed  *)
(* at some times and not at others.                                        *)
(***************************************************************************)
EXTENDS Workers
=============================================================================
