----------------------------- MODULE WorkerLife -----------------------------
(***************************************************************************)
(* What the thread manager promises to a module that owns a background     *)
(* thread: a started thread runs until its procedure returns, it is never  *)
(* reaped before that, and once it has returned it is reaped, as long as   *)
(* the program is up and has not forgotten that the thread has returned.   *)
(* A thread that is forgotten may still be reaped.                         *)
(***************************************************************************)
CONSTANT Client

VARIABLES life, forgotten, up

vars == <<life, forgotten, up>>

Init == life = [c \in Client |-> "idle"] /\ forgotten = {} /\ up = TRUE

(* c goes from one stage of its life to the next. *)
Moves(c, from, to) ==
    /\ up
    /\ life[c] = from
    /\ life' = [life EXCEPT ![c] = to]
    /\ UNCHANGED up

(* More threads are forgotten, none but finished ones. *)
Forgets ==
    /\ forgotten \subseteq forgotten'
    /\ forgotten' \subseteq {c \in Client : life'[c] = "finished"}

Start(c) == Moves(c, "idle", "running") /\ UNCHANGED forgotten

Finish(c) == Moves(c, "running", "finished") /\ Forgets

Forget == up /\ Forgets /\ UNCHANGED <<life, up>>

Reap(c) == Moves(c, "finished", "idle") /\ forgotten' = forgotten \ {c}

Crash == up /\ up' = FALSE /\ UNCHANGED <<life, forgotten>>

Next == Crash \/ Forget \/ \E c \in Client : Start(c) \/ Finish(c) \/ Reap(c)

Spec == Init /\ [][Next]_vars /\ \A c \in Client : WF_vars(c \notin forgotten /\ Reap(c))
=============================================================================
