------------------------------- MODULE Failover -------------------------------
(***************************************************************************)
(* A channel and its inputs (scripts/common/stream.lua and base.lua).  A   *)
(* channel lists inputs in order of preference.  It starts the first; an   *)
(* analyzer on each running input reports once a second whether its stream *)
(* is on air.  When no running input is, the next of the list is started;  *)
(* when one is, it feeds the channel (transmit:set_upstream) and the       *)
(* inputs after it are stopped.  Reports are ignored for some time after   *)
(* the channel has changed over (`delay').                                 *)
(*                                                                         *)
(* A channel whose outputs are all served over HTTP runs only while it has *)
(* clients; who they are is Channel's subject, which composes this module  *)
(* with an HTTP server.  Inputs with the same address share one receiver,  *)
(* which counts its users (udp_input_instance_list).                       *)
(*                                                                         *)
(* A Lua function runs to its end: each action is one call from C, with    *)
(* the collection of garbage that follows a kill.  Every input has its     *)
(* analyzer (the default) and can be started; the channel is not killed.   *)
(***************************************************************************)
EXTENDS Integers, FiniteSets, FiniteSetsExt

CONSTANTS
    N,          \* the number of inputs
    Source,     \* the addresses of receivers
    Of,         \* the address of each input
    Cam,        \* the inputs whose configuration names a software CAM
    Timeout,    \* config.timeout
    StartDelay, \* the delay of a new channel: 3
    Permanent   \* the outputs that count as a client for ever

Input == 1..N

ASSUME FailoverAssumption ==
    /\ N \in Nat \ {0}
    /\ Of \in [Input -> Source] /\ Cam \subseteq Input
    /\ Timeout \in Nat /\ StartDelay \in Nat
    /\ Permanent \in Nat

VARIABLES
    running,    \* the inputs i with channel_data.input[i].input
    on_air,     \* of each input: "nil", "yes" or "no"
    active,     \* active_input_id
    delay,
    upstream,   \* the input transmit is attached to, 0 if there is none
    clients,    \* channel_data.clients
    users,      \* of each address: its receiver's `clients'
    cam,        \* the inputs whose conf.cam is set
    clear,      \* the running inputs with a software descrambler
    signal      \* the inputs whose streams are good: the world's choice

inputs == <<running, users, cam, clear>>
failoverVars == <<inputs, on_air, active, delay, upstream, clients, signal>>

FailoverTypeOK ==
    /\ running \subseteq Input /\ signal \subseteq Input
    /\ cam \subseteq Cam /\ clear \subseteq running \cap Cam
    /\ on_air \in [Input -> {"nil", "yes", "no"}]
    /\ active \in 0..N /\ upstream \in 0..N
    /\ delay \in 0..Max({Timeout, StartDelay})
    /\ clients \in Nat
    /\ users \in [Source -> 0..N]
-------------------------------------------------------------------------------
(* Inputs                                                                  *)

(* init_input_module.udp, and kill_input_module.udp for the inputs S       *)
Used(i) == [users EXCEPT ![Of[i]] = @ + 1]
Freed(S) == [s \in Source |-> users[s] - Cardinality({i \in S : Of[i] = s})]

(* init_input.  The CAM's name is taken out of the configuration when the  *)
(* descrambler is made, and the configuration outlives the input: the next *)
(* start of the input finds no name.                                       *)
MakeInput(i) ==
    /\ users' = Used(i)
    /\ clear' = clear \cup ({i} \cap cam)
    /\ cam' = cam \ {i}

(* channel_init_input *)
InitInput(i) ==
    /\ running' = running \cup {i}
    /\ MakeInput(i)
    /\ upstream' = i

(* channel_kill_input and kill_input for the inputs S, but for the delay   *)
KillInputs(S) ==
    /\ running' = running \ S
    /\ users' = Freed(S)
    /\ clear' = clear \ S
    /\ UNCHANGED cam

OnAir(air) == {i \in Input : air[i] = "yes"}

(* Changed form, not used: only the next input is stopped. *)
StartReserveNext(air, wait) ==
    \/ /\ OnAir(air) # {}
       /\ LET best == Min(OnAir(air))
              rest == running \cap {best + 1}
          IN  /\ upstream' = best /\ active' = best /\ delay' = Timeout
              /\ KillInputs(rest)
              /\ on_air' = [i \in Input |-> IF i \in rest THEN "nil" ELSE air[i]]
    \/ /\ OnAir(air) = {}
       /\ IF running = Input THEN UNCHANGED <<inputs, upstream>>
                             ELSE InitInput(Min(Input \ running))
       /\ on_air' = air /\ delay' = wait /\ UNCHANGED active

(* start_reserve: the first input on air feeds the channel and those after *)
(* it are stopped.  If none is on air the first that does not run is       *)
(* started, and feeds the channel at once; if all run nothing is done.     *)
StartReserve(air, wait) ==
    \/ /\ OnAir(air) # {}
       /\ LET best == Min(OnAir(air))
              rest == {j \in running : j > best}
          IN  /\ upstream' = best /\ active' = best
              /\ delay' = Timeout
              /\ KillInputs(rest)
              /\ on_air' = [i \in Input |-> IF i \in rest THEN "nil" ELSE air[i]]
    \/ /\ OnAir(air) = {}
       /\ IF running = Input THEN UNCHANGED <<inputs, upstream>>
                             ELSE InitInput(Min(Input \ running))
       /\ on_air' = air /\ delay' = wait
       /\ UNCHANGED active
-------------------------------------------------------------------------------
(* Reports                                                                 *)

Verdict(good) == IF good THEN "yes" ELSE "no"

(* an analyzer has something to report: it differs from what is kept *)
Due(i, good) == i \in running /\ on_air[i] # Verdict(good)

(* Changed form, not used: the delay is counted down whatever it is. *)
ReportCounts(i, good) ==
    LET air == [on_air EXCEPT ![i] = Verdict(good)]
    IN  /\ Due(i, good)
        /\ \/ (delay = 0 \/ (good /\ active = 0)) /\ StartReserve(air, delay)
           \/ /\ delay' = delay - 1
              /\ on_air' = [on_air EXCEPT ![i] = "nil"]
              /\ UNCHANGED <<inputs, active, upstream>>
        /\ UNCHANGED <<clients, signal>>

(* on_analyze_channel.  During the delay a report is not kept, but counts  *)
(* the delay down, unless it finds the channel's first input on air.       *)
Report(i, good) ==
    LET air == [on_air EXCEPT ![i] = Verdict(good)]
        heeded == delay = 0 \/ (good /\ active = 0)
    IN  /\ Due(i, good)
        /\ \/ heeded /\ StartReserve(air, delay)
           \/ /\ ~heeded
              /\ delay' = delay - 1
              /\ on_air' = [on_air EXCEPT ![i] = "nil"]
              /\ UNCHANGED <<inputs, active, upstream>>
        /\ UNCHANGED <<clients, signal>>

(* the world: a stream gets good or bad *)
Turn(i) ==
    /\ signal' = IF i \in signal THEN signal \ {i} ELSE signal \cup {i}
    /\ UNCHANGED <<inputs, on_air, active, delay, upstream, clients>>
-------------------------------------------------------------------------------
(* HTTP clients                                                            *)

(* http_output_on_request with a request: the first client starts input 1 *)
Join ==
    /\ clients' = clients + 1
    /\ IF 1 \in running THEN UNCHANGED <<inputs, upstream>> ELSE InitInput(1)
    /\ UNCHANGED <<on_air, active, delay, signal>>

(* Changed form, not used: whether anybody is left is looked at before the *)
(* client is taken off.                                                    *)
LeaveTestsFirst ==
    /\ clients' = clients - 1
    /\ \/ /\ clients = 0 /\ 1 \in running
          /\ KillInputs(running)
          /\ on_air' = [i \in Input |-> IF i \in running THEN "nil" ELSE on_air[i]]
          /\ delay' = StartDelay
          /\ active' = 0 /\ upstream' = 0
       \/ /\ clients > 0 \/ 1 \notin running
          /\ UNCHANGED <<inputs, on_air, delay, active, upstream>>
    /\ UNCHANGED signal

(* and without one: the last client stops all inputs, the first of which   *)
(* sets the delay of a new channel                                         *)
Leave ==
    /\ clients' = clients - 1
    /\ \/ /\ clients' = 0 /\ 1 \in running
          /\ KillInputs(running)
          /\ on_air' = [i \in Input |-> IF i \in running THEN "nil" ELSE on_air[i]]
          /\ delay' = StartDelay
          /\ active' = 0 /\ upstream' = 0
       \/ /\ clients' > 0 \/ 1 \notin running
          /\ UNCHANGED <<inputs, on_air, delay, active, upstream>>
    /\ UNCHANGED signal
-------------------------------------------------------------------------------
(* make_channel *)
FailoverInit ==
    /\ clients = Permanent
    /\ active = 0 /\ delay = StartDelay
    /\ on_air = [i \in Input |-> "nil"]
    /\ running = IF clients > 0 THEN {1} ELSE {}
    /\ users = [s \in Source |-> IF clients > 0 /\ Of[1] = s THEN 1 ELSE 0]
    /\ cam = Cam \ running /\ clear = Cam \cap running
    /\ upstream = IF clients > 0 THEN 1 ELSE 0
    /\ signal \in SUBSET Input

-------------------------------------------------------------------------------
(* The inputs that run are the first of the list.  If one is known to be   *)
(* on air the best such feeds the channel and none after it runs: no       *)
(* report ever stops the input whose analyzer is in the middle of making   *)
(* it, and nobody is fed by an input that was stopped.                     *)
BestFeeds ==
    /\ \A i \in running : 1..i \subseteq running
    /\ upstream = 0 <=> running = {}
    /\ upstream \in running \cup {0}
    /\ OnAir(on_air) # {} =>
        upstream = Min(OnAir(on_air)) /\ \A j \in running : j <= upstream

(* A receiver's count is the number of running inputs with its address, so *)
(* it is closed when the last one stops and not before, whichever inputs   *)
(* come and go.                                                            *)
SharedUsers ==
    \A s \in Source : users[s] = Cardinality({i \in running : Of[i] = s})
===============================================================================
