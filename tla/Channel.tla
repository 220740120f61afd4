-------------------------------- MODULE Channel --------------------------------
(***************************************************************************)
(* A channel with its inputs and the clients of its HTTP output            *)
(* (scripts/common/stream.lua): Failover, HttpInput for the inputs that    *)
(* come over HTTP, and HttpServer.  An input that starts is a user of its  *)
(* address; the first user makes a request, and the input is good when the *)
(* server is and the request has become a stream.  The server calls        *)
(* http_output_on_request with a request, and without one when the client  *)
(* has gone; the callback counts clients, starts the first input for the   *)
(* first of them, stops all inputs after the last, and attaches the client *)
(* to the end of the channel.  The stream feeds all that are attached.     *)
(*                                                                         *)
(* The same channel may have outputs on other servers: their clients only  *)
(* come and go.                                                            *)
(***************************************************************************)
EXTENDS Failover, HttpInput, HttpServer

CONSTANT MaxOthers  \* bound: clients of other servers

ASSUME ChannelAssumption == Http \subseteq Source /\ MaxOthers \in Nat

VARIABLE others

vars == <<failoverVars, receiver, conn, others>>

(* the inputs that have packets to give *)
Delivers(i) == Of[i] \in Http => receiver[Of[i]].request = "streaming"

(* an HTTP server that serves a good stream *)
Up(s) == \E i \in signal : Of[i] = s

TypeOK ==
    /\ FailoverTypeOK
    /\ ReceiverTypeOK
    /\ HttpTypeOK
    /\ others \in 0..MaxOthers

Init ==
    /\ FailoverInit
    /\ receiver \in [Http -> Requests \cup {Idle}]
    /\ \A s \in Http : receiver[s] = Idle <=> users[s] = 0
    /\ HttpInit
    /\ others = 0

(* init_input_module.http makes a request for the first user of an         *)
(* address, kill_input_module.http closes what the last one leaves         *)
Receivers ==
    LET new == {s \in Http : users[s] = 0 /\ users'[s] > 0}
    IN  \E first \in [new -> Requests] :
            receiver' = [s \in Http |->
                IF s \in new THEN first[s]
                ELSE IF users'[s] = 0 THEN Idle ELSE receiver[s]]

(* http_output_on_request, for a client whose `listed' changes *)
OnRequest(c) ==
    \/ ~conn[c].listed /\ conn'[c].listed /\ Join /\ Receivers
    \/ conn[c].listed /\ ~conn'[c].listed /\ Leave /\ Receivers
    \/ conn[c].listed = conn'[c].listed /\ UNCHANGED <<failoverVars, receiver>>

Serve(c) ==
    /\ HttpStep(c)
    /\ OnRequest(c)
    /\ UNCHANGED others

(* a packet reaches the end of the channel *)
Packet ==
    /\ upstream # 0 /\ Delivers(upstream)
    /\ OnTs
    /\ UNCHANGED <<failoverVars, receiver, others>>

Elsewhere ==
    /\ \/ others < MaxOthers /\ others' = others + 1 /\ Join
       \/ others > 0 /\ others' = others - 1 /\ Leave
    /\ Receivers
    /\ UNCHANGED conn

(* what the analyzer of an input sees *)
Good(i) == i \in signal /\ Delivers(i)

Analyze(i) ==
    /\ UNCHANGED <<conn, others>>
    /\ Report(i, Good(i))
    /\ Receivers

World(i) == Turn(i) /\ UNCHANGED <<receiver, conn, others>>

(* the stream of a good server does not end *)
MayEnd(s) == Up(s) => receiver[s].request # "streaming"

(* a step of a request changes nothing else *)
Alone == UNCHANGED <<failoverVars, conn, others>>

Receive(s) == MayEnd(s) /\ HttpInputStep(s) /\ Alone

Next ==
    \/ \E i \in Input : Analyze(i) \/ World(i)
    \/ \E s \in Http : Receive(s)
    \/ \E c \in Client : Serve(c)
    \/ Packet
    \/ Elsewhere

(* The analyzers' timers, and those of requests.  For analyzers it is      *)
(* WF_vars(Analyze(i)) with the guard of Analyze spelled out, for TLC.     *)
(* A good server is found, connects and answers at least once if it is     *)
(* tried for ever, and goes on with an answer that it has begun: no timer  *)
(* of the request would notice if it did not.                              *)
Fairness ==
    /\ \A i \in Input : []<>~Due(i, Good(i)) \/ []<><<Analyze(i)>>_vars
    /\ \A s \in Http :
        /\ WF_vars(Alone /\ MayEnd(s) /\ OnTimeout(s))
        /\ SF_vars(Alone /\ Retry(s) /\ receiver'[s].request = "connecting")
        /\ SF_vars(Alone /\ OnConnect(s))
        /\ SF_vars(Alone /\ Up(s) /\ OnStream(s))

Spec == Init /\ [][Next]_vars /\ Fairness
-------------------------------------------------------------------------------
(* Whatever is shared is counted, whoever comes and goes.  A receiver has  *)
(* as many users as running inputs have its address (SharedUsers).  The    *)
(* channel runs exactly while somebody counts as a client.  Every way a    *)
(* connection ends is counted once (after an error, a HEAD request, a page *)
(* about a bad configuration) and one that was never counted is not, so    *)
(* that no client is left with a channel that was stopped, and no channel  *)
(* runs for nobody.  Who is attached to the stream is counted.             *)
Counted ==
    /\ SharedUsers
    /\ clients = Permanent + others
                 + Cardinality({c \in Client : conn[c].listed})
    /\ clients > 0 <=> 1 \in running
    /\ \A c \in Client : Attached(c) => conn[c].listed

(* Nothing stalls.  When enough is buffered for a client the socket's      *)
(* handler is on_upstream_ready, and is_socket_busy says just that, though *)
(* the header's handler and the handling of an overflow change it too.  A  *)
(* receiver in use has a request or waits for the next one, never both,    *)
(* and one that is not in use has neither.                                 *)
NoStall ==
    /\ \A c \in Client : Attached(c) =>
        /\ conn[c].busy <=> conn[c].on_ready = "upstream"
        /\ conn[c].count >= Fill => conn[c].busy
    /\ \A s \in Http :
        /\ users[s] = 0 <=> receiver[s] = Idle
        /\ users[s] > 0 => receiver[s].retry # (receiver[s].request # "none")
        /\ receiver[s].request = "none" => receiver[s].timer = "none"

(* Failover: when the streams change no more, some are good and somebody   *)
(* watches, the channel is fed by a good one in the end and stays with it. *)
(* The delay, the reports that are not kept, the stale active_input_id and *)
(* requests that fail and are made again must not stand in the way.        *)
Recovers ==
    <>[][UNCHANGED signal]_signal /\ <>[](signal # {} /\ clients > 0)
        => <>[](upstream \in signal)
================================================================================
