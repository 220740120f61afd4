------------------------------- MODULE HttpInput -------------------------------
(***************************************************************************)
(* The receivers of inputs that come over HTTP: a request                  *)
(* (stream/http/request.c) and the script that makes it again              *)
(* (init_input_module.http in scripts/common/base.lua).  A request that    *)
(* ends in any other way than by a stream calls the script back once; it   *)
(* follows a redirection at once, and waits five seconds before it tries   *)
(* again after anything else.                                              *)
(*                                                                         *)
(* The request has one timer (mod->timeout): for the connection, for the   *)
(* first bytes of the answer, and for the activity of the stream.  Nothing *)
(* watches over the rest of an answer's header and body.                   *)
(*                                                                         *)
(* What a header says is a choice; a body is read to its end or not at     *)
(* all.  Which bytes have come, and the stream's packets and sync buffer,  *)
(* are left out.  A redirection names an HTTP server or nothing.           *)
(***************************************************************************)

CONSTANT Http   \* the addresses that are URLs

VARIABLE receiver   \* of each address: its http_input_instance_list entry

Receiver == [
    request : {"none", "unresolved", "connecting", "sent", "reading", "streaming"},
    timer   : {"none", "request", "activity"},  \* mod->timeout
    retry   : BOOLEAN ]                         \* instance.timeout

ReceiverTypeOK == receiver \in [Http -> Receiver]

Idle == [request |-> "none", timer |-> "none", retry |-> FALSE]

(* Changed form, not used: the timer is set when the socket connects. *)
RequestsNoTimer ==
    {[request |-> q, timer |-> "none", retry |-> FALSE] :
        q \in {"unresolved", "connecting"}}

(* http_request(http_conf): module_init and asc_socket_connect.  A socket  *)
(* whose name is not resolved has no events, and is left to the timer.     *)
Requests ==
    {[request |-> q, timer |-> "request", retry |-> FALSE] :
        q \in {"unresolved", "connecting"}}

(* on_close, and http_conf.callback for a request that failed or was       *)
(* answered by an error                                                    *)
Failed == [Idle EXCEPT !.retry = TRUE]

(* http_conf.callback for whatever is not a stream: the request is closed  *)
(* and made again, at once after a redirection                             *)
Answered == {Failed} \cup Requests

Receives(s, new) == receiver' = [receiver EXCEPT ![s] = new]

-------------------------------------------------------------------------------
(* on_connect: the timer is set again *)
OnConnect(s) ==
    /\ receiver[s].request = "connecting"
    /\ Receives(s, [receiver[s] EXCEPT !.request = "sent", !.timer = "request"])

(* on_close of a socket that has failed or was closed: what has come may   *)
(* be enough of an answer                                                  *)
OnClose(s) ==
    \/ receiver[s].request \in {"connecting", "sent", "streaming"} /\ Receives(s, Failed)
    \/ receiver[s].request = "reading" /\ \E r \in Answered : Receives(s, r)

(* on_read: the first bytes stop the timer.  The answer goes on, or is     *)
(* complete, or cannot be parsed.                                          *)
OnRead(s) ==
    /\ receiver[s].request \in {"sent", "reading"}
    /\ \E r \in Answered \cup {[Idle EXCEPT !.request = "reading"]} : Receives(s, r)

(* on_read of the header of a stream, with check_is_active for a timer *)
OnStream(s) ==
    /\ receiver[s].request \in {"sent", "reading"}
    /\ Receives(s, [Idle EXCEPT !.request = "streaming", !.timer = "activity"])

(* timeout_callback, and check_is_active of a stream that gave nothing *)
OnTimeout(s) == receiver[s].timer # "none" /\ Receives(s, Failed)

(* timer_conf.callback *)
Retry(s) == receiver[s].retry /\ \E r \in Requests : Receives(s, r)

HttpInputStep(s) ==
    OnConnect(s) \/ OnClose(s) \/ OnRead(s) \/ OnStream(s) \/ OnTimeout(s) \/ Retry(s)
===============================================================================
