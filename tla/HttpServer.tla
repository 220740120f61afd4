------------------------------ MODULE HttpServer ------------------------------
(***************************************************************************)
(* The clients of an HTTP server (stream/http/server.c) whose only route   *)
(* leads to http_upstream (modules/upstream.c): a request is read, it is   *)
(* answered with an error or a redirection, or the client is attached to   *)
(* the stream and gets packets through a buffer until it is closed.        *)
(*                                                                         *)
(* A socket has one handler for each direction.  While the header of an    *)
(* answer is being sent, the handlers for afterwards wait in               *)
(* client->on_read and client->on_ready: they follow from what the answer  *)
(* is.  Packets come while the header is sent, too, and once there are     *)
(* enough of them on_ts sets its own handler, whatever is set: then the    *)
(* header is never sent and nobody reads the socket any more.              *)
(*                                                                         *)
(* Parsing is a choice of outcomes.  A send or a read that does a part of  *)
(* the work and is repeated is left out, except for packets.  Whether a    *)
(* client counts (`listed') is the callback's affair (Channel).            *)
(***************************************************************************)
EXTENDS Integers

CONSTANTS
    Client,     \* memory for clients: what was freed is used again
    Size,       \* packets that fit in response->buffer
    Fill        \* buffer_fill, in packets

(* on_upstream_send; both are multiples of 1024 bytes *)
ASSUME HttpAssumption == Size \in Nat /\ Fill \in Nat \ {0} /\ Fill < Size

VARIABLE conn   \* conn[c]: what server and upstream know of a client

Conn == [
    open     : BOOLEAN,                        \* client->sock
    status   : 0..3,
    on_read  : {"none", "request", "upstream"},
    on_ready : {"none", "response", "content", "upstream"},
    head     : BOOLEAN,                        \* is_head
    content  : BOOLEAN,                        \* idx_content
    response : {"none", "bare", "attached"},   \* attached to the stream, or not
    listed   : BOOLEAN,                        \* client_data.client_id
    count    : 0..Size,                        \* buffer_count
    busy     : BOOLEAN ]                       \* is_socket_busy

Closed == [
    open |-> FALSE, status |-> 0, on_read |-> "none", on_ready |-> "none",
    head |-> FALSE, content |-> FALSE, response |-> "none", listed |-> FALSE,
    count |-> 0, busy |-> FALSE ]

HttpTypeOK == conn \in [Client -> Conn]

HttpInit == conn = [c \in Client |-> Closed]

Becomes(c, new) == conn' = [conn EXCEPT ![c] = new]

Attached(c) == conn[c].response = "attached"

-------------------------------------------------------------------------------
(* on_server_accept *)
Accept(c) ==
    /\ ~conn[c].open
    /\ Becomes(c, [Closed EXCEPT !.open = TRUE, !.on_read = "request"])

(* on_client_close: everything the client has is freed *)
Close(c) == Becomes(c, Closed)

(* http_response_send *)
Send(r) == [r EXCEPT !.on_read = "none", !.on_ready = "response"]

(* http_client_abort: an error with a page *)
Abort(r) == Send([r EXCEPT !.content = TRUE])

(* http_client_redirect, for an unsafe path: closed after the header.  The *)
(* request is not over then, so nobody is told of the end.                 *)
Redirect(r) == Send([r EXCEPT !.status = 1, !.content = FALSE, !.head = TRUE])

(* on_upstream_send: the client is attached at once *)
Upstream(r) == Send([r EXCEPT !.response = "attached"])

(* The route's callback: module_call, http_output_on_request and           *)
(* method_send.  The path may be unknown; the client of a known one counts *)
(* whether or not the buffers of its output are configured right.          *)
Called(r) ==
    LET known == [r EXCEPT !.status = 3, !.response = "bare", !.listed = TRUE]
    IN  { Abort([known EXCEPT !.listed = FALSE]), Abort(known), Upstream(known) }

(* What a header can be: of an unsafe path, without a route, with a body  *)
(* to wait for, or complete.                                               *)
Headers(r) == {Redirect(r), Abort(r), r} \cup Called(r)

(* on_client_read with the rest of the header, or with a bad one           *)
ReadHeader(c) ==
    /\ conn[c].on_read = "request" /\ conn[c].status = 0
    /\ \/ Close(c)
       \/ \E head \in BOOLEAN :
            \E r \in Headers([conn[c] EXCEPT !.status = 2, !.head = head]) :
                Becomes(c, r)

(* on_client_read with the rest of the body, or with the end of the stream *)
ReadBody(c) ==
    /\ conn[c].on_read = "request" /\ conn[c].status = 2
    /\ \/ Close(c)
       \/ \E r \in Called(conn[c]) : Becomes(c, r)

(* on_ready_send_response: when the header is sent the connection ends,    *)
(* or the handlers for what follows are set                                *)
SendResponse(c) ==
    LET r == conn[c]
        follows == (r.content \/ r.response # "none") /\ ~r.head
    IN  /\ r.on_ready = "response"
        /\ \/ Close(c)                          \* no more to send, or an error
           \/ /\ follows
              /\ Becomes(c, [r EXCEPT
                    !.on_read = IF Attached(c) THEN "upstream" ELSE "none",
                    !.on_ready = IF r.content THEN "content" ELSE "none"])

(* on_ready_send_content: sent, or an error *)
SendContent(c) == conn[c].on_ready = "content" /\ Close(c)

(* on_upstream_ready: some packets are sent *)
UpstreamReady(c) ==
    LET r == conn[c]
    IN  /\ r.on_ready = "upstream"
        /\ \/ r.count > 0 /\ Close(c)           \* an error
           \/ \E n \in 0..r.count :
                Becomes(c,
                    IF n = r.count
                    THEN [r EXCEPT !.count = 0, !.on_ready = "none", !.busy = FALSE]
                    ELSE [r EXCEPT !.count = @ - n])

(* on_upstream_read: what comes is ignored *)
UpstreamRead(c) == conn[c].on_read = "upstream" /\ Close(c)

(* the event's error handler *)
OnError(c) == conn[c].open /\ Close(c)

HttpStep(c) ==
    \/ Accept(c) \/ ReadHeader(c) \/ ReadBody(c)
    \/ SendResponse(c) \/ SendContent(c)
    \/ UpstreamReady(c) \/ UpstreamRead(c) \/ OnError(c)

-------------------------------------------------------------------------------
(* Packets                                                                 *)

Overflows(r) == r.count + 1 >= Size

(* Changed form, not used: the buffer is emptied and the socket stays      *)
(* busy.                                                                   *)
OverflowBusy(r) ==
    IF r.busy THEN [r EXCEPT !.count = 0, !.on_ready = "none"]
              ELSE [r EXCEPT !.count = 0]

(* a client that reads too slowly loses all that is buffered *)
Overflow(r) ==
    IF r.busy THEN [r EXCEPT !.count = 0, !.on_ready = "none", !.busy = FALSE]
              ELSE [r EXCEPT !.count = 0]

Store(r) ==
    LET more == [r EXCEPT !.count = @ + 1]
    IN  IF ~r.busy /\ more.count >= Fill
        THEN [more EXCEPT !.on_ready = "upstream", !.busy = TRUE]
        ELSE more

(* on_ts, of every client that is attached *)
OnTs ==
    conn' = [c \in Client |->
                IF ~Attached(c) THEN conn[c]
                ELSE IF Overflows(conn[c]) THEN Overflow(conn[c])
                     ELSE Store(conn[c])]
===============================================================================
