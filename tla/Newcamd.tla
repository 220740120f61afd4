------------------------------- MODULE Newcamd --------------------------------
(***************************************************************************)
(* The newcamd client (stream/softcam/cam/newcamd.c) and what it shares    *)
(* with other cams (cam.c, module_cam.h): a connection to a card server    *)
(* that is logged in, used for one request at a time, watched by one timer *)
(* and made again whenever it fails, while decrypt modules come and go.    *)
(*                                                                         *)
(* A step is one callback: of the socket, of a timer, or of a decrypt      *)
(* module.  The server is the environment.  It answers the requests of a   *)
(* connection in order, if it does, and sends keepalives and other         *)
(* messages when it likes.  A message is read in two callbacks, length     *)
(* and body, into the buffer that on_newcamd_ready fills to send:          *)
(* sending in between drops the length, and the rest of the message is     *)
(* then taken for another one (`garbled'), whose length or checksum is     *)
(* wrong.  A cam module outlives its decrypt modules.                      *)
(***************************************************************************)
EXTENDS Integers, Sequences, SequencesExt

CONSTANTS
    Decrypt,      \* the decrypt modules that may use the cam
    NoPacket,
    MaxQueue,     \* bound on packet_queue; the code has none
    MaxLost       \* bound on the timers that are lost

ASSUME NewcamdAssumption ==
    /\ MaxQueue \in Nat
    /\ MaxLost \in Nat
    /\ NoPacket \notin [decrypt : Decrypt, kind : {"ecm", "emm"},
                        id : 0..(MaxQueue + 1)]

VARIABLES
    status,     \* -1 waits to retry, 0 connecting, 1 login, 2 card, 3 in use
    sock,       \* mod->sock: "none", "connecting", "dead" when connect()
                \* failed at once and no event will come, "up"
    greeted,    \* on_read is on_newcamd_read_packet
    on_ready,   \* the socket's on_ready is on_newcamd_ready
    half,       \* the length of a message has been read, not its body
    garbled,    \* the next bytes of the connection are not a message's first
    timeout,    \* mod->timeout is set
    lost,       \* periodic timers on on_timeout that nothing refers to
    is_ready,   \* __cam.is_ready
    packet,     \* mod->packet
    queue,      \* __cam.packet_queue
    users,      \* __cam.decrypt_list
    told,       \* the decrypt modules that have the cam's CAID
    hello,      \* the login or the request for the card is with the server
    asked       \* packets that are with the server, to be answered

stream == <<greeted, on_ready, half, garbled, hello, asked>>
requests == <<packet, queue>>
vars == <<status, sock, stream, timeout, lost, is_ready, requests, users, told>>

(* The id stands for the address of the em_packet_t.  `arg', the ECM       *)
(* stream of the decrypt module, is the same for all its packets here.     *)
Packet == [decrypt : Decrypt, kind : {"ecm", "emm"}, id : 0..(MaxQueue + 1)]

Allocated == ToSet(queue) \cup ({packet} \ {NoPacket})

FreshId == CHOOSE i \in 0..(MaxQueue + 1) : \A p \in Allocated : p.id # i

(* Types, and a packet is in one place.                                    *)
TypeOK ==
    /\ status \in -1..3
    /\ sock \in {"none", "connecting", "dead", "up"}
    /\ greeted \in BOOLEAN
    /\ on_ready \in BOOLEAN
    /\ half \in BOOLEAN
    /\ garbled \in BOOLEAN
    /\ timeout \in BOOLEAN
    /\ lost \in 0..MaxLost
    /\ is_ready \in BOOLEAN
    /\ packet \in Packet \cup {NoPacket}
    /\ queue \in Seq(Packet)
    /\ Len(queue) <= MaxQueue
    /\ packet \notin ToSet(queue)
    /\ users \subseteq Decrypt
    /\ told \subseteq Decrypt
    /\ hello \in BOOLEAN
    /\ asked \in Seq(Packet)

Init ==
    /\ status = 0
    /\ sock = "none"
    /\ greeted = FALSE
    /\ on_ready = FALSE
    /\ half = FALSE
    /\ garbled = FALSE
    /\ timeout = FALSE
    /\ lost = 0
    /\ is_ready = FALSE
    /\ packet = NoPacket
    /\ queue = <<>>
    /\ users = {}
    /\ told = {}
    /\ hello = FALSE
    /\ asked = <<>>

-----------------------------------------------------------------------------
(* newcamd_connect, once it is known that there is no socket.              *)
Connect ==
    /\ status' = 0
    /\ sock' \in {"connecting", "dead"}
    /\ timeout' = TRUE

FreshStream ==
    /\ greeted' = FALSE
    /\ on_ready' = FALSE
    /\ half' = FALSE
    /\ garbled' = FALSE
    /\ hello' = FALSE
    /\ asked' = <<>>

(* What on_newcamd_close does whatever the status: module_cam_reset tells  *)
(* every decrypt module, and no packet survives.                           *)
Drop ==
    /\ FreshStream
    /\ is_ready' = FALSE
    /\ told' = told \ users
    /\ packet' = NoPacket
    /\ queue' = <<>>

(* newcamd_reconnect(mod, true), which is only called on an open socket.   *)
ReconnectLater ==
    /\ Drop
    /\ status' = 0
    /\ sock' = "none"
    /\ timeout' = TRUE
    /\ UNCHANGED <<lost, users>>

(* on_newcamd_close as the socket's callback: the peer has closed the      *)
(* connection, or it could not be made.                                    *)
OnClose ==
    /\ sock \in {"connecting", "up"}
    /\ Drop
    /\ status' = -1
    /\ sock' = "none"
    /\ timeout' = TRUE
    /\ UNCHANGED <<lost, users>>

(* Changed form, not used: a response timeout is only logged.              *)
OnTimeoutLog ==
    IF status = 3
    THEN /\ timeout' = FALSE
         /\ UNCHANGED <<status, sock, stream, requests, is_ready, told, lost,
                        users>>
    ELSE /\ IF sock = "none"
            THEN UNCHANGED <<stream, requests, is_ready, told>> ELSE Drop
         /\ Connect
         /\ UNCHANGED <<lost, users>>

(* on_timeout.  Waiting to retry or not, it ends in newcamd_connect; the   *)
(* timer that fired need not be mod->timeout, but that is what it frees.   *)
OnTimeout ==
    /\ IF sock = "none" THEN UNCHANGED <<stream, requests, is_ready, told>>
                        ELSE Drop
    /\ Connect
    /\ UNCHANGED <<lost, users>>

Timeout == timeout /\ OnTimeout

LostTimeout == lost > 0 /\ OnTimeout

-----------------------------------------------------------------------------
(* Changed form, not used: a decrypt module that is attached while the cam *)
(* is ready is not told so.                                                *)
AttachNotTold(d) ==
    /\ d \notin users
    /\ IF sock = "none"
       THEN /\ Connect
            /\ lost' = IF timeout THEN lost + 1 ELSE lost
            /\ lost' <= MaxLost
       ELSE UNCHANGED <<status, sock, timeout, lost>>
    /\ users' = users \cup {d}
    /\ UNCHANGED <<stream, is_ready, requests, told>>

(* module_cam_attach_decrypt: connect comes first, and does not look       *)
(* whether a retry timer is set.                                           *)
Attach(d) ==
    /\ d \notin users
    /\ IF sock = "none"
       THEN /\ Connect
            /\ lost' = IF timeout THEN lost + 1 ELSE lost
            /\ lost' <= MaxLost
       ELSE UNCHANGED <<status, sock, timeout, lost>>
    /\ users' = users \cup {d}
    /\ told' = IF is_ready THEN told \cup {d} ELSE told \ {d}
    /\ UNCHANGED <<stream, is_ready, requests>>

(* module_cam_queue_flush: the packets of q that are not in T.             *)
Flushed(q, T) ==
    LET kept[i \in 0..Len(q)] ==
            IF i = 0 THEN <<>>
            ELSE IF q[i] \in T THEN kept[i - 1] ELSE Append(kept[i - 1], q[i])
    IN  kept[Len(q)]

Others(d) == Flushed(queue, {p \in ToSet(queue) : p.decrypt = d})

(* module_cam_detach_decrypt, when the decrypt module is destroyed.  Its   *)
(* packet stays if it is the current one.                                  *)
DetachOne(d) ==
    /\ users # {d}
    /\ queue' = Others(d)
    /\ UNCHANGED <<status, sock, stream, timeout, is_ready, packet>>

(* The last user's: newcamd_disconnect.  Without a socket only the status  *)
(* changes, and a retry timer stays set.                                   *)
DetachLast(d) ==
    /\ users = {d}
    /\ IF sock = "none"
       THEN /\ status' = -1
            /\ queue' = Others(d)
            /\ UNCHANGED <<sock, stream, timeout, is_ready, packet>>
       ELSE /\ FreshStream
            /\ is_ready' = FALSE
            /\ packet' = NoPacket
            /\ queue' = <<>>
            /\ status' = 0
            /\ sock' = "none"
            /\ timeout' = FALSE

Detach(d) ==
    /\ d \in users
    /\ users' = users \ {d}
    /\ told' = told \ {d}
    /\ DetachOne(d) \/ DetachLast(d)
    /\ UNCHANGED lost

(* newcamd_send_em, called by on_em of a decrypt module that sees the cam  *)
(* ready: a new ECM takes the place of one of the same stream that waits   *)
(* (the first, but there never are two).                                   *)
SendEm(d, kind) ==
    LET p == [decrypt |-> d, kind |-> kind, id |-> FreshId]
        Replaced(q) == q.decrypt = d /\ q.kind = "ecm" /\ kind = "ecm"
        kept == Flushed(queue, {q \in ToSet(queue) : Replaced(q)})
    IN  /\ d \in users
        /\ is_ready
        /\ status = 3
        /\ IF packet = NoPacket
           THEN /\ packet' = p
                /\ queue' = kept
                /\ on_ready' = TRUE
           ELSE /\ Len(kept) < MaxQueue
                /\ queue' = Append(kept, p)
                /\ UNCHANGED <<packet, on_ready>>
        /\ UNCHANGED <<status, sock, greeted, half, garbled, hello, asked, timeout,
                       lost, is_ready, users, told>>

-----------------------------------------------------------------------------
(* on_newcamd_connect.                                                     *)
Connected ==
    /\ sock = "connecting"
    /\ sock' = "up"
    /\ status' = 1
    /\ timeout' = TRUE
    /\ half' = FALSE
    /\ UNCHANGED <<greeted, on_ready, garbled, hello, asked, lost, is_ready, requests,
                   users, told>>

(* on_newcamd_read_init: the server's random key; the login comes next.    *)
ReadInit ==
    /\ sock = "up"
    /\ ~greeted
    /\ greeted' = TRUE
    /\ on_ready' = TRUE
    /\ UNCHANGED <<status, sock, half, garbled, hello, asked, timeout, lost, is_ready,
                   requests, users, told>>

(* Changed form, not used: no timer watches what is sent in use.           *)
ReadyNoTimer ==
    /\ sock = "up"
    /\ on_ready
    /\ on_ready' = FALSE
    /\ IF packet = NoPacket
       THEN hello' = (status # 3) /\ asked' = asked
       ELSE hello' = hello /\ asked' = Append(asked, packet)
    /\ garbled' = (garbled \/ half)
    /\ half' = FALSE
    /\ UNCHANGED <<status, sock, greeted, timeout, lost, is_ready, requests,
                   users, told>>

(* on_newcamd_ready: the current packet goes out, or else the login, the   *)
(* request for the card, or the answer to a keepalive.  What was read of a *)
(* message is forgotten.                                                   *)
Ready ==
    /\ sock = "up"
    /\ on_ready
    /\ on_ready' = FALSE
    /\ IF packet = NoPacket
       THEN hello' = (status # 3) /\ asked' = asked
       ELSE hello' = hello /\ asked' = Append(asked, packet)
    /\ timeout' = TRUE
    /\ garbled' = (garbled \/ half)
    /\ half' = FALSE
    /\ UNCHANGED <<status, sock, greeted, lost, is_ready, requests, users, told>>

(* on_newcamd_ready cannot send, or on_newcamd_read_packet or _init cannot *)
(* read.                                                                   *)
IoFails ==
    /\ sock = "up"
    /\ ReconnectLater

(* on_newcamd_read_packet before the login was sent: buffer_skip is still  *)
(* that of the key, so that what comes is read as the rest of a message.   *)
ReadEarly ==
    /\ sock = "up"
    /\ greeted
    /\ status = 1 /\ ~hello
    /\ garbled' = TRUE
    /\ UNCHANGED <<status, sock, greeted, on_ready, half, hello, asked, timeout,
                   lost, is_ready, requests, users, told>>

(* on_newcamd_read_packet, the length.                                     *)
ReadLength ==
    /\ sock = "up"
    /\ greeted
    /\ status # 1 \/ hello
    /\ ~half
    /\ ~garbled
    /\ half' = TRUE
    /\ UNCHANGED <<status, sock, greeted, on_ready, garbled, hello, asked, timeout,
                   lost, is_ready, requests, users, told>>

(* Bytes that are not the start of a message: the message they make is too *)
(* long or has a wrong checksum.                                           *)
ReadGarbled ==
    /\ sock = "up"
    /\ garbled
    /\ ReconnectLater

Body ==
    /\ sock = "up"
    /\ half
    /\ half' = FALSE
    /\ UNCHANGED <<sock, greeted, garbled, lost, users>>

ReadLoginAck ==
    /\ Body
    /\ status = 1
    /\ hello
    /\ status' = 2
    /\ on_ready' = TRUE
    /\ hello' = FALSE
    /\ UNCHANGED <<asked, timeout, is_ready, requests, told>>

(* The card's data: module_cam_ready tells every decrypt module.           *)
ReadCard ==
    /\ Body
    /\ status = 2
    /\ hello
    /\ status' = 3
    /\ hello' = FALSE
    /\ timeout' = FALSE
    /\ is_ready' = TRUE
    /\ told' = told \cup users
    /\ UNCHANGED <<on_ready, asked, requests>>

(* Anything else in the place of these two.                                *)
ReadWrong ==
    /\ sock = "up"
    /\ half
    /\ status \in {1, 2}
    /\ ReconnectLater

(* Changed forms, not used: the next packet is made current but not sent,  *)
(* or stays in the queue.                                                  *)
NextPacketQuiet ==
    /\ packet' = IF queue = <<>> THEN NoPacket ELSE Head(queue)
    /\ queue' = IF queue = <<>> THEN <<>> ELSE Tail(queue)
    /\ UNCHANGED on_ready

NextPacketTwice ==
    /\ packet' = IF queue = <<>> THEN NoPacket ELSE Head(queue)
    /\ on_ready' = (on_ready \/ queue # <<>>)
    /\ UNCHANGED queue

(* module_cam_queue_pop.                                                   *)
NextPacket ==
    IF queue = <<>>
    THEN /\ packet' = NoPacket
         /\ UNCHANGED <<queue, on_ready>>
    ELSE /\ packet' = Head(queue)
         /\ queue' = Tail(queue)
         /\ on_ready' = TRUE

(* The answer to a request.  It is handed to on_cam_response of the        *)
(* packet's decrypt module unless that has gone (the descrambling keys     *)
(* belong to the decrypt module and are not kept here).                    *)
ReadAnswer ==
    /\ Body
    /\ status = 3
    /\ packet # NoPacket
    /\ asked # <<>>
    /\ asked' = Tail(asked)
    /\ timeout' = FALSE
    /\ NextPacket
    /\ UNCHANGED <<status, hello, is_ready, told>>

ReadKeepalive ==
    /\ Body
    /\ status = 3
    /\ packet = NoPacket
    /\ on_ready' = TRUE
    /\ UNCHANGED <<status, hello, asked, timeout, is_ready, requests, told>>

(* A type that is not known, or a keepalive while a packet is out.         *)
ReadIgnored ==
    /\ Body
    /\ status = 3
    /\ UNCHANGED <<status, on_ready, hello, asked, timeout, is_ready, requests,
                   told>>

Read ==
    \/ ReadInit \/ ReadEarly \/ ReadLength \/ ReadGarbled
    \/ ReadLoginAck \/ ReadCard \/ ReadWrong
    \/ ReadAnswer \/ ReadKeepalive \/ ReadIgnored

Next ==
    \/ \E d \in Decrypt : Attach(d) \/ Detach(d)
    \/ \E d \in Decrypt, kind \in {"ecm", "emm"} : SendEm(d, kind)
    \/ Connected \/ Ready \/ IoFails \/ OnClose \/ Read
    \/ Timeout \/ LostTimeout

(* The main loop serves a writable socket and fires a timer that is due.   *)
(* Nothing is assumed of the server, nor of the decrypt modules.           *)
Fairness ==
    /\ WF_vars(Ready)
    /\ WF_vars(Timeout)

Spec == Init /\ [][Next]_vars /\ Fairness

-----------------------------------------------------------------------------
(* No silence is endless: while a connection is being made or logged in,   *)
(* while a request is out, and while users wait for the next attempt, a    *)
(* timer is set, whatever stray timers have done to it.  (newcamd.c:       *)
(* on_newcamd_close, newcamd_reconnect, on_newcamd_ready)                  *)
Watched ==
    /\ sock = "none" /\ users # {} => timeout
    /\ sock # "none" /\ status # 3 => timeout
    /\ status = 3 /\ asked # <<>> => timeout

(* The answers are not labelled: the next answer is taken for the answer   *)
(* to mod->packet.  So the server owes an answer to that packet alone, or  *)
(* the packet is still to be sent; and no packet is left in the queue      *)
(* behind nothing.  (newcamd.c: on_newcamd_read_packet, newcamd_send_em)   *)
AnswerFits ==
    status = 3 =>
        /\ packet = NoPacket => asked = <<>> /\ queue = <<>>
        /\ packet # NoPacket => asked = IF on_ready THEN <<>> ELSE <<packet>>

(* A decrypt module uses the cam's CAID exactly while the cam can serve    *)
(* it, whichever of the two comes first, and packets exist only then.      *)
(* (cam.c: module_cam_attach_decrypt, module_cam_ready, module_cam_reset)  *)
ReadyIsKnown ==
    /\ is_ready <=> status = 3
    /\ is_ready => sock = "up"
    /\ told = IF is_ready THEN users ELSE {}
    /\ Allocated # {} => is_ready

(* A request does not wait forever: it is answered, replaced, or dropped   *)
(* with its connection, which the timer sees to when the server is silent. *)
(* (newcamd.c: on_timeout, on_newcamd_ready)                               *)
RequestEnds ==
    \A p \in Packet : p \in Allocated ~> p \notin Allocated
=============================================================================
