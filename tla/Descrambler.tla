----------------------------- MODULE Descrambler ------------------------------
(***************************************************************************)
(* The decrypt module (stream/softcam/decrypt.c): packets are collected in *)
(* a storage and descrambled in batches, while the words that open them    *)
(* come from a cam, are received at any time, and are put into use between *)
(* two batches.  Tables that change, and a cam that is lost or found again,*)
(* throw away what has been built so far.                                  *)
(*                                                                         *)
(* The stream is cut into crypto periods: the packets of period n are      *)
(* scrambled with word n, whose parity is that of n, and ECM n, which holds*)
(* the words n and n + 1, is sent in period n and may be sent somewhat     *)
(* earlier.  One ECM pid and one elementary stream are modelled, of a      *)
(* program that is not under BISS; the shift buffer, which delays all      *)
(* packets, is of size 0.  Words are equal when their checksum bytes are.  *)
(* The storage is a sequence whose first `dsc_count' packets may be sent;  *)
(* a batch is the set of the places that its pointers name, the places of  *)
(* packets that have been sent being 0 and below.                          *)
(***************************************************************************)
EXTENDS Integers, Sequences, FiniteSets

CONSTANTS
    MaxPeriod,      \* bound on the crypto periods
    Clear,          \* what a packet that is not scrambled has for a period
    BatchSize,      \* dvbcsa_bs_batch_size()
    StorageSize,    \* the packets the storage holds
    Address         \* where malloc may place a ca_stream_t

ASSUME DescramblerAssumption ==
    /\ MaxPeriod \in Nat
    /\ Clear \notin Int
    /\ BatchSize \in Nat \ {0}
    /\ StorageSize \in Nat
    /\ BatchSize < StorageSize
    /\ Address # {}

VARIABLES
    is_ready,     \* the cam is ready
    pat,          \* the PAT has been read since the last reload
    pmt,          \* "none", "wait" for its first section, "read"
    cas,          \* __decrypt.cas is set
    ca,           \* the ca_stream_t in ca_list, or NoCa
    storage,      \* the packets in mod->storage: their period, the words they
                  \* were descrambled with, one after the other, and (history)
                  \* if they came in time (InTime) to a slot of their own
    dsc_count,
    period,       \* of the last scrambled packet that arrived
    asked,        \* ECMs the cam has accepted and not answered
    ecm,          \* the ECM that is on the air
    overtaken     \* history: packets went past those in the storage

vars == <<is_ready, pat, pmt, cas, ca, storage, dsc_count, period, ecm, asked,
          overtaken>>

Period == 0..MaxPeriod
Words == 0..(MaxPeriod + 1)
None == -1

NoCa == [at |-> "none"]

(* The fields of a ca_stream_t.  key[p] is the word of parity p in use,    *)
(* new_key[p] the last one received.                                       *)
CaStream ==
    [at : Address, ecm_type : {None, 0, 1}, parity : {None, 0, 1},
     key : [0..1 -> Words \cup {None}], new_key : [0..1 -> Words \cup {None}],
     new_key_id : 0..3, batch : SUBSET ((1 - StorageSize)..StorageSize)]

Packets == [n : Period \cup {Clear}, words : Seq(Words \cup {None}),
            in_time : BOOLEAN]

Ecms == [n : Period, arg : Address]

(* Types, and neither the storage nor a batch is full when a packet        *)
(* arrives.                                                                *)
TypeOK ==
    /\ is_ready \in BOOLEAN
    /\ pat \in BOOLEAN
    /\ pmt \in {"none", "wait", "read"}
    /\ cas \in BOOLEAN
    /\ ca \in CaStream \cup {NoCa}
    /\ storage \in Seq(Packets)
    /\ Len(storage) < StorageSize
    /\ ca # NoCa => Cardinality(ca.batch) < BatchSize
    /\ dsc_count \in 0..Len(storage)
    /\ period \in Period
    /\ asked \in Seq(Ecms)
    /\ ecm \in {period, period + 1} \cap Period
    /\ overtaken \in BOOLEAN

Init ==
    /\ is_ready = FALSE
    /\ pat = FALSE
    /\ pmt = "none"
    /\ cas = FALSE
    /\ ca = NoCa
    /\ storage = <<>>
    /\ dsc_count = 0
    /\ period = 0
    /\ asked = <<>>
    /\ ecm = 0
    /\ overtaken = FALSE

-----------------------------------------------------------------------------
(* module_decrypt_cas_destroy: the ca_streams go with their batches.       *)
CasDestroy ==
    /\ cas' = FALSE
    /\ ca' = NoCa

(* Changed form, not used: the ca_stream keeps its batch in a reload.      *)
ForgetKeepCa ==
    /\ UNCHANGED ca
    /\ storage' = <<>>
    /\ dsc_count' = 0
    /\ overtaken' = FALSE

(* stream_reload, up to the parsing that may follow.                       *)
Forget ==
    /\ ca' = NoCa
    /\ storage' = <<>>
    /\ dsc_count' = 0
    /\ overtaken' = FALSE

StreamReload ==
    /\ Forget
    /\ cas' = FALSE
    /\ pat' = FALSE
    /\ pmt' = "none"

(* on_pat: a first PAT, or one that differs from the last, after which the *)
(* module starts over at once.                                             *)
Pat ==
    /\ IF pat THEN Forget
              ELSE UNCHANGED <<ca, storage, dsc_count, overtaken>>
    /\ pat' = TRUE
    /\ pmt' = "wait"
    /\ cas' = is_ready
    /\ UNCHANGED <<is_ready, period, ecm, asked>>

FreshCa(a) ==
    [at |-> a, ecm_type |-> None, parity |-> None,
     key |-> [p \in 0..1 |-> None], new_key |-> [p \in 0..1 |-> None],
     new_key_id |-> 0, batch |-> {}]

(* on_pmt, first seen: the ECM pid is selected if there is a cas for it.   *)
Pmt ==
    /\ pmt = "wait"
    /\ pmt' = "read"
    /\ IF cas THEN \E a \in Address : ca' = FreshCa(a)
              ELSE UNCHANGED ca
    /\ UNCHANGED <<is_ready, pat, cas, storage, dsc_count, period, ecm, asked,
                   overtaken>>

(* on_pmt or on_cat, a section that differs: wait for the next PAT.        *)
TableChanged ==
    /\ pmt = "read"
    /\ StreamReload
    /\ UNCHANGED <<is_ready, period, ecm, asked>>

(* on_cam_ready and on_cam_error; the cam drops its packets on an error.   *)
CamReady ==
    /\ ~is_ready
    /\ is_ready' = TRUE
    /\ StreamReload
    /\ UNCHANGED <<period, ecm, asked>>

CamError ==
    /\ is_ready
    /\ is_ready' = FALSE
    /\ asked' = <<>>
    /\ CasDestroy
    /\ UNCHANGED <<pat, pmt, storage, dsc_count, period, ecm, overtaken>>

-----------------------------------------------------------------------------
(* newcamd_send_em: behind the packet it has sent the cam keeps one that   *)
(* waits for each ca_stream, the latest.                                   *)
Waiting(arg) == {i \in 2..Len(asked) : asked[i].arg = arg}

Ask(packet) ==
    \/ /\ Waiting(packet.arg) = {}
       /\ asked' = Append(asked, packet)
    \/ \E i \in Waiting(packet.arg) :
          asked' = Append(SubSeq(asked, 1, i - 1) \o SubSeq(asked, i + 1, Len(asked)),
                          packet)

(* on_em with the ECM on the air, or with the next.                        *)
Ecm(n) ==
    /\ ecm' = n
    /\ is_ready
    /\ ca # NoCa
    /\ ca.ecm_type # n % 2
    /\ ca' = [ca EXCEPT !.ecm_type = n % 2]
    /\ Ask([n |-> n, arg |-> ca.at])
    /\ UNCHANGED <<is_ready, pat, pmt, cas, storage, dsc_count, period,
                   overtaken>>

(* The words n and n + 1, even and odd.                                    *)
WordsOf(n) == [p \in 0..1 |-> IF n % 2 = p THEN n ELSE n + 1]

(* on_cam_response: which of the two words are new.                        *)
Received(c, w) ==
    IF c.new_key[1] = w[1]
    THEN [c EXCEPT !.new_key[0] = w[0], !.new_key_id = 1]
    ELSE IF c.new_key[0] = w[0]
         THEN [c EXCEPT !.new_key[1] = w[1], !.new_key_id = 2]
         ELSE [c EXCEPT !.new_key = w, !.new_key_id = 3]

Response(found) ==
    /\ asked # <<>>
    /\ asked' = Tail(asked)
    /\ ca' = IF ca # NoCa /\ Head(asked).arg = ca.at /\ cas /\ found
             THEN Received(ca, WordsOf(Head(asked).n))
             ELSE ca
    /\ UNCHANGED <<is_ready, pat, pmt, cas, storage, dsc_count, period, ecm,
                   overtaken>>

-----------------------------------------------------------------------------
(* A step of on_ts goes through values of these fields.                    *)
State(c, s, d) == [ca |-> c, storage |-> s, dsc_count |-> d]

(* The storage is a ring: a place that has been left is used again, and a  *)
(* pointer to it opens whatever is there now, once more if need be.        *)
Opened(c, s) ==
    [i \in DOMAIN s |-> IF {i, i - StorageSize} \cap c.batch # {}
                        THEN [s[i] EXCEPT !.words = Append(@, c.key[c.parity])]
                        ELSE s[i]]

IsNew(c, p) == c.new_key_id \in {p + 1, 3}

WithNewKeys(c) ==
    [c EXCEPT !.key = [p \in 0..1 |-> IF IsNew(c, p) THEN c.new_key[p]
                                                      ELSE c.key[p]],
              !.new_key_id = 0]

(* Changed form, not used: the new words first, then the batch.            *)
DecryptedKeysFirst(st) ==
    State([WithNewKeys(st.ca) EXCEPT !.batch = {}],
          Opened(WithNewKeys(st.ca), st.storage), Len(st.storage))

(* decrypt: the batch first, then the new words.                           *)
Decrypted(st) ==
    State([WithNewKeys(st.ca) EXCEPT !.batch = {}], Opened(st.ca, st.storage),
          Len(st.storage))

ChangesParity(c, n) == c.parity \notin {None, n % 2}

(* History: the packet's word is in use as it arrives, or put into use by  *)
(* its arrival, and no other word has been received in its place; a packet *)
(* that is not scrambled needs none.                                       *)
InTime(c, n) ==
    \/ n = Clear
    \/ /\ c.new_key[n % 2] = n
       /\ c.key[n % 2] = n \/ (ChangesParity(c, n) /\ IsNew(c, n % 2))

(* History: the packet does not come to a slot which the batch still names *)
(* for a packet that has been sent.                                        *)
OwnSlot(st) == Len(st.storage) + 1 - StorageSize \notin st.ca.batch

Stored(st, n) ==
    [st EXCEPT !.storage =
        Append(@, [n |-> n, words |-> <<>>,
                   in_time |-> InTime(st.ca, n) /\ OwnSlot(st)])]

(* A batch is descrambled when the stream changes to the other word ...    *)
Switched(st, n) ==
    IF ChangesParity(st.ca, n) THEN Decrypted(st) ELSE st

InBatch(st, n) ==
    State([st.ca EXCEPT !.parity = n % 2, !.batch = @ \cup {Len(st.storage)}],
          st.storage, st.dsc_count)

Scrambled(st, n) ==
    IF n = Clear THEN st ELSE InBatch(Switched(st, n), n)

(* Changed form, not used: a full storage is not looked at.                *)
WhenFullBatchOnly(st) ==
    IF Cardinality(st.ca.batch) >= BatchSize THEN Decrypted(st) ELSE st

(* ... when it is full, and when the storage is.                           *)
WhenFull(st) ==
    IF Cardinality(st.ca.batch) >= BatchSize \/ Len(st.storage) >= StorageSize
    THEN Decrypted(st) ELSE st

(* One packet leaves for one that arrives.                                 *)
SendOne(st) ==
    IF st.dsc_count = 0 THEN st
    ELSE State([st.ca EXCEPT !.batch = {i - 1 : i \in @}], Tail(st.storage),
               st.dsc_count - 1)

Handled(n) ==
    SendOne(WhenFull(Scrambled(Stored(State(ca, storage, dsc_count), n), n)))

(* on_ts, for a packet that is not a table.                                *)
Ts(n) ==
    /\ period' = IF n = Clear THEN period ELSE n
    /\ ecm' = IF n # Clear /\ n > ecm THEN n ELSE ecm
    /\ IF ca = NoCa
       THEN /\ overtaken' = (overtaken \/ storage # <<>>)
            /\ UNCHANGED <<ca, storage, dsc_count>>
       ELSE LET st == Handled(n)
            IN  /\ ca' = st.ca
                /\ storage' = st.storage
                /\ dsc_count' = st.dsc_count
                /\ UNCHANGED overtaken
    /\ UNCHANGED <<is_ready, pat, pmt, cas, asked>>

(* The stream stays in its period or goes on to the next.                  *)
Arrives ==
    \E n \in {Clear} \cup ({period, period + 1} \cap Period) : Ts(n)

Next ==
    \/ Pat \/ Pmt \/ TableChanged \/ CamReady \/ CamError
    \/ \E n \in {ecm, period + 1} \cap Period : Ecm(n)
    \/ \E found \in BOOLEAN : Response(found)
    \/ Arrives

Spec == Init /\ [][Next]_vars

-----------------------------------------------------------------------------
(* A packet may be sent before its batch has been descrambled only if it   *)
(* is the first of a batch: decrypt counts the packet that made the stream *)
(* change parity as done, though its own batch only begins.  Every other   *)
(* packet of a batch is still held when the batch is descrambled.  And     *)
(* packets that others have overtaken, which happens when the cam is lost, *)
(* are thrown away and never sent.                                         *)
(* (decrypt.c: decrypt, on_ts, stream_reload, on_cam_error)                *)
HeldUntilOpened ==
    /\ ca # NoCa =>
           \A j \in ca.batch :
               /\ j <= Len(storage)
               /\ j <= dsc_count => \A i \in ca.batch : j <= i
    /\ overtaken => ca = NoCa

(* A packet that came in time, to a slot of its own, is descrambled once   *)
(* at most, and with the word of its period; a packet that is not          *)
(* scrambled is left alone.  A packet waits in its batch while answers     *)
(* arrive, the answer with the word after next among them, which has the   *)
(* same parity, and none of them changes what it is opened with.  The slot *)
(* is not its own when the first packet of the batch was sent (see above)  *)
(* and the ring has come around to it.                                     *)
(* (decrypt.c: on_cam_response, decrypt, on_ts)                            *)
RightWord ==
    \A i \in DOMAIN storage :
        storage[i].in_time =>
            storage[i].words \in {<<>>, <<storage[i].n>>}
=============================================================================
