------------------------------ MODULE EventCore ------------------------------
(***************************************************************************)
(* Event dispatch (core/event-epoll.c; event-poll.c, event-select.c and    *)
(* event-kqueue.c keep the same protocol): one call of the polling         *)
(* function reports a batch of descriptors, whose callbacks are called in  *)
(* turn.  Any callback may create, change and close events, its own        *)
(* included, so the batch may name memory that is gone; is_changed, set    *)
(* whenever an event is created or closed, ends the dispatch of the batch. *)
(***************************************************************************)
EXTENDS AscList

CONSTANTS
    Event,      \* memory for events: a slot that was freed is used again
    NoEvent,
    Kind,       \* the kinds of callbacks in use
    MaxBatch    \* event_mgr->out_size: the most events that one poll reports

ASSUME EventAssumption ==
    /\ NoEvent \notin Event
    /\ Kind \subseteq {"read", "error", "write"}
    /\ MaxBatch \in Nat

(* the order in which the callbacks of one descriptor are looked at *)
Order == <<"read", "error", "write">>

VARIABLES
    event,        \* event[e]: the callbacks that are set
    event_list,
    is_changed,
    batch,        \* what epoll_wait returned and is not yet dispatched:
                  \* events and what happened to them
    calling,      \* the event whose callback runs
    dispatch      \* "idle", "batch", "callback", or "destroy"

eventVars == <<event, event_list, is_changed, batch, calling, dispatch>>

Exists(e) == e \in Elements(event_list)

EventTypeOK ==
    /\ event \in [Event -> SUBSET Kind]
    /\ IsList(event_list, Event)
    /\ is_changed \in BOOLEAN
    /\ Range(batch) \subseteq Event \X SUBSET Kind
    /\ calling \in Event \cup {NoEvent}
    /\ dispatch \in {"idle", "batch", "callback", "destroy"}

EventInit ==
    /\ event = [e \in Event |-> {}]
    /\ event_list = EmptyList
    /\ is_changed = FALSE
    /\ batch = << >>
    /\ calling = NoEvent
    /\ dispatch = "idle"

-----------------------------------------------------------------------------
(* Plausible bugs *)

(* asc_event_close does not report the change *)
EventCloseQuiet(e) ==
    /\ Exists(e)
    /\ event_list' = RemoveItem(event_list, e)
    /\ event' = [event EXCEPT ![e] = {}]
    /\ UNCHANGED <<is_changed, batch, calling, dispatch>>

-----------------------------------------------------------------------------
(* What callbacks and the rest of the program do *)

(* asc_event_init *)
EventCreate(e) ==
    /\ ~Exists(e)
    /\ event_list' = InsertTail(event_list, e)
    /\ is_changed' = TRUE
    /\ UNCHANGED <<event, batch, calling, dispatch>>

(* asc_event_set_on_read and its siblings, each followed by                *)
(* asc_event_subscribe: no change of the list                              *)
EventSet(e, k) ==
    /\ Exists(e)
    /\ \/ event' = [event EXCEPT ![e] = @ \cup {k}]
       \/ event' = [event EXCEPT ![e] = @ \ {k}]
    /\ UNCHANGED <<event_list, is_changed, batch, calling, dispatch>>

(* asc_event_close *)
EventClose(e) ==
    /\ Exists(e)
    /\ event_list' = RemoveItem(event_list, e)
    /\ event' = [event EXCEPT ![e] = {}]
    /\ is_changed' = TRUE
    /\ UNCHANGED <<batch, calling, dispatch>>

EventCall ==
    \E e \in Event :
        EventCreate(e) \/ EventClose(e) \/ \E k \in Kind : EventSet(e, k)

-----------------------------------------------------------------------------
(* asc_event_core_loop *)

(* What epoll may report: readiness that was asked for, and errors and     *)
(* hang-ups, which count as readable too, whether or not they were.        *)
Reported(e) ==
    {k \in SUBSET Kind \ {{}} :
        /\ "write" \in k => "write" \in event[e]
        /\ "read" \in k => "read" \in event[e] \/ "error" \in k}

(* a batch names events that exist, each once *)
Batches ==
    UNION {{b \in [1..n -> Elements(event_list) \X SUBSET Kind] :
              /\ \A i \in 1..n : b[i][2] \in Reported(b[i][1])
              /\ \A i, j \in 1..n : b[i][1] = b[j][1] => i = j} : n \in 0..MaxBatch}

Poll ==
    /\ dispatch = "idle"
    /\ is_changed' = FALSE
    /\ batch' \in Batches
    /\ dispatch' = "batch"
    /\ UNCHANGED <<event, event_list, calling>>

(* The next callback of the first event of the batch that is set and has   *)
(* something to do is called; without one, the loop goes on to the next.   *)
Dispatch ==
    /\ dispatch = "batch"
    /\ batch # << >>
    /\ LET e == Head(batch)[1]
           happened == Head(batch)[2]
           wanted == {i \in DOMAIN Order : Order[i] \in event[e] \cap happened}
       IN  \/ /\ wanted = {}
              /\ batch' = Tail(batch)
              /\ UNCHANGED <<calling, dispatch>>
           \/ \E i \in wanted :
                 /\ \A j \in wanted : i <= j
                 /\ batch' = << <<e, {k \in happened : \E j \in DOMAIN Order :
                                                      j > i /\ Order[j] = k}>> >>
                              \o Tail(batch)
                 /\ calling' = e
                 /\ dispatch' = "callback"
    /\ UNCHANGED <<event, event_list, is_changed>>

(* `if (event_mgr->is_changed) break;' *)
EventReturn ==
    /\ dispatch = "callback"
    /\ calling' = NoEvent
    /\ dispatch' = "batch"
    /\ batch' = IF is_changed THEN << >> ELSE batch
    /\ UNCHANGED <<event, event_list, is_changed>>

PollReturn ==
    /\ dispatch = "batch"
    /\ batch = << >>
    /\ dispatch' = "idle"
    /\ UNCHANGED <<event, event_list, is_changed, batch, calling>>

EventWalk == Poll \/ Dispatch \/ EventReturn \/ PollReturn

(* asc_event_core_destroy: the first event of the list is closed, by its   *)
(* on_error callback if it has one (an assertion sees to that), until the  *)
(* list is empty.                                                          *)
EventCoreDestroy ==
    /\ dispatch = "idle"
    /\ dispatch' = "destroy"
    /\ UNCHANGED <<event, event_list, is_changed, batch, calling>>

DestroyEvent ==
    /\ dispatch = "destroy"
    /\ event_list.items # << >>
    /\ EventClose(Head(event_list.items))

-----------------------------------------------------------------------------
(* Properties *)

(* The dispatch loop never looks at an event that was closed, not even if  *)
(* a new event was given the same memory: whatever the callbacks of a      *)
(* batch closed, the rest of the batch is either untouched or dropped.     *)
NoStaleEvent ==
    dispatch = "batch" /\ batch # << >> =>
        /\ ~is_changed
        /\ \A i \in DOMAIN batch : Exists(batch[i][1])
=============================================================================
