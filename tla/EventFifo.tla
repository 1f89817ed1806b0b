----------------------------- MODULE EventFifo -----------------------------
(***************************************************************************)
(* What the event queue promises: event_publish() either appends the event *)
(* or refuses it and counts the refusal, and scheduler_check_events()      *)
(* hands the accepted events to the handlers once each and in the order of *)
(* their publication, whichever context published them.                    *)
(***************************************************************************)
EXTENDS Naturals, Sequences

CONSTANTS
    Events,     \* enum events
    NoEvent,    \* EVENT_NO_EVENT, the zero of the enum, never published
    Capacity    \* EVENT_QUEUE_SZ

VARIABLES
    open,       \* scheduler_init() has initialised the queue
    fifo,       \* accepted events, oldest first
    dropped,    \* event_queue_full
    event       \* the event the scheduler took last

vars == <<open, fifo, dropped, event>>

Init ==
    /\ open = FALSE
    /\ fifo = << >>
    /\ dropped = 0
    /\ event = NoEvent

Open ==
    /\ ~open
    /\ open' = TRUE
    /\ UNCHANGED <<fifo, dropped, event>>

Accept(e) ==
    /\ open
    /\ Len(fifo) < Capacity
    /\ fifo' = Append(fifo, e)
    /\ UNCHANGED <<open, dropped, event>>

Refuse ==
    /\ ~open \/ Len(fifo) = Capacity
    /\ dropped' = dropped + 1
    /\ UNCHANGED <<open, fifo, event>>

Take ==
    /\ fifo # << >>
    /\ event' = Head(fifo)
    /\ fifo' = Tail(fifo)
    /\ UNCHANGED <<open, dropped>>

Next ==
    \/ Open
    \/ \E e \in Events : Accept(e)
    \/ Refuse
    \/ Take

Spec == Init /\ [][Next]_vars
=============================================================================
