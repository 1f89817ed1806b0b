--------------------------- MODULE Subscriptions ---------------------------
(***************************************************************************)
(* What event_subscribe() and scheduler_run_event() promise: each event    *)
(* has a list of handlers in the order they subscribed, and running an     *)
(* event calls the handlers on its list, each once and in that order.      *)
(***************************************************************************)
EXTENDS Naturals, Sequences

CONSTANTS
    Events,     \* enum events
    Handlers,   \* event_handler_t
    NoEvent     \* no event is being run

VARIABLES
    handlersOf, \* the handlers subscribed for each event, oldest first
    space,      \* how many more subscriptions fit: scheduler_space()
    running,    \* the event being run
    calls       \* the handlers called for it so far

vars == <<handlersOf, space, running, calls>>

Init ==
    /\ handlersOf = [e \in Events |-> << >>]
    /\ space \in Nat
    /\ running = NoEvent
    /\ calls = << >>

Subscribe(e, h) ==
    /\ space > 0
    /\ handlersOf' = [handlersOf EXCEPT ![e] = Append(@, h)]
    /\ space' = space - 1
    /\ UNCHANGED <<running, calls>>

Run(e) ==
    /\ running = NoEvent
    /\ running' = e
    /\ calls' = << >>
    /\ UNCHANGED <<handlersOf, space>>

Call ==
    /\ running # NoEvent
    /\ Len(calls) < Len(handlersOf[running])
    /\ calls' = Append(calls, handlersOf[running][Len(calls) + 1])
    /\ UNCHANGED <<handlersOf, space, running>>

Return ==
    /\ running # NoEvent
    /\ calls = handlersOf[running]
    /\ running' = NoEvent
    /\ UNCHANGED <<handlersOf, space, calls>>

Next ==
    \/ \E e \in Events, h \in Handlers : Subscribe(e, h)
    \/ \E e \in Events : Run(e)
    \/ Call
    \/ Return

Spec == Init /\ [][Next]_vars
=============================================================================
