---------------------------- MODULE MC_Scheduler ----------------------------
(* The two halves of scheduler.c.  They share no state, so that it is       *)
(* enough to let each of them run while the other stands still.             *)
(*                                                                          *)
(* Three kinds of event.  A queue of two slots: handler, tick and USB       *)
(* publications fill it, overflow it and wrap both indices.  Two handlers   *)
(* in a table of five: every order in which an interval can grow in front   *)
(* of, between and behind the others.                                       *)
EXTENDS EventQueue, EventTable

CONSTANTS NO_EVENT, SYSTICK, USB, KEY, H1, H2

MCEvents == {SYSTICK, USB, KEY}
MCHandlerEvents == {KEY}
MCHandlers == {H1, H2}

VARIABLE half   \* the half that runs

SchedulerInit == Init /\ TableInit /\ half \in {"queue", "table"}

SchedulerNext ==
    /\ \/ half = "queue" /\ Next /\ UNCHANGED handlerVars
       \/ half = "table" /\ TableNext /\ UNCHANGED vars
    /\ UNCHANGED half

SchedulerSpec == SchedulerInit /\ [][SchedulerNext]_<<vars, handlerVars, half>>
=============================================================================
