-------------------------- MODULE SchedulerEvents --------------------------
(* The events that the queue and the handler table of scheduler.c share.    *)

CONSTANTS
    Events,     \* enum events, EVENT_NO_EVENT apart
    NoEvent     \* EVENT_NO_EVENT = 0, what the zeroed queue memory holds

ASSUME NoEventAssumption == NoEvent \notin Events
=============================================================================
