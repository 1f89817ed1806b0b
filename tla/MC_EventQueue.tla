--------------------------- MODULE MC_EventQueue ---------------------------
(* Three kinds of event and a queue of two slots: handler, tick and USB    *)
(* publications fill it, overflow it and wrap both indices.                *)
EXTENDS EventQueue

CONSTANTS NO_EVENT, SYSTICK, USB, KEY

MCEvents == {SYSTICK, USB, KEY}
MCHandlerEvents == {KEY}
=============================================================================
