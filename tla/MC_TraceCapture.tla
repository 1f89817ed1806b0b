--------------------------- MODULE MC_TraceCapture ---------------------------
(* Two inputs, traces of three samples with two before the trigger, and two *)
(* packets per trace: both inputs finish while a trace of either is sent.   *)
EXTENDS TraceCapture
=============================================================================
