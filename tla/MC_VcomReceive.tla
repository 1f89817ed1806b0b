--------------------------- MODULE MC_VcomReceive ---------------------------
(* Packets of up to two bytes and a buffer of four: two full packets fill   *)
(* it, and a third waits in the endpoint.                                   *)
EXTENDS VcomReceive
=============================================================================
