----------------------------- MODULE MC_VcomSend -----------------------------
(* Packets of up to two bytes and a buffer of four: transfers of several    *)
(* packets, full and short last ones, writes between any two steps.         *)
EXTENDS VcomSend
=============================================================================
