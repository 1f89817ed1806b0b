------------------------------ MODULE MC_Vcom ------------------------------
(* The two halves of the port.  They share no state, so that it is enough   *)
(* to let each of them run while the other stands still.                    *)
(*                                                                          *)
(* Packets of up to two bytes and buffers of four: transfers of several     *)
(* packets, full and short last ones, writes between any two steps; two     *)
(* full packets fill the receive buffer and a third waits in the endpoint.  *)
EXTENDS VcomSend, VcomReceive

VARIABLE half   \* the half that runs

PortInit == Init /\ RxInit /\ half \in {"send", "receive"}

PortNext ==
    /\ \/ half = "send" /\ Next /\ UNCHANGED rxVars
       \/ half = "receive" /\ RxNext /\ UNCHANGED vars
    /\ UNCHANGED half

\* Fairness and RxFairness, of the half that runs.
PortFairness ==
    /\ WF_vars(half = "send" /\ VCOM_TransferData)
    /\ WF_vars(half = "send" /\ EP2_Handler)
    /\ WF_rxVars(half = "receive" /\ TransferReceived)
    /\ SF_rxVars(half = "receive" /\ shell_input)

PortSpec ==
    PortInit /\ [][PortNext]_<<vars, rxVars, half>> /\ PortFairness
=============================================================================
