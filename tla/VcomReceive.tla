---------------------------- MODULE VcomReceive ----------------------------
(***************************************************************************)
(* The virtual COM port of cdc_serial.c, from the host.  EP3_Handler takes *)
(* a packet from the bulk endpoint EP3; the last part of VCOM_TransferData *)
(* moves it to VCOM_rx_buffer once it fits, publishes EVENT_USB_VCOM_RX    *)
(* and makes the endpoint ready for the next; shell_input, the handler of  *)
(* that event, empties the buffer.  Acknowledgements may be lost, so that  *)
(* the host repeats a packet, the host may reset the bus or configure the  *)
(* device anew, and a full event queue may refuse the event.  Bytes are    *)
(* numbered in the order in which EP3_Handler accepts them, modulo a       *)
(* constant that exceeds what can be under way.                            *)
(*                                                                         *)
(* The names begin with Rx where VcomSend, the other half of the port, has *)
(* the same.                                                               *)
(***************************************************************************)
EXTENDS Naturals, Sequences

CONSTANTS
    RxSize,     \* RX_BUFFER_SZ
    RxPacket,   \* EP3_MAX_PKT_SIZE
    RxMod       \* bytes are numbered modulo this

ASSUME RxSizesAssumption ==
    /\ RxPacket \in Nat \ {0} /\ RxSize \in Nat /\ RxPacket <= RxSize
    /\ RxMod \in Nat /\ RxMod > RxSize + RxPacket

VARIABLES
    rxPc,                   \* of VCOM_TransferData; "idle": not called
    rx,                     \* VCOM_rx_buffer
    g_u32OutToggle,
    gi8BulkOutReady,
    ep3Armed, ep3Buf,       \* buffer of EP3; gu32RxSize is its length
    hostToggle, resend,     \* the host's next PID; the packet it repeats, if any
    rxEvent,                \* EVENT_USB_VCOM_RX is in the event queue
    sent, taken,            \* history: next byte that EP3_Handler accepts, that
                            \* is taken out of VCOM_rx_buffer
    reconfigured            \* history: configured since the last packet

ep3Vars == <<g_u32OutToggle, gi8BulkOutReady, ep3Armed, ep3Buf>>
hostVars == <<hostToggle, resend, sent, reconfigured>>
rxBufferVars == <<rx, rxEvent, taken>>
rxVars == <<rxPc, ep3Vars, hostVars, rxBufferVars>>

RxInit ==
    /\ rxPc = "idle"
    /\ rx = << >>
    /\ g_u32OutToggle = "none"
    /\ gi8BulkOutReady = 0
    /\ ep3Armed = TRUE /\ ep3Buf = << >>
    /\ hostToggle = "DATA0" /\ resend = << >>
    /\ rxEvent = FALSE
    /\ sent = 0 /\ taken = 0
    /\ reconfigured = FALSE

Smaller(a, b) == IF a < b THEN a ELSE b

\* n numbers from a on.
RxNumbers(a, n) == [k \in 1 .. n |-> (a + k - 1) % RxMod]

-----------------------------------------------------------------------------
(* The host *)

Other(pid) == IF pid = "DATA0" THEN "DATA1" ELSE "DATA0"

\* The host has a new packet, which may be empty, or repeats one whose
\* acknowledgement was lost.
HostPackets ==
    IF resend # << >> THEN {resend[1]} ELSE {RxNumbers(sent, n) : n \in 0 .. RxPacket}

\* Mutant: a repeated packet is taken for a new one.
ReceiveRepeated(packet) ==
    /\ ep3Buf' = packet
    /\ g_u32OutToggle' = hostToggle
    /\ gi8BulkOutReady' = 1
    /\ ep3Armed' = FALSE

\* EP3_Handler: a packet with the PID of the one before is a repetition, and
\* the endpoint waits for the next.
Receive(packet) ==
    IF g_u32OutToggle = hostToggle
    THEN UNCHANGED ep3Vars
    ELSE /\ ep3Buf' = packet
         /\ g_u32OutToggle' = hostToggle
         /\ gi8BulkOutReady' = 1
         /\ ep3Armed' = FALSE

EP3_Handler(acknowledged) ==
    /\ ep3Armed
    /\ \E packet \in HostPackets :
          /\ Receive(packet)
          /\ resend' = IF acknowledged THEN << >> ELSE <<packet>>
          /\ sent' = IF ep3Armed' THEN sent ELSE (sent + Len(packet)) % RxMod
    /\ reconfigured' = FALSE
    /\ hostToggle' = IF acknowledged THEN Other(hostToggle) ELSE hostToggle
    /\ UNCHANGED <<rxPc, rxBufferVars>>

\* Mutant: the PID of the last packet is kept.
BusResetKeepsToggle ==
    /\ hostToggle' = "DATA0"
    /\ resend' = << >> /\ reconfigured' = FALSE
    /\ UNCHANGED <<rxPc, rxBufferVars, ep3Vars, sent>>

\* A bus reset: both sides start again with DATA0.
BusReset ==
    /\ g_u32OutToggle' = "none"
    /\ hostToggle' = "DATA0"
    /\ resend' = << >> /\ reconfigured' = FALSE
    /\ UNCHANGED <<rxPc, rxBufferVars, gi8BulkOutReady, ep3Armed, ep3Buf, sent>>

\* SET_CONFIGURATION: the host starts again with DATA0, and main registers no
\* callback that would tell cdc_serial.c.
SetConfiguration ==
    /\ hostToggle' = "DATA0"
    /\ resend' = << >> /\ reconfigured' = TRUE
    /\ UNCHANGED <<rxPc, rxBufferVars, ep3Vars, sent>>

-----------------------------------------------------------------------------
(* The shell *)

\* shell_input calls _read until nothing is left in VCOM_rx_buffer.  What
\* becomes of the bytes then is not modelled: _read stores each of them at the
\* place of the first, so that the line editor gets the last byte of a call,
\* and the right number of others that are not what was received.
shell_input ==
    /\ rxPc = "idle"
    /\ rxEvent
    /\ rxEvent' = FALSE
    /\ taken' = (taken + Len(rx)) % RxMod
    /\ rx' = << >>
    /\ UNCHANGED <<rxPc, ep3Vars, hostVars>>

-----------------------------------------------------------------------------
(* VCOM_TransferData, from the host *)

\* Mutant: the packet is taken only into an empty buffer.
FitsEmpty == rx = << >>

Fits == Len(ep3Buf) <= RxSize - Len(rx)

\* event_publish, which may find the event queue full; what it returns is not
\* looked at.
PublishRx == rxEvent' = TRUE \/ UNCHANGED rxEvent

\* Mutant: what does not fit is put all the same.
RxTakeAll ==
    /\ rxPc = "idle"
    /\ gi8BulkOutReady = 1
    /\ rx' = rx \o ep3Buf
    /\ PublishRx
    /\ rxPc' = "clear"
    /\ UNCHANGED <<ep3Vars, hostVars, taken>>

\* rbuff_put_byte refuses what does not fit.
RxTake ==
    /\ rxPc = "idle"
    /\ gi8BulkOutReady = 1 /\ Fits
    /\ rx' = SubSeq(rx \o ep3Buf, 1, Smaller(RxSize, Len(rx) + Len(ep3Buf)))
    /\ PublishRx
    /\ rxPc' = "clear"
    /\ UNCHANGED <<ep3Vars, hostVars, taken>>

\* The flag is cleared, then the endpoint is made ready for the next packet.
RxRelease ==
    /\ \/ rxPc = "clear" /\ rxPc' = "arm" /\ gi8BulkOutReady' = 0 /\ UNCHANGED ep3Armed
       \/ rxPc = "arm" /\ rxPc' = "idle" /\ ep3Armed' = TRUE /\ UNCHANGED gi8BulkOutReady
    /\ UNCHANGED <<g_u32OutToggle, ep3Buf, hostVars, rxBufferVars>>

TransferReceived == RxTake \/ RxRelease

-----------------------------------------------------------------------------

RxNext ==
    \/ \E acknowledged \in BOOLEAN : EP3_Handler(acknowledged)
    \/ BusReset \/ SetConfiguration
    \/ shell_input
    \/ TransferReceived

\* The task runs on every tick, and a queued event is run in between.  That
\* an event is ever accepted is not assumed.
RxFairness == WF_rxVars(TransferReceived) /\ SF_rxVars(shell_input)

RxSpec == RxInit /\ [][RxNext]_rxVars /\ RxFairness

-----------------------------------------------------------------------------
(* Properties *)

RxBytes == 0 .. RxMod - 1

\* The packet that waits in the buffer of EP3.
Waiting == IF gi8BulkOutReady = 1 /\ rxPc # "clear" THEN ep3Buf ELSE << >>

(* The variables have their types.                                         *)
RxTypeOK ==
    /\ rxPc \in {"idle", "clear", "arm"}
    /\ rx \in Seq(RxBytes) /\ Len(rx) <= RxSize
    /\ ep3Buf \in Seq(RxBytes) /\ Len(ep3Buf) <= RxPacket
    /\ resend # << >> =>
          Len(resend) = 1 /\ resend[1] \in Seq(RxBytes) /\ Len(resend[1]) <= RxPacket
    /\ g_u32OutToggle \in {"none", "DATA0", "DATA1"} /\ hostToggle \in {"DATA0", "DATA1"}
    /\ gi8BulkOutReady \in {0, 1} /\ ep3Armed \in BOOLEAN /\ rxEvent \in BOOLEAN
    /\ sent \in RxBytes /\ taken \in RxBytes
    /\ reconfigured \in BOOLEAN

(* What EP3_Handler has accepted and no reader has yet taken out of        *)
(* VCOM_rx_buffer is in that buffer and the endpoint, once and in order,   *)
(* also when acknowledgements get lost, packets are repeated or the bus is *)
(* reset.                                                                  *)
ReceivedInOrder ==
    rx \o Waiting = RxNumbers(taken, (sent + RxMod - taken) % RxMod)

(* A packet that the host sends for the first time is accepted, whatever   *)
(* was repeated or reset before.  Only the first one after a               *)
(* SET_CONFIGURATION may be taken for a repetition and lost.               *)
NewPacketsAccepted ==
    [][\A acknowledged \in BOOLEAN :
          EP3_Handler(acknowledged) /\ resend = << >> /\ ~reconfigured => ~ep3Armed']_rxVars

\* No room for the packet in the endpoint, and no event that will make some.
Blocked == gi8BulkOutReady = 1 /\ Len(ep3Buf) > RxSize - Len(rx) /\ ~rxEvent

(* A packet that waits in the endpoint is moved to the buffer, unless the  *)
(* buffer has been filled by packets whose events were refused.            *)
PacketsTaken == gi8BulkOutReady = 1 ~> gi8BulkOutReady = 0 \/ Blocked

(* Not so: the host can always go on.  Nothing publishes the event again   *)
(* for the bytes that are in the buffer already.                           *)
HostGoesOn == gi8BulkOutReady = 1 ~> gi8BulkOutReady = 0
=============================================================================
