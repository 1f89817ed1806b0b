------------------------------ MODULE UsbControl ------------------------------
(***************************************************************************)
(* The control pipe of the bootloader: usbd_user.c, the part of            *)
(* USBD_IRQHandler that serves it, the two endpoints of the controller     *)
(* (which share one packet buffer) and the host's side of a transfer.  An  *)
(* acknowledgement may be lost, once in a transfer; a transfer may be      *)
(* abandoned and the bus reset at any point.  There is no specification    *)
(* here: Dfu composes these steps with the class requests.                 *)
(*                                                                         *)
(* A packet carries one page of the flash.  Only prog_struct.buf is sent   *)
(* or received in several packets, so that buf is what the pointers of     *)
(* usbd_user.c point to.  The host sends SETUP when the handler has seen   *)
(* the packets before it: main polls the handler every few microseconds.   *)
(***************************************************************************)
EXTENDS Naturals, Sequences

VARIABLES
    request,    \* the last SETUP packet the host has sent
    intsts,     \* USBD->INTSTS: what the handler has not seen yet
    setAddress, \* g_usbd_SetupPacket holds SET_ADDRESS
    inPtr, inSize,      \* g_usbd_CtrlInPointer, g_usbd_CtrlInSize in packets
    outSize, outLimit,  \* g_usbd_CtrlOutSize, g_usbd_CtrlOutSizeLimit in packets
    outToggle,  \* g_usbd_CtrlOutToggle
    usbAddr,    \* g_usbd_UsbAddr
    buf,        \* prog_struct.buf
    ep0,        \* the packet EP0 sends next: none, zero (empty), short or full
    ep0Pid,     \* DATA0 or DATA1: DSQ_SYNC of EP0
    ep1,        \* EP1 accepts a packet
    ep1Pid,     \* EPSTS: what the packet in EP1 came with
    packet,     \* the buffer at EP0_BUF_BASE = EP1_BUF_BASE
    stalled, address,   \* both endpoints; FADDR
    hostAddr,   \* where the host sends its packets
    stage,      \* of the host's transfer
    moved,      \* packets of the data stage the host counts
    got,        \* what it has read
    lost        \* an acknowledgement of this transfer was lost

handlerVars == <<setAddress, inPtr, inSize, outSize, outLimit, outToggle, usbAddr, buf>>
inVars == <<inPtr, inSize, ep0, ep0Pid, packet>>
outVars == <<outSize, outLimit, ep1>>
hardwareVars == <<ep0, ep0Pid, ep1, ep1Pid, packet, stalled, address>>
hostUsbVars == <<request, hostAddr, stage, moved, got, lost>>

usbVars == <<handlerVars, hardwareVars, hostUsbVars, intsts>>

Msg(name, value, length) == [bRequest |-> name, wValue |-> value, wLength |-> length]
NoRequest == Msg("none", 0, 0)
NoPacket == <<"none", 0>>

Pid(n) == IF n % 2 = 0 THEN "DATA0" ELSE "DATA1"
Flipped(pid) == IF pid = "DATA0" THEN "DATA1" ELSE "DATA0"

\* A host that has been plugged in, a device that has been switched on.
UsbInit(contents) ==
    /\ request = NoRequest /\ intsts = {} /\ setAddress = FALSE
    /\ inPtr = 0 /\ inSize = 0
    /\ outSize = 0 /\ outLimit = 0 /\ outToggle = "none"
    /\ usbAddr = 0 /\ buf = contents
    /\ ep0 = "none" /\ ep0Pid = "DATA0" /\ ep1 = FALSE /\ ep1Pid = "none"
    /\ packet = NoPacket /\ stalled = FALSE /\ address = 0
    /\ hostAddr = 0 /\ stage = "idle" /\ moved = 0 /\ got = << >> /\ lost = FALSE

UsbRestart(contents) ==
    /\ request' = NoRequest /\ intsts' = {} /\ setAddress' = FALSE
    /\ inPtr' = 0 /\ inSize' = 0
    /\ outSize' = 0 /\ outLimit' = 0 /\ outToggle' = "none"
    /\ usbAddr' = 0 /\ buf' = contents
    /\ ep0' = "none" /\ ep0Pid' = "DATA0" /\ ep1' = FALSE /\ ep1Pid' = "none"
    /\ packet' = NoPacket /\ stalled' = FALSE /\ address' = 0
    /\ hostAddr' = 0 /\ stage' = "idle" /\ moved' = 0 /\ got' = << >> /\ lost' = FALSE

-----------------------------------------------------------------------------
(* The host *)

ReadRequests == {"GET_DESCRIPTOR", "GET_CONFIGURATION", "DFU_GETSTATUS", "DFU_GETSTATE", "DFU_UPLOAD"}

FirstStage(r) ==
    IF r.bRequest \in ReadRequests THEN "in" ELSE IF r.wLength > 0 THEN "out" ELSE "statusIn"

\* A device at another address does not answer.
Request(r) ==
    /\ stage = "idle" /\ intsts = {}
    /\ IF address = hostAddr
       THEN stage' = FirstStage(r) /\ intsts' = {"SETUP"} /\ lost' = FALSE
       ELSE stage' = "failed" /\ UNCHANGED <<intsts, lost>>
    /\ request' = r /\ moved' = 0 /\ got' = << >>
    /\ UNCHANGED <<handlerVars, hardwareVars, hostAddr>>

\* Between SETUP and the handler's answer the controller says NAK.
Answers == address = hostAddr /\ "SETUP" \notin intsts /\ ~stalled

\* The host takes the packet, or knows it from the time before.  When its
\* acknowledgement is lost the controller keeps the packet.
InToken(next) ==
    /\ Answers /\ ep0 # "none"
    /\ IF ep0Pid = Pid(moved + 1)
       THEN next
       ELSE UNCHANGED <<hostAddr, stage, moved, got>>
    /\ \/ /\ ep0' = "none" /\ ep0Pid' = Flipped(ep0Pid)
          /\ packet' = IF ep0 = "zero" THEN packet ELSE NoPacket
          /\ intsts' = intsts \cup {"EP0"}
          /\ UNCHANGED lost
       \/ /\ ep0Pid = Pid(moved + 1)
          /\ ~lost /\ lost' = TRUE
          /\ UNCHANGED <<ep0, ep0Pid, packet, intsts>>
    /\ UNCHANGED <<handlerVars, ep1, ep1Pid, stalled, address, request>>

\* The data stage ends with a packet that is not full, or with the last
\* one that was asked for.
Read ==
    /\ got' = IF ep0 = "zero" THEN got ELSE Append(got, packet)
    /\ moved' = moved + 1
    /\ stage' = IF ep0 # "full" \/ moved + 1 = request.wLength THEN "statusOut" ELSE stage
    /\ UNCHANGED hostAddr

DataIn == stage = "in" /\ InToken(Read)

\* The status stage comes with DATA1, whatever the data stage ended with.
StatusRead ==
    /\ stage' = "done"
    /\ hostAddr' = IF request.bRequest = "SET_ADDRESS" THEN request.wValue ELSE hostAddr
    /\ UNCHANGED <<moved, got>>

StatusIn == stage = "statusIn" /\ moved = 0 /\ InToken(StatusRead)

\* The controller takes the packet; when the acknowledgement is lost the
\* host will send it again.
OutToken(pid, contents, next) ==
    /\ Answers /\ ep1
    /\ ep1' = FALSE /\ ep1Pid' = pid /\ packet' = contents
    /\ intsts' = intsts \cup {"EP1"}
    /\ \/ next /\ UNCHANGED lost
       \/ ~lost /\ lost' = TRUE /\ UNCHANGED <<stage, moved>>
    /\ UNCHANGED <<handlerVars, ep0, ep0Pid, stalled, address, request, hostAddr, got>>

Sent ==
    /\ moved' = IF moved + 1 = request.wLength THEN 0 ELSE moved + 1
    /\ stage' = IF moved' = 0 THEN "statusIn" ELSE stage

DataOut(contents) == stage = "out" /\ OutToken(Pid(moved + 1), contents, Sent)

StatusOut == stage = "statusOut" /\ OutToken("DATA1", packet, stage' = "done" /\ UNCHANGED moved)

Active == stage \in {"in", "out", "statusIn", "statusOut"}

SeeStall ==
    /\ Active /\ address = hostAddr /\ "SETUP" \notin intsts /\ stalled
    /\ stage' = "stalled"
    /\ UNCHANGED <<handlerVars, hardwareVars, intsts, request, hostAddr, moved, got, lost>>

\* The host gives up on a device that has had its time and says NAK.
Timeout ==
    /\ Active /\ intsts = {}
    /\ \/ address # hostAddr
       \/ ~stalled /\ IF stage \in {"in", "statusIn"} THEN ep0 = "none" ELSE ~ep1
    /\ stage' = "failed"
    /\ UNCHANGED <<handlerVars, hardwareVars, intsts, request, hostAddr, moved, got, lost>>

\* Of what was lost only the end of SET_ADDRESS matters later: the device
\* has stayed at address 0.
EndTransfer ==
    /\ stage' = "idle" /\ moved' = 0 /\ got' = << >>
    /\ request' = IF "SETUP" \in intsts THEN request ELSE NoRequest
    /\ lost' = (lost /\ address # hostAddr)

\* The host resets the bus and starts again at address 0.
ResetBus ==
    /\ intsts' = intsts \cup {"BUS"}
    /\ hostAddr' = 0 /\ stage' = "idle" /\ moved' = 0 /\ got' = << >> /\ lost' = FALSE
    /\ request' = IF "SETUP" \in intsts THEN request ELSE NoRequest
    /\ UNCHANGED <<handlerVars, hardwareVars>>

-----------------------------------------------------------------------------
(* USBD_PrepareCtrlIn, USBD_PrepareCtrlOut, the stall *)

\* Mutant: the packet goes out with the PID that comes next.
PrepareKeepsPid(first, length, n) ==
    /\ inPtr' = IF n > 1 THEN 1 ELSE 0
    /\ inSize' = IF n > 1 THEN n - 1 ELSE 0
    /\ ep0' = length /\ ep0Pid' = ep0Pid
    /\ packet' = IF length = "zero" THEN NoPacket ELSE first

\* EP0 sends `first`, the first of n packets.
PrepareCtrlIn(first, length, n) ==
    /\ inPtr' = IF n > 1 THEN 1 ELSE 0
    /\ inSize' = IF n > 1 THEN n - 1 ELSE 0
    /\ ep0' = length /\ ep0Pid' = "DATA1"
    /\ packet' = IF length = "zero" THEN NoPacket ELSE first

PrepareCtrlOut(n) == outSize' = 0 /\ outLimit' = n /\ ep1' = TRUE

\* USBD_STOP_TRANSACTION, and nothing after it.
NothingIn == ep0' = "none" /\ packet' = NoPacket /\ UNCHANGED <<inPtr, inSize, ep0Pid>>
NothingOut == ep1' = FALSE /\ UNCHANGED <<outSize, outLimit>>

\* Mutant: the PID of the last transfer is kept.
TakeSetupKeepsToggle(name, stall) ==
    /\ intsts \cap {"BUS", "SETUP"} = {"SETUP"} /\ request.bRequest = name
    /\ intsts' = intsts \ {"SETUP"}
    /\ setAddress' = (name = "SET_ADDRESS") /\ outToggle' = outToggle
    /\ stalled' = stall
    /\ UNCHANGED <<ep1Pid, hostUsbVars>>

\* USBD_ProcessSetupPacket up to the request; SETUP ends a stall.
TakeSetup(name, stall) ==
    /\ intsts \cap {"BUS", "SETUP"} = {"SETUP"} /\ request.bRequest = name
    /\ intsts' = intsts \ {"SETUP"}
    /\ setAddress' = (name = "SET_ADDRESS") /\ outToggle' = "none"
    /\ stalled' = stall
    /\ UNCHANGED <<ep1Pid, hostUsbVars>>

-----------------------------------------------------------------------------
(* USBD_StandardRequest *)

\* What is not supported is answered by a stall of both endpoints.
NotSupported(name) ==
    /\ TakeSetup(name, TRUE)
    /\ inPtr' = 0 /\ inSize' = 0 /\ ep0' = "none" /\ packet' = NoPacket
    /\ NothingOut
    /\ UNCHANGED <<ep0Pid, usbAddr, buf, address>>

\* Stands for the descriptors of the bootloader.  Each is shorter than a
\* packet, so that g_usbd_CtrlInZeroFlag is never set.
Descriptors == {1}

GetDescriptor ==
    /\ request.wValue \in Descriptors
    /\ TakeSetup("GET_DESCRIPTOR", FALSE)
    /\ PrepareCtrlIn(<<"descriptor", request.wValue>>, "short", 1)
    /\ PrepareCtrlOut(0)
    /\ UNCHANGED <<usbAddr, buf, address>>

NoDescriptor == request.wValue \notin Descriptors /\ NotSupported("GET_DESCRIPTOR")

\* Requests without data: EP0 sends the status.
StatusOnly ==
    /\ inPtr' = 0 /\ inSize' = 0
    /\ ep0' = "zero" /\ ep0Pid' = "DATA1"
    /\ NothingOut
    /\ packet' = NoPacket
    /\ UNCHANGED <<buf, address>>

SetAddress ==
    /\ TakeSetup("SET_ADDRESS", FALSE)
    /\ usbAddr' = request.wValue
    /\ StatusOnly

SetConfiguration ==
    /\ TakeSetup("SET_CONFIGURATION", FALSE)
    /\ StatusOnly
    /\ UNCHANGED usbAddr

GetConfiguration == NotSupported("GET_CONFIGURATION")

StandardRequest ==
    GetDescriptor \/ NoDescriptor \/ SetAddress \/ SetConfiguration \/ GetConfiguration

-----------------------------------------------------------------------------
(* USBD_CtrlIn, USBD_CtrlOut, USBD_SwReset *)

\* A packet has been acknowledged: the next one, or the new address.
CtrlIn ==
    \/ /\ inSize > 0
       /\ ep0' = "full"
       /\ inSize' = inSize - 1 /\ inPtr' = IF inSize = 1 THEN 0 ELSE inPtr + 1
       /\ UNCHANGED address
    \/ /\ inSize = 0
       /\ address' = IF setAddress /\ address = 0 THEN usbAddr ELSE address
       /\ UNCHANGED <<inSize, inPtr, ep0>>

\* Mutant: the rest is sent from the start of the buffer.
PacketFromStart == IF "EP0" \in intsts /\ inSize > 0 THEN <<"page", buf[inPtr - 1]>> ELSE packet

\* The buffer as CtrlIn leaves it.
PacketAfterIn == IF "EP0" \in intsts /\ inSize > 0 THEN <<"page", buf[inPtr]>> ELSE packet

\* A packet has arrived: one with another PID is new and is copied while it
\* has a place; EP1 accepts the next if there is one.  A packet that was
\* sent again is dropped.
CtrlOut ==
    LET isNew == outToggle # ep1Pid
        taken == isNew /\ outSize < outLimit
    IN  /\ outToggle' = ep1Pid
        /\ buf' = IF taken THEN [buf EXCEPT ![outSize] = PacketAfterIn[2]] ELSE buf
        /\ outSize' = IF taken THEN outSize + 1 ELSE outSize
        /\ ep1' = IF isNew THEN taken /\ outSize + 1 < outLimit ELSE TRUE
        /\ ep1Pid' = "none"

\* EP0 first, then EP1.  A packet is forgotten when nothing reads it again.
HandleEndpoints ==
    /\ intsts # {} /\ intsts \subseteq {"EP0", "EP1"} /\ intsts' = {}
    /\ IF "EP0" \in intsts THEN CtrlIn ELSE UNCHANGED <<inPtr, inSize, ep0, address>>
    /\ IF "EP1" \in intsts THEN CtrlOut ELSE UNCHANGED <<outToggle, buf, outSize, ep1, ep1Pid>>
    /\ packet' = IF ep0' \in {"short", "full"} THEN PacketAfterIn ELSE NoPacket
    /\ UNCHANGED <<setAddress, outLimit, usbAddr, ep0Pid, stalled, hostUsbVars>>

\* USBD_SwReset leaves the endpoints armed and keeps outToggle.
HandleBusReset ==
    /\ "BUS" \in intsts /\ intsts' = intsts \ {"BUS"}
    /\ inPtr' = 0 /\ inSize' = 0 /\ outSize' = 0 /\ outLimit' = 0
    /\ setAddress' = FALSE /\ ep0Pid' = "DATA0"
    /\ address' = 0
    /\ UNCHANGED <<outToggle, usbAddr, buf, ep0, ep1, ep1Pid, packet, stalled, hostUsbVars>>
=============================================================================
