------------------------------ MODULE VcomSend ------------------------------
(***************************************************************************)
(* The virtual COM port of cdc_serial.c, towards the host.  Handlers write *)
(* into VCOM_tx_buffer; VCOM_TransferData, run on every EVENT_CYCLIC_1,    *)
(* opens and closes the port and moves packets to the bulk endpoint EP2,   *)
(* whose interrupt says that the host has read one.  VCOM_TransferData is  *)
(* split where an interrupt can make a difference.  Its last part shares   *)
(* no state with this one and is modelled in VcomReceive.  Bytes are       *)
(* numbered in the order of their acceptance, modulo a constant that       *)
(* exceeds what can be under way.                                          *)
(***************************************************************************)
EXTENDS Naturals, Sequences

CONSTANTS
    TxSize,     \* TX_BUFFER_SZ
    TxPacket,   \* EP2_MAX_PKT_SIZE
    TxMod,      \* bytes are numbered modulo this
    QuietAck    \* TRUE: no acknowledgement between "gu32TxSize = i32Len" and
                \* USBD_SET_PAYLOAD_LEN(EP2, i32Len)

ASSUME SizesAssumption ==
    /\ TxPacket \in Nat \ {0} /\ TxSize \in Nat \ {0}
    /\ TxMod \in Nat /\ TxMod > TxSize + TxPacket
    /\ QuietAck \in BOOLEAN

VARIABLES
    pc,                 \* of VCOM_TransferData; "idle": not called
    dtr,                \* gCtrlSignal & 1
    VCOM_opened,
    tx,                 \* VCOM_tx_buffer
    bulk,               \* the packet in gBulkInBuffer
    gu32TxSize,
    ep2Len, ep2Armed, ep2Buf,   \* payload length and buffer of EP2
    written, expected,  \* history: next byte accepted, next byte the host reads
    full                \* history: the last packet the host read was full

bufferVars == <<tx, bulk>>
ep2Vars == <<ep2Len, ep2Armed, ep2Buf>>
historyVars == <<written, expected, full>>
vars == <<pc, dtr, VCOM_opened, bufferVars, gu32TxSize, ep2Vars, historyVars>>

Init ==
    /\ pc = "idle"
    /\ dtr = FALSE /\ VCOM_opened = FALSE
    /\ tx = << >> /\ bulk = << >>
    /\ gu32TxSize = 0
    /\ ep2Len = 0 /\ ep2Armed = FALSE /\ ep2Buf = << >>
    /\ written = 0 /\ expected = 0 /\ full = FALSE

Min(a, b) == IF a < b THEN a ELSE b

\* n numbers from a on.
Numbers(a, n) == [k \in 1 .. n |-> (a + k - 1) % TxMod]

-----------------------------------------------------------------------------
(* The host *)

\* SET_CONTROL_LINE_STATE, or the unplugging that clears gCtrlSignal.
SetControlLineState ==
    /\ dtr' = ~dtr
    /\ UNCHANGED <<pc, VCOM_opened, bufferVars, gu32TxSize, ep2Vars, historyVars>>

\* Mutant: the acknowledgement of a full packet is not recorded.
EP2_HandlerForgets ==
    /\ ep2Armed
    /\ QuietAck => pc # "arm"
    /\ ep2Armed' = FALSE
    /\ full' = (ep2Len = TxPacket)
    /\ expected' = IF ep2Len > 0 THEN (ep2Buf[ep2Len] + 1) % TxMod ELSE expected
    /\ gu32TxSize' = IF ep2Len = TxPacket THEN gu32TxSize ELSE 0
    /\ UNCHANGED <<pc, dtr, VCOM_opened, bufferVars, ep2Len, ep2Buf, written>>

\* The host reads the packet and acknowledges it; main code does not run
\* before the interrupt.
EP2_Handler ==
    /\ ep2Armed
    /\ QuietAck => pc # "arm"
    /\ ep2Armed' = FALSE
    /\ full' = (ep2Len = TxPacket)
    /\ expected' = IF ep2Len > 0 THEN (ep2Buf[ep2Len] + 1) % TxMod ELSE expected
    /\ gu32TxSize' = 0
    /\ UNCHANGED <<pc, dtr, VCOM_opened, bufferVars, ep2Len, ep2Buf, written>>

-----------------------------------------------------------------------------
(* Handlers that write to the port *)

\* Mutant: a byte that finds the buffer full is put all the same.
WriteFull ==
    /\ pc = "idle"
    /\ VCOM_opened
    /\ Len(tx) <= TxSize
    /\ tx' = Append(tx, written)
    /\ written' = (written + 1) % TxMod
    /\ UNCHANGED <<pc, dtr, VCOM_opened, bulk, gu32TxSize, ep2Vars, expected, full>>

\* A byte of _write; a byte that finds the buffer full is dropped.
_write ==
    /\ pc = "idle"
    /\ VCOM_opened
    /\ Len(tx) < TxSize
    /\ tx' = Append(tx, written)
    /\ written' = (written + 1) % TxMod
    /\ UNCHANGED <<pc, dtr, VCOM_opened, bulk, gu32TxSize, ep2Vars, expected, full>>

-----------------------------------------------------------------------------
(* VCOM_TransferData: the port is opened or closed *)

Open ==
    /\ dtr /\ ~VCOM_opened
    /\ VCOM_opened' = TRUE
    /\ tx' = << >>
    /\ expected' = written
    /\ full' = FALSE
    /\ UNCHANGED <<gu32TxSize, ep2Vars>>

\* Mutant: the packet of the old session stays in the endpoint.
ClosedKeepsPacket ==
    /\ ~dtr /\ VCOM_opened
    /\ VCOM_opened' = FALSE
    /\ gu32TxSize' = 0
    /\ tx' = << >>
    /\ UNCHANGED <<ep2Vars, expected, full>>

\* A zero-length packet replaces what the host has not read.
VCOM_closed ==
    /\ ~dtr /\ VCOM_opened
    /\ VCOM_opened' = FALSE
    /\ gu32TxSize' = 0
    /\ ep2Len' = 0 /\ ep2Armed' = TRUE
    /\ tx' = << >>
    /\ UNCHANGED <<ep2Buf, expected, full>>

TransferStart ==
    /\ pc = "idle"
    /\ pc' = "tx"
    /\ \/ Open
       \/ VCOM_closed
       \/ dtr = VCOM_opened /\ UNCHANGED <<VCOM_opened, tx, gu32TxSize, ep2Vars, expected, full>>
    /\ UNCHANGED <<dtr, bulk, written>>

-----------------------------------------------------------------------------
(* VCOM_TransferData: to the host *)

Ready == gu32TxSize = 0 /\ VCOM_opened

TxTake ==
    /\ pc = "tx"
    /\ Ready /\ tx # << >>
    /\ LET n == Min(Len(tx), TxPacket) IN
          /\ bulk' = SubSeq(tx, 1, n)
          /\ tx' = SubSeq(tx, n + 1, Len(tx))
    /\ pc' = "size"
    /\ UNCHANGED <<dtr, VCOM_opened, gu32TxSize, ep2Vars, historyVars>>

TxSetSize ==
    /\ pc = "size"
    /\ gu32TxSize' = Len(bulk)
    /\ pc' = "arm"
    /\ UNCHANGED <<dtr, VCOM_opened, bufferVars, ep2Vars, historyVars>>

\* USBD_MemCopy and USBD_SET_PAYLOAD_LEN.
TxArm ==
    /\ pc = "arm"
    /\ ep2Buf' = bulk
    /\ ep2Len' = Len(bulk)
    /\ ep2Armed' = TRUE
    /\ bulk' = << >>
    /\ pc' = "idle"
    /\ UNCHANGED <<dtr, VCOM_opened, tx, gu32TxSize, historyVars>>

\* Mutant: a transfer whose last packet is full is not ended.
TxZeroNever ==
    /\ pc = "tx"
    /\ Ready /\ tx = << >> /\ ep2Len = TxPacket
    /\ pc' = "idle"
    /\ UNCHANGED <<dtr, VCOM_opened, bufferVars, gu32TxSize, ep2Vars, historyVars>>

TxZero ==
    /\ pc = "tx"
    /\ Ready /\ tx = << >> /\ ep2Len = TxPacket
    /\ ep2Len' = 0 /\ ep2Armed' = TRUE
    /\ pc' = "idle"
    /\ UNCHANGED <<dtr, VCOM_opened, bufferVars, gu32TxSize, ep2Buf, historyVars>>

TxNothing ==
    /\ pc = "tx"
    /\ ~(Ready /\ (tx # << >> \/ ep2Len = TxPacket))
    /\ pc' = "idle"
    /\ UNCHANGED <<dtr, VCOM_opened, bufferVars, gu32TxSize, ep2Vars, historyVars>>

VCOM_TransferData ==
    TransferStart \/ TxTake \/ TxSetSize \/ TxArm \/ TxZero \/ TxNothing

-----------------------------------------------------------------------------

Next ==
    \/ SetControlLineState
    \/ EP2_Handler
    \/ _write
    \/ VCOM_TransferData

\* The task runs on every tick, and the host reads what the endpoint offers.
Fairness == WF_vars(VCOM_TransferData) /\ WF_vars(EP2_Handler)

Spec == Init /\ [][Next]_vars /\ Fairness

-----------------------------------------------------------------------------
(* Properties *)

Bytes == 0 .. TxMod - 1

\* The packet under way to the host.
InFlight ==
    IF pc \in {"size", "arm"} THEN bulk
    ELSE IF ep2Armed THEN SubSeq(ep2Buf, 1, ep2Len) ELSE << >>
Outstanding == InFlight \o tx

(* The variables have their types.                                         *)
TypeOK ==
    /\ pc \in {"idle", "tx", "size", "arm"}
    /\ dtr \in BOOLEAN /\ VCOM_opened \in BOOLEAN
    /\ tx \in Seq(Bytes) /\ Len(tx) <= TxSize
    /\ bulk \in Seq(Bytes) /\ Len(bulk) <= TxPacket
    /\ gu32TxSize \in 0 .. TxPacket
    /\ ep2Buf \in Seq(Bytes) /\ Len(ep2Buf) <= TxPacket
    /\ ep2Len \in 0 .. Len(ep2Buf) /\ ep2Armed \in BOOLEAN
    /\ written \in Bytes /\ expected \in Bytes /\ full \in BOOLEAN

(* While the port is open, what has been written and not yet read by the   *)
(* host is under way, once and in order: no packet is overwritten before   *)
(* the host has read it, and none of an earlier session is left over.      *)
HostReadsStream ==
    VCOM_opened => Outstanding = Numbers(expected, (written + TxMod - expected) % TxMod)

(* Every byte written is read by the host, or discarded with the session.  *)
EveryByteSent ==
    \A b \in Bytes :
        LET waits == \E k \in DOMAIN Outstanding : Outstanding[k] = b IN waits ~> ~waits

(* A transfer that ends with a full packet is followed by an empty one, so *)
(* that the host knows it is over.                                         *)
TransfersEnd ==
    full /\ VCOM_opened /\ Outstanding = << >>
        ~> ~full \/ ~VCOM_opened \/ Outstanding # << >>
=============================================================================
