--------------------------------- MODULE Dfu ---------------------------------
(***************************************************************************)
(* Firmware download and upload through the bootloader: dfu_transfer.c,    *)
(* fmc_user.c and main.c on the control pipe of UsbControl, with a host    *)
(* that keeps to the protocol as dfu-util does.  It sends the image block  *)
(* by block and asks for the status until the device has left              *)
(* dfuDNLOAD-SYNC; the device programs the block at the fifth such         *)
(* request.  The host may be stopped and started again and may reset the   *)
(* bus at any point, and the device may lose power at any point, also      *)
(* while it programs the flash.  A page of the flash stands for its words, *)
(* and a block for the pages it covers.                                    *)
(***************************************************************************)
EXTENDS UsbControl

CONSTANTS
    BlockPages,     \* TRANSFER_SIZE in pages of the flash: 2
    FlashPages,     \* pages of the APROM
    SmallestPages,  \* the smallest APROM that GetApromSize assumes: 2K
    ImageSizes,     \* pages of the images; the last block may be short
    Polls,          \* requests of the status that leave a state: 5
    Old, Erased,    \* what a page of the flash may hold besides the image
    Unset           \* what the buffer holds after a reset

ASSUME SizesAssumption ==
    /\ BlockPages \in Nat \ {0} /\ FlashPages \in Nat /\ SmallestPages \in Nat \ {0}
    /\ \E n \in 1 .. SmallestPages : SmallestPages = n * BlockPages
    /\ ImageSizes # {} /\ ImageSizes \subseteq Nat \ {0}
    /\ Polls \in Nat \ {0, 1}
    /\ Old \notin Nat /\ Erased \notin Nat /\ Unset \notin Nat

VARIABLES
    bState, command_Count,  \* of dfu_status; requests of the status so far
    block_num, data_len,    \* of prog_struct, the length in pages
    writing,                \* page that WriteData is at; data_len: none
    flash,
    image,                  \* pages of the image the host installs
    host,                   \* what the host is doing
    block                   \* the block it is at

progVars == <<block_num, data_len>>
dfuVars == <<bState, command_Count, progVars, writing>>
hostVars == <<host, block, image>>
vars == <<usbVars, dfuVars, flash, hostVars>>

BlankBuffer == [k \in 0 .. BlockPages - 1 |-> Unset]

Init ==
    /\ UsbInit(BlankBuffer)
    /\ bState = "dfuIDLE" /\ command_Count = 0
    /\ block_num = 0 /\ data_len = 0 /\ writing = 0
    /\ flash = [p \in 0 .. FlashPages - 1 |-> Old]
    /\ host = "attach" /\ block = 0 /\ image \in ImageSizes

Idle == writing = data_len

\* What page p of the flash holds once the image is installed.
Image(p) == p

LengthOf(b) == IF (b + 1) * BlockPages <= image THEN BlockPages ELSE image - b * BlockPages

\* GetApromSize doubles the size until the word behind it cannot be read.
ApromPages ==
    LET size[k \in 0 .. FlashPages] == IF k = 0 THEN SmallestPages ELSE 2 * size[k - 1]
    IN  size[CHOOSE k \in DOMAIN size :
                /\ size[k] >= FlashPages
                /\ \A j \in DOMAIN size : size[j] >= FlashPages => k <= j]

\* Mutant: one block less.
LastBlockLess == ApromPages \div BlockPages - 2

\* APROM_BLOCK_NUM
LastBlock == ApromPages \div BlockPages - 1

-----------------------------------------------------------------------------
(* DFU_GETSTATUS, DFU_GETSTATE *)

\* Mutant: the count is not reset.
AdvanceOn(sc, from, to) ==
    IF sc[1] # from THEN sc
    ELSE IF sc[2] + 1 = Polls THEN <<to, sc[2] + 1>> ELSE <<from, sc[2] + 1>>

\* One "if" of the handler: a request counts, and the last one leaves `from`.
Advance(sc, from, to) ==
    IF sc[1] # from THEN sc
    ELSE IF sc[2] + 1 = Polls THEN <<to, 0>> ELSE <<from, sc[2] + 1>>

\* The three in a row: the state one reaches is seen by the next.
Polled ==
    LET sync == Advance(<<bState, command_Count>>, "dfuDNLOAD_SYNC", "dfuDNLOAD_IDLE")
        idle == Advance(sync, "dfuDNLOAD_IDLE", "dfuMANIFEST_SYNC")
    IN Advance(idle, "dfuMANIFEST_SYNC", "dfuIDLE")

\* The request that leaves dfuDNLOAD-SYNC programs the block first.
StartsWrite == bState = "dfuDNLOAD_SYNC" /\ command_Count + 1 = Polls /\ data_len > 0

GetStatus ==
    /\ Idle /\ ~StartsWrite
    /\ TakeSetup("DFU_GETSTATUS", FALSE)
    /\ bState' = Polled[1] /\ command_Count' = Polled[2]
    /\ PrepareCtrlIn(<<"status", bState'>>, "short", 1) /\ PrepareCtrlOut(0)
    /\ UNCHANGED <<usbAddr, buf, address, progVars, writing, flash, hostVars>>

GetStatusWrites ==
    /\ Idle /\ StartsWrite
    /\ TakeSetup("DFU_GETSTATUS", FALSE)
    /\ writing' = 0
    /\ NothingIn /\ NothingOut
    /\ UNCHANGED <<usbAddr, buf, address, bState, command_Count, progVars, flash, hostVars>>

Page == block_num * BlockPages + writing

\* WriteData, FMC_Proc: a page is erased and programmed.  One that cannot
\* be programmed ends it.  The answer follows, the same in both cases.
WritePage ==
    /\ ~Idle
    /\ flash' = IF Page \in DOMAIN flash THEN [flash EXCEPT ![Page] = buf[writing]] ELSE flash
    /\ writing' = IF Page \in DOMAIN flash THEN writing + 1 ELSE data_len
    /\ IF writing' = data_len
       THEN /\ bState' = Polled[1] /\ command_Count' = Polled[2]
            /\ PrepareCtrlIn(<<"status", bState'>>, "short", 1) /\ PrepareCtrlOut(0)
       ELSE UNCHANGED <<bState, command_Count, inVars, outVars>>
    /\ UNCHANGED <<setAddress, outToggle, usbAddr, buf, ep1Pid, stalled, address, hostUsbVars,
                   intsts, progVars, hostVars>>

GetState ==
    /\ Idle
    /\ TakeSetup("DFU_GETSTATE", FALSE)
    /\ PrepareCtrlIn(<<"state", bState>>, "short", 1) /\ PrepareCtrlOut(0)
    /\ UNCHANGED <<usbAddr, buf, address, dfuVars, flash, hostVars>>

-----------------------------------------------------------------------------
(* DFU_DNLOAD, DFU_DETACH, DFU_ABORT, DFU_CLRSTATUS *)

\* The states in which a block is accepted.
Accepting == bState \in {"dfuIDLE", "dfuDNLOAD_IDLE"}

\* The data goes to buf; EP0 is given the status at once.
PrepareDownload == PrepareCtrlOut(request.wLength) /\ PrepareCtrlIn(packet, "zero", 0)

\* Mutant: every block is taken for a whole one.
DownloadWhole ==
    /\ Idle
    /\ TakeSetup("DFU_DNLOAD", FALSE)
    /\ IF Accepting
       THEN /\ PrepareDownload
            /\ IF request.wLength > 0
               THEN /\ bState' = "dfuDNLOAD_SYNC"
                    /\ block_num' = request.wValue
                    /\ data_len' = BlockPages /\ writing' = BlockPages
               ELSE bState' = "dfuMANIFEST_SYNC" /\ UNCHANGED <<progVars, writing>>
       ELSE NothingIn /\ NothingOut /\ UNCHANGED <<bState, progVars, writing>>
    /\ UNCHANGED <<usbAddr, buf, address, command_Count, flash, hostVars>>

\* A request without data ends the download.  In another state there is no
\* answer.
Download ==
    /\ Idle
    /\ TakeSetup("DFU_DNLOAD", FALSE)
    /\ IF Accepting
       THEN /\ PrepareDownload
            /\ IF request.wLength > 0
               THEN /\ bState' = "dfuDNLOAD_SYNC"
                    /\ block_num' = request.wValue
                    /\ data_len' = request.wLength /\ writing' = request.wLength
               ELSE bState' = "dfuMANIFEST_SYNC" /\ UNCHANGED <<progVars, writing>>
       ELSE NothingIn /\ NothingOut /\ UNCHANGED <<bState, progVars, writing>>
    /\ UNCHANGED <<usbAddr, buf, address, command_Count, flash, hostVars>>

ResetProg == block_num' = 0 /\ data_len' = 0 /\ writing' = 0

\* DFU_DETACH falls through to DFU_DNLOAD, in dfuIDLE and without data.
Detach ==
    /\ Idle
    /\ TakeSetup("DFU_DETACH", FALSE)
    /\ ResetProg
    /\ bState' = "dfuMANIFEST_SYNC"
    /\ PrepareDownload
    /\ UNCHANGED <<usbAddr, buf, address, command_Count, flash, hostVars>>

\* Mutant: the abort resets the block and leaves the state.
AbortKeepsState ==
    /\ Idle
    /\ TakeSetup("DFU_ABORT", TRUE)
    /\ ResetProg
    /\ NothingIn /\ NothingOut
    /\ UNCHANGED <<usbAddr, buf, address, bState, command_Count, flash, hostVars>>

\* DFU_ABORT falls through to the stall.
Abort ==
    /\ Idle
    /\ TakeSetup("DFU_ABORT", TRUE)
    /\ ResetProg
    /\ bState' = "dfuIDLE"
    /\ NothingIn /\ NothingOut
    /\ UNCHANGED <<usbAddr, buf, address, command_Count, flash, hostVars>>

\* DFU_CLRSTATUS leaves the block; it prepares no status stage.
ClearStatus ==
    /\ Idle
    /\ TakeSetup("DFU_CLRSTATUS", FALSE)
    /\ bState' = "dfuIDLE"
    /\ NothingIn /\ NothingOut
    /\ UNCHANGED <<usbAddr, buf, address, command_Count, progVars, writing, flash, hostVars>>

-----------------------------------------------------------------------------
(* DFU_UPLOAD *)

\* ReadData stops at the end of the flash and leaves the rest of the buffer.
ReadBlock(b) ==
    [k \in DOMAIN buf |->
        IF b * BlockPages + k \in DOMAIN flash THEN flash[b * BlockPages + k] ELSE buf[k]]

\* A request of no data, which leads to dfuIDLE without an answer, is not
\* among those of the hosts modelled.
Upload ==
    /\ Idle
    /\ TakeSetup("DFU_UPLOAD", FALSE)
    /\ \/ /\ bState \notin {"dfuIDLE", "dfuUPLOAD_IDLE"}
          /\ NothingIn /\ NothingOut
          /\ UNCHANGED <<buf, bState>>
       \/ /\ bState \in {"dfuIDLE", "dfuUPLOAD_IDLE"}
          /\ request.wValue <= LastBlock
          /\ bState' = "dfuUPLOAD_IDLE"
          /\ buf' = ReadBlock(request.wValue)
          /\ PrepareCtrlIn(<<"page", buf'[0]>>, "full", request.wLength) /\ PrepareCtrlOut(0)
       \/ /\ bState \in {"dfuIDLE", "dfuUPLOAD_IDLE"}
          /\ request.wValue > LastBlock
          /\ bState' = "dfuIDLE"
          /\ PrepareCtrlIn(packet, "zero", 0) /\ PrepareCtrlOut(0)
          /\ UNCHANGED buf
    /\ UNCHANGED <<usbAddr, address, command_Count, progVars, writing, flash, hostVars>>

-----------------------------------------------------------------------------
(* The host: one transfer after another *)

\* Bound: uploads, and requests besides those of a download, come before the
\* flash is written for the first time; an upload also follows a download.
Untouched == \A p \in DOMAIN flash : flash[p] = Old

\* Requests of the enumeration and of other tools.
Others ==
    {Msg("DFU_DETACH", 0, 0)} \cup
    IF Untouched
    THEN {Msg("GET_DESCRIPTOR", 1, 1), Msg("GET_DESCRIPTOR", 2, 1), Msg("SET_CONFIGURATION", 1, 0),
          Msg("GET_CONFIGURATION", 0, 1), Msg("DFU_GETSTATE", 0, 1), Msg("DFU_DNLOAD", 0, 0)}
    ELSE {}

HostRequest ==
    \/ host = "attach" /\ Request(Msg("SET_ADDRESS", 1, 0))
    \/ host \in {"off", "done"} /\ \E r \in Others : Request(r)
    \/ host \in {"probe", "poll", "manifest"} /\ Request(Msg("DFU_GETSTATUS", 0, 1))
    \/ host = "abort" /\ (Request(Msg("DFU_ABORT", 0, 0)) \/ Request(Msg("DFU_CLRSTATUS", 0, 0)))
    \/ host = "download" /\ block * BlockPages < image /\ Request(Msg("DFU_DNLOAD", block, LengthOf(block)))
    \/ host = "download" /\ block * BlockPages >= image /\ Request(Msg("DFU_DNLOAD", block, 0))
    \/ host = "upload" /\ Request(Msg("DFU_UPLOAD", block, BlockPages))

Ask == Idle /\ HostRequest /\ UNCHANGED <<dfuVars, flash, hostVars>>

\* What the host does with the state it is told: it waits until the block
\* is programmed or the image manifested, and aborts what it finds unfinished.
AfterStatus(state) ==
    \/ /\ host = "probe"
       /\ host' = (IF state = "dfuIDLE" THEN "download" ELSE "abort") /\ block' = 0
    \/ /\ host = "poll"
       /\ IF state = "dfuDNLOAD_IDLE" THEN host' = "download" /\ block' = block + 1
                                      ELSE UNCHANGED <<host, block>>
    \/ /\ host = "manifest"
       /\ IF state = "dfuIDLE" THEN host' = "done" /\ block' = 0 ELSE UNCHANGED <<host, block>>

\* A short packet ends an upload.
AfterUpload ==
    IF got = << >> THEN host' = "done" /\ block' = 0
                   ELSE block' = block + 1 /\ UNCHANGED host

Succeeded ==
    /\ stage = "done"
    /\ \/ host = "attach" /\ host' = "off" /\ UNCHANGED block
       \/ host \in {"off", "done"} /\ UNCHANGED <<host, block>>
       \/ host \in {"probe", "poll", "manifest"} /\ AfterStatus(got[1][2])
       \/ /\ host = "download"
          /\ host' = (IF request.wLength > 0 THEN "poll" ELSE "manifest") /\ UNCHANGED block
       \/ host = "upload" /\ AfterUpload

\* It asks again after the stall that answers DFU_ABORT and gives up otherwise.
Refused ==
    /\ stage \in {"stalled", "failed"}
    /\ host' = IF host = "attach" THEN host
               ELSE IF host = "abort" /\ stage = "stalled" THEN "probe" ELSE "off"
    /\ block' = 0

HostGoesOn ==
    /\ Succeeded \/ Refused
    /\ EndTransfer
    /\ UNCHANGED <<handlerVars, hardwareVars, intsts, hostAddr, dfuVars, flash, image>>

HostStart ==
    /\ Idle
    /\ stage = "idle" /\ host \in {"off", "done"}
    /\ \/ host' = "probe"
       \/ host' = "upload" /\ (host = "done" \/ Untouched)
    /\ block' = 0
    /\ UNCHANGED <<usbVars, dfuVars, flash, image>>

\* Killed in the middle of a transfer.
HostStop ==
    /\ host \notin {"attach", "off"}
    /\ host' = "off" /\ block' = 0
    /\ EndTransfer
    /\ UNCHANGED <<handlerVars, hardwareVars, intsts, hostAddr, dfuVars, flash, image>>

\* The DFU state survives.
BusReset == ResetBus /\ host' = "attach" /\ block' = 0 /\ UNCHANGED <<dfuVars, flash, image>>

-----------------------------------------------------------------------------
(* The device is restarted *)

\* Power is lost, which leaves a page that is being programmed erased; or,
\* between two calls of the handler, the key is pressed and main resets the
\* controller.  The loader is entered again later, with a host plugged in.
Restart ==
    /\ UsbRestart(BlankBuffer)
    /\ bState' = "dfuIDLE" /\ command_Count' = 0
    /\ ResetProg
    /\ host' = "attach" /\ block' = 0
    /\ flash' = IF Idle \/ Page \notin DOMAIN flash THEN flash ELSE [flash EXCEPT ![Page] = Erased]
    /\ UNCHANGED image

-----------------------------------------------------------------------------

ClassRequest ==
    \/ GetStatus \/ GetStatusWrites \/ WritePage \/ GetState
    \/ Download \/ Detach \/ Abort \/ ClearStatus \/ Upload

\* The pipe's steps, between two pages of WriteData only those of the host.
Pipe ==
    /\ \/ /\ Idle
          /\ \/ StandardRequest \/ HandleEndpoints \/ HandleBusReset
             \/ Timeout
       \/ DataIn \/ StatusIn \/ StatusOut \/ SeeStall
       \/ DataOut(<<"page", Image(block * BlockPages + moved)>>)
    /\ UNCHANGED <<dfuVars, flash, hostVars>>

\* What a host asks for, and what the device does about it.
Transfer == ClassRequest \/ Pipe \/ (host \notin {"off", "done"} /\ Ask) \/ HostGoesOn

Next ==
    \/ Transfer
    \/ Ask
    \/ HostStart \/ HostStop \/ BusReset
    \/ Restart

\* A host that has been started goes on, and the device answers.
Fairness == WF_vars(Transfer)

Spec == Init /\ [][Next]_vars /\ Fairness

-----------------------------------------------------------------------------
(* Properties *)

States ==
    {"dfuIDLE", "dfuDNLOAD_SYNC", "dfuDNLOAD_IDLE", "dfuMANIFEST_SYNC", "dfuUPLOAD_IDLE"}
Pages == Nat \cup {Unset, Old, Erased}
Hosts == {"attach", "off", "probe", "abort", "download", "poll", "manifest", "done", "upload"}

(* The variables have their types; in particular the count stays below the *)
(* value the handler compares it with, and the pointers of the control     *)
(* pipe inside of the buffer.                                              *)
TypeOK ==
    /\ bState \in States
    /\ command_Count \in 0 .. Polls - 1
    /\ block_num \in Nat /\ data_len \in 0 .. BlockPages
    /\ writing \in 0 .. data_len
    /\ DOMAIN buf = 0 .. BlockPages - 1 /\ \A k \in DOMAIN buf : buf[k] \in Pages
    /\ DOMAIN flash = 0 .. FlashPages - 1 /\ \A p \in DOMAIN flash : flash[p] \in Pages
    /\ inPtr + inSize \in 0 .. BlockPages
    /\ outSize \in 0 .. outLimit /\ outLimit <= BlockPages
    /\ intsts \subseteq {"BUS", "SETUP", "EP0", "EP1"}
    /\ ep0 \in {"none", "zero", "short", "full"}
    /\ stage \in {"idle", "in", "out", "statusIn", "statusOut", "done", "stalled", "failed"}
    /\ host \in Hosts
    /\ block \in Nat

(* What the host takes for programmed is in the flash, whatever was left   *)
(* by the downloads that were interrupted before, whatever acknowledgement *)
(* was lost: the blocks before the one it is at, and all of the image once *)
(* it is done.  (An image that is too large loses what does not fit.)      *)
ConfirmedIsFlashed ==
    host \in {"download", "poll", "manifest"} =>
        \A p \in DOMAIN flash :
            p < image /\ (p < block * BlockPages \/ host = "manifest") => flash[p] = Image(p)

(* No download, however it is interrupted, writes outside of the image.    *)
OnlyTheImage == \A p \in DOMAIN flash : p >= image => flash[p] = Old

(* What the host has read is the answer to its request and to no other:    *)
(* the state the device is in, the descriptor it asked for, the pages of   *)
(* the block in their places.                                              *)
AnswerInPlace ==
    stage = "statusOut" =>
        CASE request.bRequest = "DFU_GETSTATUS" -> got = << <<"status", bState>> >>
          [] request.bRequest = "DFU_GETSTATE" -> got = << <<"state", bState>> >>
          [] request.bRequest = "GET_DESCRIPTOR" -> got = << <<"descriptor", request.wValue>> >>
          [] request.bRequest = "DFU_UPLOAD" ->
                \A k \in DOMAIN got :
                    LET p == request.wValue * BlockPages + k - 1
                    IN  p \in DOMAIN flash => got[k] = <<"page", flash[p]>>
          [] OTHER -> FALSE

(* A transfer that times out has lost an acknowledgement, asks for the     *)
(* status stage that DFU_CLRSTATUS does not have, or is a transfer of data *)
(* that the device has refused for its state, with no endpoint prepared:   *)
(* the device never leaves a host waiting otherwise.                       *)
TimeoutsExplained ==
    stage = "failed" =>
        \/ lost
        \/ request.bRequest = "DFU_CLRSTATUS"
        \/ request.bRequest = "DFU_UPLOAD" /\ bState \notin {"dfuIDLE", "dfuUPLOAD_IDLE"}
        \/ request.bRequest = "DFU_DNLOAD" /\ ~Accepting /\ ep0 = "none" /\ ~ep1

(* A host that is not stopped or restarted is not left asking for the      *)
(* status for ever: it comes to the end of its download, sees a transfer   *)
(* fail, or is enumerated anew, whatever state it found the device in and  *)
(* whatever the count was.  Whether the image is then in the flash is      *)
(* ConfirmedIsFlashed and SuccessMeansInstalled.                           *)
DownloadsFinish == host = "probe" ~> host \in {"done", "off", "attach"}

(* A host that comes to the end of its download has its image in the       *)
(* flash, page for page.  Not so for an image that does not fit: no        *)
(* failure of WriteData is ever told.                                      *)
SuccessMeansInstalled ==
    [][host = "manifest" /\ host' = "done" =>
          \A p \in 0 .. image - 1 : p \in DOMAIN flash /\ flash[p] = Image(p)]_vars

(* An upload ends when it has read all of the flash, not before.           *)
UploadIsComplete ==
    [][host = "upload" /\ host' = "done" => block * BlockPages >= FlashPages]_vars
=============================================================================
